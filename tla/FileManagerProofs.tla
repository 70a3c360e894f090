-------------------------- MODULE FileManagerProofs --------------------------
(***************************************************************************)
(* Proofs about FileManager, for every number of pieces, blocks and peers. *)
(*                                                                         *)
(* None of the safety properties is inductive alone.  That a complete      *)
(* piece is on disk (CompletedIsVerified) rests on what the requests in    *)
(* the queue carry (RequestsVerified) and on the disk between the fwrite   *)
(* and the bit (HeadOnDisk); that the pending bits are the queue           *)
(* (PendingIsQueued) rests on a piece being queued once                    *)
(* (OneWritePerPiece), which rests on the pending bits in turn.  IInv is   *)
(* their conjunction.                                                      *)
(***************************************************************************)
EXTENDS FileManager, SequenceTheorems, FiniteSetTheorems, TLAPS

\* Inside process_write there is a request at the head of the queue.
HeadPresent ==
    worker \in {"store", "unpend", "complete", "notify"} => writeRequests # <<>>

\* Only data whose hash was accepted is queued or about to be queued.
RequestsVerified ==
    /\ \A k \in DOMAIN writeRequests : writeRequests[k].data \in Verified
    /\ main = "push" => staged.data \in Verified

\* After the fwrite the head of the queue is on disk, or torn by a full disk.
HeadOnDisk ==
    worker \in {"unpend", "complete", "notify"} =>
        LET i == Head(writeRequests).index IN
            disk[i] \in Verified \/ (DiskMayFill /\ disk[i] = "torn")

\* When onPieceWriteComplete runs, the piece's completed bit is set.
HeadCompleted ==
    worker = "notify" => Head(writeRequests).index \in completedBits

IInv ==
    /\ TypeOK
    /\ HeadPresent
    /\ RequestsVerified
    /\ HeadOnDisk
    /\ HeadCompleted
    /\ PendingIsQueued
    /\ OneWritePerPiece
    /\ CompletedIsVerified
    /\ ReadsAreServable

------------------------------------------------------------------------------
\* The initial value of the staged request is a request.
LEMMA NoWriteType == NoWrite \in WriteRequest
<1>1. PICK p : p \in Peers
  BY FileManagerAssumption
<1>2. [index |-> 0, from |-> p, data |-> "genuine"] \in WriteRequest
  BY <1>1, FileManagerAssumption DEF WriteRequest, Piece, Content
<1>3. QED
  BY <1>2 DEF NoWrite

\* A request at the end of the queue adds its piece to the queued pieces.
LEMMA AppendRequest ==
  ASSUME NEW s \in Seq(WriteRequest), NEW w \in WriteRequest
  PROVE  /\ Append(s, w) \in Seq(WriteRequest)
         /\ DOMAIN Append(s, w) = DOMAIN s \cup {Len(s) + 1}
         /\ \A k \in DOMAIN s : Append(s, w)[k] = s[k]
         /\ Append(s, w)[Len(s) + 1] = w
         /\ Len(s) + 1 \notin DOMAIN s
  OBVIOUS

\* Popping the queue shifts the remaining requests by one.
LEMMA TailRequest ==
  ASSUME NEW s \in Seq(WriteRequest), s # <<>>
  PROVE  /\ Tail(s) \in Seq(WriteRequest)
         /\ Head(s) \in WriteRequest
         /\ Head(s) = s[1]
         /\ 1 \in DOMAIN s
         /\ \A k \in DOMAIN Tail(s) : k + 1 \in DOMAIN s /\ k + 1 # 1 /\ Tail(s)[k] = s[k + 1]
         /\ \A k \in DOMAIN s \ {1} : k - 1 \in DOMAIN Tail(s) /\ Tail(s)[k - 1] = s[k]
  OBVIOUS

\* Of some positions in a queue one is the first: of the intervals 1 .. i a
\* smallest one ends there.
LEMMA LeastPosition ==
  ASSUME NEW I \in SUBSET Nat, I # {}
  PROVE  \E x \in I : \A y \in I : x <= y
<1> DEFINE T == {1 .. i : i \in I}
<1>1. T \subseteq FiniteSubsetsOf(Nat) /\ T # {}
  <2>1. ASSUME NEW i \in I PROVE 1 .. i \in SUBSET Nat /\ IsFiniteSet(1 .. i)
    BY FS_Interval
  <2>2. QED
    BY <2>1 DEF FiniteSubsetsOf
<1>2. PICK X \in T : \A Y \in T : ~(<<Y, X>> \in StrictSubsetOrdering(Nat))
  <2> HIDE DEF T
  <2>1. QED
    BY <1>1, FS_StrictSubsetOrderingWellFounded, WFMin
<1>3. PICK x \in I : X = 1 .. x
  OBVIOUS
<1>4. ASSUME NEW y \in I PROVE x <= y
  <2>1. ~(<<1 .. y, 1 .. x>> \in StrictSubsetOrdering(Nat))
    BY <1>2, <1>3
  <2>2. ~(1 .. y \subseteq 1 .. x /\ 1 .. y # 1 .. x)
    BY <2>1 DEF StrictSubsetOrdering
  <2>3. CASE y < x
    <3>1. 1 .. y \subseteq 1 .. x
      BY <2>3
    <3>2. x \in 1 .. x /\ x \notin 1 .. y
      BY <2>3
    <3>3. QED
      BY <2>2, <3>1, <3>2
  <2>4. QED
    BY <2>3
<1>5. QED
  BY <1>4

------------------------------------------------------------------------------
\* The invariant holds when registerFiles has scanned the file.
LEMMA InvInit == Init => IInv
<1> SUFFICES ASSUME Init PROVE IInv
  OBVIOUS
<1> USE DEF Init
<1>1. TypeOK
  <2>1. staged \in WriteRequest
    BY NoWriteType
  <2>2. writeRequests \in Seq(WriteRequest) /\ readRequests \in Seq(ReadRequest)
    BY EmptySeq
  <2>3. completedBits \subseteq Piece
    BY DEF Scanned
  <2>4. QED
    BY <2>1, <2>2, <2>3 DEF TypeOK
<1>2. HeadPresent /\ HeadOnDisk /\ HeadCompleted
  BY DEF HeadPresent, HeadOnDisk, HeadCompleted
<1>3. RequestsVerified /\ ReadsAreServable
  BY DEF RequestsVerified, ReadsAreServable
<1>4. PendingIsQueued /\ OneWritePerPiece
  BY DEF PendingIsQueued, OneWritePerPiece, Queued, InProcess
<1>5. CompletedIsVerified
  BY DEF CompletedIsVerified, Scanned
<1>6. QED
  BY <1>1, <1>2, <1>3, <1>4, <1>5 DEF IInv

\* A step that touches neither the bitsets, the queues nor the disk, and takes
\* the worker no further into process_write, keeps the invariant.
LEMMA QuietStep ==
  ASSUME IInv, TypeOK',
         UNCHANGED <<bitVars, queueVars, disk, staged>>,
         main' = "push" => main = "push",
         \/ worker' = worker
         \/ {worker, worker'} \cap {"store", "unpend", "complete", "notify"} = {}
  PROVE  IInv'
<1> USE DEF IInv
<1>1. HeadPresent' /\ HeadOnDisk' /\ HeadCompleted'
  BY DEF HeadPresent, HeadOnDisk, HeadCompleted, bitVars, queueVars
<1>2. InProcess' = InProcess
  BY DEF InProcess, queueVars
<1>3. PendingIsQueued'
  BY <1>2 DEF PendingIsQueued, Queued, bitVars, queueVars
<1>4. RequestsVerified' /\ OneWritePerPiece'
  BY DEF RequestsVerified, OneWritePerPiece, bitVars, queueVars
<1>5. CompletedIsVerified' /\ ReadsAreServable'
  BY DEF CompletedIsVerified, ReadsAreServable, IsReadEligible, bitVars, queueVars
<1>6. QED
  BY <1>1, <1>3, <1>4, <1>5

\* Every step of either thread keeps the invariant.
LEMMA InvStep == IInv /\ [Next]_fmVars => IInv'
<1> SUFFICES ASSUME IInv, [Next]_fmVars PROVE IInv'
  OBVIOUS
<1> USE DEF IInv
<1>1. ASSUME NEW i \in Piece, NEW p \in Peers, NEW d \in Content,
             WritePieceBlock(i, p, d)
      PROVE  IInv'
  <2>1. staged' \in WriteRequest /\ staged'.index = i /\ staged'.data = d
    BY <1>1 DEF WritePieceBlock, WriteRequest
  <2>2. i \notin pendingBits /\ d \in Verified
    BY <1>1 DEF WritePieceBlock, IsWriteEligible
  <2>3. UNCHANGED <<bitVars, pri, queueVars, disk, stopped, worker>> /\ main' = "push"
    BY <1>1 DEF WritePieceBlock
  <2>4. TypeOK'
    BY <2>1, <2>3 DEF TypeOK, bitVars, queueVars
  <2>5. RequestsVerified' /\ OneWritePerPiece'
    BY <2>1, <2>2, <2>3 DEF RequestsVerified, OneWritePerPiece, bitVars, queueVars
  <2>6. HeadPresent' /\ HeadOnDisk' /\ HeadCompleted' /\ PendingIsQueued'
    BY <2>3 DEF HeadPresent, HeadOnDisk, HeadCompleted, PendingIsQueued, Queued,
                InProcess, bitVars, queueVars
  <2>7. CompletedIsVerified' /\ ReadsAreServable'
    BY <2>3 DEF CompletedIsVerified, ReadsAreServable, IsReadEligible, bitVars, queueVars
  <2>8. QED
    BY <2>4, <2>5, <2>6, <2>7
<1>2. CASE PushWrite
  <2>1. /\ writeRequests' = Append(writeRequests, staged)
        /\ pendingBits' = pendingBits \cup {staged.index}
        /\ main = "push" /\ main' = "idle" /\ staged' = NoWrite
        /\ UNCHANGED <<completedBits, pri, readRequests, disk, stopped>>
    BY <1>2 DEF PushWrite
  <2>2. /\ worker \notin {"store", "unpend", "complete", "notify"}
        /\ worker' \notin {"store", "unpend", "complete", "notify"}
        /\ worker' \in {worker, "woken"}
    BY <1>2 DEF PushWrite, MutexFree, WorkerHolds, NotifyAll
  <2>3. /\ staged \in WriteRequest /\ writeRequests \in Seq(WriteRequest)
        /\ staged.index \in Piece /\ staged.data \in Verified
        /\ staged.index \notin pendingBits
    BY <2>1 DEF TypeOK, WriteRequest, RequestsVerified, OneWritePerPiece
  <2>4. /\ DOMAIN writeRequests' = DOMAIN writeRequests \cup {Len(writeRequests) + 1}
        /\ \A k \in DOMAIN writeRequests : writeRequests'[k] = writeRequests[k]
        /\ writeRequests'[Len(writeRequests) + 1] = staged
        /\ Len(writeRequests) + 1 \notin DOMAIN writeRequests
        /\ writeRequests' \in Seq(WriteRequest)
    BY <2>1, <2>3, AppendRequest
  <2>5. TypeOK'
    BY <2>1, <2>2, <2>3, <2>4, NoWriteType DEF TypeOK
  <2>6. InProcess = {} /\ InProcess' = {}
    BY <2>2 DEF InProcess
  <2>7. Queued' = Queued \cup {staged.index}
    BY <2>4 DEF Queued
  <2>8. PendingIsQueued'
    BY <2>1, <2>6, <2>7 DEF PendingIsQueued
  <2>9. OneWritePerPiece'
    <3>1. \A k \in DOMAIN writeRequests : writeRequests[k].index # staged.index
      BY <2>3, <2>6 DEF PendingIsQueued, Queued
    <3>2. QED
      BY <2>1, <2>4, <3>1 DEF OneWritePerPiece
  <2>10. RequestsVerified'
    BY <2>1, <2>3, <2>4 DEF RequestsVerified
  <2>11. HeadPresent' /\ HeadOnDisk' /\ HeadCompleted'
    BY <2>2 DEF HeadPresent, HeadOnDisk, HeadCompleted
  <2>12. CompletedIsVerified' /\ ReadsAreServable'
    BY <2>1 DEF CompletedIsVerified, ReadsAreServable, IsReadEligible
  <2>13. QED
    BY <2>5, <2>8, <2>9, <2>10, <2>11, <2>12
<1>3. ASSUME NEW i \in Piece, NEW p \in Peers, NEW b \in Block,
             RequestPieceBlock(i, p, b)
      PROVE  IInv'
  <2> DEFINE r == [index |-> i, from |-> p, block |-> b]
  <2>1. /\ readRequests' = Append(readRequests, r)
        /\ IsReadEligible(i, b)
        /\ UNCHANGED <<bitVars, pri, writeRequests, disk, stopped, mainVars>>
    BY <1>3 DEF RequestPieceBlock
  <2>2. /\ worker \notin {"store", "unpend", "complete", "notify"}
        /\ worker' \notin {"store", "unpend", "complete", "notify"}
        /\ worker' \in {worker, "woken"}
    BY <1>3 DEF RequestPieceBlock, MutexFree, WorkerHolds, NotifyAll
  <2>3. r \in ReadRequest /\ r.index = i /\ r.block = b
    BY DEF ReadRequest
  <2>4. /\ readRequests' \in Seq(ReadRequest)
        /\ \A k \in DOMAIN readRequests' :
               readRequests'[k] = r
               \/ (k \in DOMAIN readRequests /\ readRequests'[k] = readRequests[k])
    <3>1. readRequests \in Seq(ReadRequest)
      BY DEF TypeOK
    <3> HIDE DEF r
    <3>2. QED
      BY <2>1, <2>3, <3>1
  <2>5. TypeOK'
    BY <2>1, <2>2, <2>4 DEF TypeOK, bitVars, mainVars
  <2>6. ReadsAreServable'
    <3> HIDE DEF r
    <3>1. QED
      BY <2>1, <2>3, <2>4 DEF ReadsAreServable, IsReadEligible, bitVars
  <2>7. InProcess = {} /\ InProcess' = {}
    BY <2>2 DEF InProcess
  <2>8. PendingIsQueued' /\ OneWritePerPiece' /\ RequestsVerified'
    BY <2>1, <2>7 DEF PendingIsQueued, Queued, OneWritePerPiece, RequestsVerified,
                      bitVars, mainVars
  <2>9. HeadPresent' /\ HeadOnDisk' /\ HeadCompleted'
    BY <2>2 DEF HeadPresent, HeadOnDisk, HeadCompleted
  <2>10. CompletedIsVerified'
    BY <2>1 DEF CompletedIsVerified, bitVars
  <2>11. QED
    BY <2>5, <2>6, <2>8, <2>9, <2>10
<1>4. ASSUME NEW i \in Piece, NEW has \in SUBSET Piece, GetNextPiece(i, has)
      PROVE  IInv'
  <2>1. UNCHANGED <<bitVars, queueVars, disk, stopped, worker, mainVars>>
    BY <1>4 DEF GetNextPiece
  <2>2. TypeOK'
    BY <1>4, <2>1 DEF GetNextPiece, TypeOK, bitVars, queueVars, mainVars
  <2>3. QED
    BY <2>1, <2>2, QuietStep DEF mainVars
<1>5. CASE Stop
  <2>1. /\ UNCHANGED <<bitVars, pri, queueVars, disk, staged>>
        /\ stopped' \in BOOLEAN /\ main' = "joining"
        /\ worker' \in {worker, "woken"}
        /\ worker \notin {"store", "unpend", "complete", "notify"}
    BY <1>5 DEF Stop, NotifyAll, MutexFree, WorkerHolds
  <2>2. TypeOK'
    BY <2>1 DEF TypeOK, bitVars, queueVars
  <2>3. QED
    BY <2>1, <2>2, QuietStep
<1>6. CASE Joined
  <2>1. UNCHANGED <<bitVars, pri, queueVars, disk, stopped, worker, staged>> /\ main' = "joined"
    BY <1>6 DEF Joined
  <2>2. TypeOK'
    BY <2>1 DEF TypeOK, bitVars, queueVars
  <2>3. QED
    BY <2>1, <2>2, QuietStep
<1>7. CASE CheckStopped \/ LockOrWait \/ SpuriousWakeup \/ WaitReturns \/ ReadsDone \/ Unlock
  <2>1. /\ UNCHANGED <<bitVars, pri, queueVars, disk, stopped, mainVars>>
        /\ worker \notin {"store", "unpend", "complete", "notify"}
        /\ worker' \in {"check", "lock", "wait", "woken", "writes", "unlock", "done"}
    BY <1>7 DEF CheckStopped, LockOrWait, SpuriousWakeup, WaitReturns, ReadsDone, Unlock
  <2>2. TypeOK'
    BY <2>1 DEF TypeOK, bitVars, queueVars, mainVars
  <2>3. QED
    BY <2>1, <2>2, QuietStep DEF mainVars
<1>8. CASE WriteLoop
  <2>1. /\ UNCHANGED <<bitVars, pri, queueVars, disk, stopped, mainVars>>
        /\ worker' \in {"store", "reads"} /\ worker = "writes"
        /\ worker' = "store" => writeRequests # <<>>
    BY <1>8 DEF WriteLoop
  <2>2. TypeOK'
    BY <2>1 DEF TypeOK, bitVars, queueVars, mainVars
  <2>3. HeadPresent' /\ HeadOnDisk' /\ HeadCompleted' /\ InProcess = {} /\ InProcess' = {}
    BY <2>1 DEF HeadPresent, HeadOnDisk, HeadCompleted, InProcess, queueVars
  <2>4. PendingIsQueued' /\ OneWritePerPiece' /\ RequestsVerified'
    BY <2>1, <2>3 DEF PendingIsQueued, Queued, OneWritePerPiece, RequestsVerified,
                      bitVars, queueVars, mainVars
  <2>5. CompletedIsVerified' /\ ReadsAreServable'
    BY <2>1 DEF CompletedIsVerified, ReadsAreServable, IsReadEligible, bitVars, queueVars
  <2>6. QED
    BY <2>2, <2>3, <2>4, <2>5
<1>9. CASE Store
  <2> DEFINE w == Head(writeRequests)
  <2>1. /\ worker = "store" /\ worker' = "unpend"
        /\ UNCHANGED <<bitVars, pri, queueVars, stopped, mainVars>>
    BY <1>9 DEF Store
  <2>2. /\ w \in WriteRequest /\ w.index \in Piece /\ w.data \in Verified
    <3>1. writeRequests \in Seq(WriteRequest) /\ writeRequests # <<>>
      BY <2>1 DEF TypeOK, HeadPresent
    <3>2. w \in WriteRequest /\ w = writeRequests[1] /\ 1 \in DOMAIN writeRequests
      BY <3>1, TailRequest
    <3>3. QED
      BY <3>2 DEF RequestsVerified, WriteRequest
  <2>3. \/ disk' = [disk EXCEPT ![w.index] = w.data]
        \/ DiskMayFill /\ disk' = [disk EXCEPT ![w.index] = "torn"]
    BY <1>9 DEF Store
  <2>4. disk \in [Piece -> Stored]
    BY DEF TypeOK
  <2> HIDE DEF w
  <2>5. /\ disk' \in [Piece -> Stored]
        /\ \A i \in Piece : i # w.index => disk'[i] = disk[i]
        /\ disk'[w.index] \in Verified \/ (DiskMayFill /\ disk'[w.index] = "torn")
    <3>1. w.data \in Stored /\ "torn" \in Stored
      BY <2>2 DEF Verified, Stored, Content
    <3>2. QED
      BY <2>2, <2>3, <2>4, <3>1
  <2>6. TypeOK'
    BY <2>1, <2>5 DEF TypeOK, bitVars, queueVars, mainVars
  <2>7. HeadPresent' /\ HeadCompleted' /\ InProcess = {} /\ InProcess' = {}
    BY <2>1 DEF HeadPresent, HeadCompleted, InProcess, queueVars
  <2>8. HeadOnDisk'
    BY <2>1, <2>5 DEF HeadOnDisk, queueVars, w
  <2>9. PendingIsQueued' /\ OneWritePerPiece' /\ RequestsVerified'
    BY <2>1, <2>7 DEF PendingIsQueued, Queued, OneWritePerPiece, RequestsVerified,
                      bitVars, queueVars, mainVars
  <2>10. CompletedIsVerified'
    BY <2>1, <2>5 DEF CompletedIsVerified, TypeOK, bitVars
  <2>11. ReadsAreServable'
    BY <2>1 DEF ReadsAreServable, IsReadEligible, bitVars, queueVars
  <2>12. QED
    BY <2>6, <2>7, <2>8, <2>9, <2>10, <2>11
<1>10. CASE ClearPending
  <2> DEFINE i == Head(writeRequests).index
  <2>1. /\ worker = "unpend" /\ worker' = "complete"
        /\ pendingBits' = pendingBits \ {i}
        /\ UNCHANGED <<completedBits, pri, queueVars, disk, stopped, mainVars>>
    BY <1>10 DEF ClearPending
  <2>2. TypeOK'
    BY <2>1 DEF TypeOK, queueVars, mainVars
  <2>3. HeadPresent' /\ HeadOnDisk' /\ HeadCompleted'
    BY <2>1 DEF HeadPresent, HeadOnDisk, HeadCompleted, queueVars
  <2>4. InProcess = {} /\ InProcess' = {i}
    BY <2>1 DEF InProcess, queueVars
  <2>5. PendingIsQueued'
    BY <2>1, <2>4 DEF PendingIsQueued, Queued, queueVars
  <2>6. OneWritePerPiece' /\ RequestsVerified'
    BY <2>1 DEF OneWritePerPiece, RequestsVerified, queueVars, mainVars
  <2>7. CompletedIsVerified' /\ ReadsAreServable'
    BY <2>1 DEF CompletedIsVerified, ReadsAreServable, IsReadEligible, queueVars
  <2>8. QED
    BY <2>2, <2>3, <2>5, <2>6, <2>7
<1>11. CASE SetCompleted
  <2> DEFINE i == Head(writeRequests).index
  <2>1. /\ worker = "complete" /\ worker' = "notify"
        /\ completedBits' = completedBits \cup {i}
        /\ UNCHANGED <<pendingBits, pri, queueVars, disk, stopped, mainVars>>
    BY <1>11 DEF SetCompleted
  <2>2. i \in Piece
    BY <2>1, TailRequest DEF TypeOK, HeadPresent, WriteRequest
  <2>3. TypeOK'
    BY <2>1, <2>2 DEF TypeOK, queueVars, mainVars
  <2>4. HeadPresent' /\ HeadOnDisk' /\ HeadCompleted'
    BY <2>1 DEF HeadPresent, HeadOnDisk, HeadCompleted, queueVars
  <2>5. InProcess' = InProcess
    BY <2>1 DEF InProcess, queueVars
  <2>6. PendingIsQueued' /\ OneWritePerPiece' /\ RequestsVerified'
    BY <2>1, <2>5 DEF PendingIsQueued, Queued, OneWritePerPiece, RequestsVerified,
                      queueVars, mainVars
  <2>7. CompletedIsVerified'
    BY <2>1 DEF CompletedIsVerified, HeadOnDisk
  <2>8. ReadsAreServable'
    BY <2>1 DEF ReadsAreServable, IsReadEligible, queueVars
  <2>9. QED
    BY <2>3, <2>4, <2>6, <2>7, <2>8
<1>12. CASE WriteComplete
  <2>1. /\ worker = "notify" /\ worker' = "writes"
        /\ writeRequests' = Tail(writeRequests)
        /\ UNCHANGED <<bitVars, pri, readRequests, disk, stopped, mainVars>>
    BY <1>12 DEF WriteComplete
  <2>2. writeRequests \in Seq(WriteRequest) /\ writeRequests # <<>>
    BY <2>1 DEF TypeOK, HeadPresent
  <2>3. /\ writeRequests' \in Seq(WriteRequest)
        /\ Head(writeRequests) = writeRequests[1]
        /\ 1 \in DOMAIN writeRequests
        /\ \A k \in DOMAIN writeRequests' :
               /\ k + 1 \in DOMAIN writeRequests /\ k + 1 # 1
               /\ writeRequests'[k] = writeRequests[k + 1]
        /\ \A k \in DOMAIN writeRequests \ {1} :
               k - 1 \in DOMAIN writeRequests' /\ writeRequests'[k - 1] = writeRequests[k]
        /\ DOMAIN writeRequests' \subseteq Int
    <3>1. DOMAIN Tail(writeRequests) \subseteq Int
      BY <2>2, HeadTailProperties, LenProperties
    <3>2. QED
      BY <2>1, <2>2, <3>1, TailRequest
  <2>4. TypeOK'
    BY <2>1, <2>3 DEF TypeOK, bitVars, mainVars
  <2>5. HeadPresent' /\ HeadOnDisk' /\ HeadCompleted'
    BY <2>1 DEF HeadPresent, HeadOnDisk, HeadCompleted
  <2>6. InProcess = {writeRequests[1].index} /\ InProcess' = {}
    BY <2>1, <2>3 DEF InProcess
  <2>7. Queued' = Queued \ {writeRequests[1].index}
    <3>1. ASSUME NEW x \in Queued' PROVE x \in Queued \ {writeRequests[1].index}
      BY <2>3 DEF Queued, OneWritePerPiece
    <3>2. ASSUME NEW x \in Queued \ {writeRequests[1].index} PROVE x \in Queued'
      BY <2>3 DEF Queued
    <3>3. QED
      BY <3>1, <3>2
  <2>8. PendingIsQueued'
    BY <2>1, <2>6, <2>7 DEF PendingIsQueued, bitVars
  <2>9. OneWritePerPiece'
    <3>1. ASSUME NEW j \in DOMAIN writeRequests', NEW k \in DOMAIN writeRequests',
                 writeRequests'[j].index = writeRequests'[k].index
          PROVE  j = k
      <4>1. j + 1 = k + 1
        BY <2>3, <3>1 DEF OneWritePerPiece
      <4>2. QED
        BY <2>3, <4>1
    <3>2. QED
      BY <2>1, <3>1 DEF OneWritePerPiece, bitVars, mainVars
  <2>10. RequestsVerified'
    BY <2>1, <2>3 DEF RequestsVerified, mainVars
  <2>11. CompletedIsVerified' /\ ReadsAreServable'
    BY <2>1 DEF CompletedIsVerified, ReadsAreServable, IsReadEligible, bitVars
  <2>12. QED
    BY <2>4, <2>5, <2>8, <2>9, <2>10, <2>11
<1>13. CASE ReadComplete
  <2>1. /\ worker = "reads" /\ readRequests # <<>>
        /\ readRequests' = Tail(readRequests)
        /\ UNCHANGED <<bitVars, pri, writeRequests, disk, stopped, worker, mainVars>>
    BY <1>13 DEF ReadComplete
  <2>2. /\ readRequests' \in Seq(ReadRequest)
        /\ \A k \in DOMAIN readRequests' :
               k + 1 \in DOMAIN readRequests /\ readRequests'[k] = readRequests[k + 1]
    <3>1. readRequests \in Seq(ReadRequest)
      BY DEF TypeOK
    <3>2. QED
      BY <2>1, <3>1
  <2>3. TypeOK'
    BY <2>1, <2>2 DEF TypeOK, bitVars, mainVars
  <2>4. ReadsAreServable'
    BY <2>1, <2>2 DEF ReadsAreServable, IsReadEligible, bitVars
  <2>5. HeadPresent' /\ HeadOnDisk' /\ HeadCompleted' /\ InProcess' = InProcess
    BY <2>1 DEF HeadPresent, HeadOnDisk, HeadCompleted, InProcess, bitVars
  <2>6. PendingIsQueued' /\ OneWritePerPiece' /\ RequestsVerified'
    BY <2>1, <2>5 DEF PendingIsQueued, Queued, OneWritePerPiece, RequestsVerified,
                      bitVars, mainVars
  <2>7. CompletedIsVerified'
    BY <2>1 DEF CompletedIsVerified, bitVars
  <2>8. QED
    BY <2>3, <2>4, <2>5, <2>6, <2>7
<1>14. CASE UNCHANGED fmVars
  <2>1. UNCHANGED <<bitVars, pri, queueVars, disk, stopped, worker, mainVars>>
    BY <1>14 DEF fmVars
  <2>2. TypeOK'
    BY <2>1 DEF TypeOK, bitVars, queueVars, mainVars
  <2>3. QED
    BY <2>1, <2>2, QuietStep DEF mainVars
<1>15. QED
  BY <1>1, <1>2, <1>3, <1>4, <1>5, <1>6, <1>7, <1>8, <1>9, <1>10, <1>11, <1>12,
     <1>13, <1>14
  DEF Next, MainNext, WorkerProgress

\* A completed bit is never cleared.
LEMMA CompletedGrows ==
  ASSUME [Next]_fmVars
  PROVE  completedBits \subseteq completedBits'
<1>1. ASSUME NEW i \in Piece, NEW p \in Peers, NEW d \in Content, WritePieceBlock(i, p, d)
      PROVE  completedBits' = completedBits
  BY <1>1 DEF WritePieceBlock, bitVars
<1>2. ASSUME NEW i \in Piece, NEW p \in Peers, NEW b \in Block, RequestPieceBlock(i, p, b)
      PROVE  completedBits' = completedBits
  BY <1>2 DEF RequestPieceBlock, bitVars
<1>3. ASSUME NEW i \in Piece, NEW has \in SUBSET Piece, GetNextPiece(i, has)
      PROVE  completedBits' = completedBits
  BY <1>3 DEF GetNextPiece, bitVars
<1>4. CASE PushWrite \/ Stop \/ Joined \/ SpuriousWakeup
  BY <1>4 DEF PushWrite, Stop, Joined, SpuriousWakeup, bitVars
<1>5. CASE WorkerProgress
  BY <1>5 DEF WorkerProgress, CheckStopped, LockOrWait, WaitReturns, WriteLoop, Store,
              ClearPending, SetCompleted, WriteComplete, ReadComplete, ReadsDone, Unlock,
              bitVars
<1>6. CASE UNCHANGED fmVars
  BY <1>6 DEF fmVars, bitVars
<1>7. QED
  BY <1>1, <1>2, <1>3, <1>4, <1>5, <1>6 DEF Next, MainNext

------------------------------------------------------------------------------
\* IInv holds in every reachable state.
LEMMA Invariance == Spec => []IInv
<1>1. Init => IInv
  BY InvInit
<1>2. IInv /\ [Next]_fmVars => IInv'
  BY InvStep
<1>3. QED
  BY <1>1, <1>2, PTL DEF Spec

\* Every variable keeps its type, for every torrent and set of peers.
THEOREM TypeCorrect == Spec => []TypeOK
<1>1. IInv => TypeOK
  BY DEF IInv
<1>2. QED
  BY <1>1, Invariance, PTL

\* The pending bits are exactly the queued pieces, less the one the worker has
\* already cleared (push_write and process_write).
THEOREM PendingBitsAreTheQueue == Spec => []PendingIsQueued
<1>1. IInv => PendingIsQueued
  BY DEF IInv
<1>2. QED
  BY <1>1, Invariance, PTL

\* is_write_eligible, although evaluated without the mutex, never lets a piece
\* into the write queue twice.
THEOREM WritesAreUnique == Spec => []OneWritePerPiece
<1>1. IInv => OneWritePerPiece
  BY DEF IInv
<1>2. QED
  BY <1>1, Invariance, PTL

\* A piece with its completed bit set is on disk with verified bytes, unless a
\* short fwrite went unnoticed in process_write.
THEOREM CompletedPiecesAreVerified == Spec => []CompletedIsVerified
<1>1. IInv => CompletedIsVerified
  BY DEF IInv
<1>2. QED
  BY <1>1, Invariance, PTL

\* On a disk that does not fill, a complete piece is on disk without exception.
THEOREM CompletedPiecesAreOnDisk == ~DiskMayFill /\ Spec => []CompletedIsOnDisk
<1>1. IInv /\ ~DiskMayFill => CompletedIsOnDisk
  BY DEF IInv, CompletedIsVerified, CompletedIsOnDisk
<1>2. CASE DiskMayFill
  BY <1>2
<1>3. CASE ~DiskMayFill
  <2>1. IInv => CompletedIsOnDisk
    BY <1>1, <1>3
  <2>2. QED
    BY <2>1, Invariance, PTL
<1>4. QED
  BY <1>2, <1>3

\* No read request is queued for a piece that is not complete.
THEOREM QueuedReadsAreServable == Spec => []ReadsAreServable
<1>1. IInv => ReadsAreServable
  BY DEF IInv
<1>2. QED
  BY <1>1, Invariance, PTL

------------------------------------------------------------------------------
\* The ledger is empty of writes when the manager starts.
LEMMA LedgerInit == Init => Ledger!Init
  BY DEF Init, InProcess, LedgerStatus, Ledger!Init

\* The ledger sees nothing of a step that changes neither the completed bits
\* nor the set of pieces pending or in process.
LEMMA LedgerStutter ==
  ASSUME completedBits' = completedBits,
         (pendingBits \cup InProcess)' = pendingBits \cup InProcess
  PROVE  LedgerStatus' = LedgerStatus
  BY DEF LedgerStatus

\* Pushing a write request accepts the piece, or rewrites a complete one.
LEMMA PushIsAccept ==
  ASSUME IInv, PushWrite
  PROVE  Ledger!Next \/ LedgerStatus' = LedgerStatus
<1> DEFINE i == staged.index
<1>1. /\ i \in Piece /\ i \notin pendingBits
      /\ pendingBits' = pendingBits \cup {i}
      /\ completedBits' = completedBits
  BY DEF PushWrite, IInv, TypeOK, WriteRequest, OneWritePerPiece
<1>2. InProcess = {} /\ InProcess' = {}
  BY DEF PushWrite, MutexFree, WorkerHolds, NotifyAll, InProcess
<1> HIDE DEF i
<1>3. CASE i \in completedBits
  BY <1>1, <1>2, <1>3 DEF LedgerStatus
<1>4. CASE i \notin completedBits
  <2>1. LedgerStatus[i] = "missing"
    BY <1>1, <1>2, <1>4 DEF LedgerStatus
  <2>2. LedgerStatus' = [LedgerStatus EXCEPT ![i] = "writing"]
    BY <1>1, <1>2, <1>4 DEF LedgerStatus
  <2>3. QED
    BY <1>1, <2>1, <2>2 DEF Ledger!Next, Ledger!Accept
<1>5. QED
  BY <1>3, <1>4

\* Setting the completed bit lands the piece, or rewrites a complete one.
LEMMA SetIsLand ==
  ASSUME IInv, SetCompleted
  PROVE  Ledger!Next \/ LedgerStatus' = LedgerStatus
<1> DEFINE i == Head(writeRequests).index
<1>1. /\ i \in Piece
      /\ pendingBits' = pendingBits
      /\ completedBits' = completedBits \cup {i}
  BY TailRequest DEF SetCompleted, IInv, TypeOK, HeadPresent, WriteRequest
<1>2. InProcess = {i} /\ InProcess' = {i}
  BY DEF SetCompleted, InProcess, queueVars
<1> HIDE DEF i
<1>3. CASE i \in completedBits
  BY <1>1, <1>2, <1>3 DEF LedgerStatus
<1>4. CASE i \notin completedBits
  <2>1. LedgerStatus[i] = "writing"
    BY <1>1, <1>2, <1>4 DEF LedgerStatus
  <2>2. LedgerStatus' = [LedgerStatus EXCEPT ![i] = "have"]
    BY <1>1, <1>2, <1>4 DEF LedgerStatus
  <2>3. QED
    BY <1>1, <2>1, <2>2 DEF Ledger!Next, Ledger!Land
<1>5. QED
  BY <1>3, <1>4

\* Clearing the pending bit is invisible: the piece is still in process.
LEMMA ClearIsStutter ==
  ASSUME IInv, ClearPending
  PROVE  LedgerStatus' = LedgerStatus
<1> DEFINE i == Head(writeRequests).index
<1>1. /\ worker = "unpend" /\ worker' = "complete"
      /\ pendingBits' = pendingBits \ {i}
      /\ completedBits' = completedBits /\ writeRequests' = writeRequests
  BY DEF ClearPending, queueVars
<1>2. InProcess = {} /\ InProcess' = {i}
  BY <1>1 DEF InProcess
<1>3. i \in pendingBits
  <2>1. 1 \in DOMAIN writeRequests /\ Head(writeRequests) = writeRequests[1]
    BY <1>1, TailRequest DEF IInv, TypeOK, HeadPresent
  <2>2. QED
    BY <2>1, <1>2 DEF IInv, PendingIsQueued, Queued
<1>4. QED
  BY <1>1, <1>2, <1>3, LedgerStutter

\* Popping the request is invisible: the piece is complete by then.
LEMMA PopIsStutter ==
  ASSUME IInv, WriteComplete
  PROVE  LedgerStatus' = LedgerStatus
<1>1. InProcess' = {} /\ InProcess \subseteq completedBits /\ UNCHANGED bitVars
  BY DEF WriteComplete, InProcess, IInv, HeadCompleted
<1>2. QED
  BY <1>1 DEF LedgerStatus, bitVars

\* Every step of the manager is a step of the ledger or invisible to it.
LEMMA LedgerStep == IInv /\ [Next]_fmVars => [Ledger!Next]_LedgerStatus
<1> SUFFICES ASSUME IInv, [Next]_fmVars
             PROVE  Ledger!Next \/ LedgerStatus' = LedgerStatus
  OBVIOUS
<1>1. CASE PushWrite
  BY <1>1, PushIsAccept
<1>2. CASE SetCompleted
  BY <1>2, SetIsLand
<1>3. CASE ClearPending
  BY <1>3, ClearIsStutter
<1>4. CASE WriteComplete
  BY <1>4, PopIsStutter
<1>5. ASSUME UNCHANGED bitVars, InProcess' = InProcess
      PROVE  LedgerStatus' = LedgerStatus
  BY <1>5, LedgerStutter DEF bitVars
<1>6. ASSUME NEW i \in Piece, NEW p \in Peers, NEW d \in Content,
             WritePieceBlock(i, p, d)
      PROVE  LedgerStatus' = LedgerStatus
  BY <1>5, <1>6 DEF WritePieceBlock, InProcess, queueVars
<1>7. ASSUME NEW i \in Piece, NEW p \in Peers, NEW b \in Block,
             RequestPieceBlock(i, p, b)
      PROVE  LedgerStatus' = LedgerStatus
  BY <1>5, <1>7 DEF RequestPieceBlock, MutexFree, WorkerHolds, NotifyAll, InProcess
<1>8. ASSUME NEW i \in Piece, NEW has \in SUBSET Piece, GetNextPiece(i, has)
      PROVE  LedgerStatus' = LedgerStatus
  BY <1>5, <1>8 DEF GetNextPiece, InProcess, queueVars
<1>9. CASE Stop
  BY <1>5, <1>9 DEF Stop, MutexFree, WorkerHolds, NotifyAll, InProcess
<1>10. CASE CheckStopped \/ LockOrWait \/ SpuriousWakeup \/ WaitReturns \/ WriteLoop \/ Store
  BY <1>5, <1>10 DEF CheckStopped, LockOrWait, SpuriousWakeup, WaitReturns, WriteLoop,
                     Store, InProcess
<1>11. CASE ReadComplete \/ ReadsDone \/ Unlock \/ Joined
  BY <1>5, <1>11 DEF ReadComplete, ReadsDone, Unlock, Joined, InProcess, queueVars
<1>12. CASE UNCHANGED fmVars
  BY <1>5, <1>12 DEF fmVars, InProcess, queueVars
<1>13. QED
  BY <1>1, <1>2, <1>3, <1>4, <1>6, <1>7, <1>8, <1>9, <1>10, <1>11, <1>12
  DEF Next, MainNext, WorkerProgress

\* The manager implements the ledger: no piece is ever lost again, and none
\* becomes complete without having been accepted for writing.
THEOREM ImplementsLedger == Spec => LedgerSpec
<1>1. Init => Ledger!Init
  BY LedgerInit
<1>2. IInv /\ [Next]_fmVars => [Ledger!Next]_LedgerStatus
  BY LedgerStep
<1>3. QED
  BY <1>1, <1>2, Invariance, PTL DEF Spec, LedgerSpec, Ledger!Spec
==============================================================================
