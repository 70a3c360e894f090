----------------------------- MODULE FileManager -----------------------------
(***************************************************************************)
(* TorrentFileManagerImpl (ctorrent/torrentfilemanager.cpp) for a torrent  *)
(* of one file: the completed and pending bitsets, the two request queues, *)
(* the worker thread that drains them, and the calls the client's main     *)
(* thread makes.                                                           *)
(*                                                                         *)
(* Two threads run here.  The worker is TorrentFileManagerImpl::thread;    *)
(* worker is its program counter, and WorkerHolds says where it owns       *)
(* m_mutex.  The main thread's critical sections contain no blocking call, *)
(* so each is one step taken while the worker does not hold the mutex; its *)
(* UNLOCKED reads of the bitsets are steps (or parts of steps) of their    *)
(* own, which the worker can overtake.  A discarded std::async future      *)
(* joins in its destructor, so the callbacks into Torrent run inside the   *)
(* worker's step, with m_mutex held.                                       *)
(***************************************************************************)
EXTENDS Integers, Sequences, FiniteSets

CONSTANTS
    NumPieces,      \* m_pieces.size()
    NumBlocks,      \* blocks of maxRequestSize in a piece
    Peers,          \* the addresses a request can come from (`from')
    DiskMayFill,    \* whether fwrite may write less than it was asked to
    MaxReads,       \* bound: read requests queued at once
    MaxPri          \* bound: how often one piece is handed out

ASSUME FileManagerAssumption ==
    /\ NumPieces \in Nat \ {0}
    /\ NumBlocks \in Nat \ {0}
    /\ Peers # {}
    /\ DiskMayFill \in BOOLEAN
    /\ MaxReads \in Nat
    /\ MaxPri \in Nat

Piece == 0 .. NumPieces - 1
Block == 0 .. NumBlocks - 1
LastPiece == NumPieces - 1
LastBlock == NumBlocks - 1

(***************************************************************************)
(* What a run of bytes is, as far as the SHA-1 of its piece goes.  memcmp  *)
(* compares 5 bytes of the 20-byte digest, so a "lookalike" that differs   *)
(* from the piece but agrees in those bytes is taken for it.               *)
(***************************************************************************)
Content == {"genuine", "lookalike", "corrupt"}
Verified == {"genuine", "lookalike"}

\* On disk a piece may also be unwritten, or cut short by a full disk.
Stored == Content \cup {"absent", "torn"}

WriteRequest == [index : Piece, from : Peers, data : Content]
ReadRequest  == [index : Piece, from : Peers, block : Block]

VARIABLES
    completedBits,  \* m_completedBits: the pieces we have
    pendingBits,    \* m_pendingBits: the pieces queued for writing
    pri,            \* Piece::pri: how often a piece was handed out
    writeRequests,  \* m_writeRequests
    readRequests,   \* m_readRequests, in the order of their ids
    disk,           \* what the file holds for each piece
    stopped,        \* m_stopped
    worker,         \* the worker thread's program counter
    main,           \* where the main thread is in a call that takes the mutex
    staged          \* the request writePieceBlock is about to push

queueVars == <<writeRequests, readRequests>>
bitVars   == <<completedBits, pendingBits>>
mainVars  == <<main, staged>>
fmVars    == <<bitVars, pri, queueVars, disk, stopped, worker, mainVars>>

WorkerHolds ==
    worker \in {"writes", "store", "unpend", "complete", "notify", "reads", "unlock"}
MutexFree == ~WorkerHolds

NoWrite == CHOOSE w \in WriteRequest : TRUE

TypeOK ==
    /\ completedBits \subseteq Piece
    /\ pendingBits \subseteq Piece
    /\ pri \in [Piece -> Nat]
    /\ writeRequests \in Seq(WriteRequest)
    /\ readRequests \in Seq(ReadRequest)
    /\ disk \in [Piece -> Stored]
    /\ stopped \in BOOLEAN
    /\ worker \in {"check", "lock", "wait", "woken", "writes", "store", "unpend",
                   "complete", "notify", "reads", "unlock", "done"}
    /\ main \in {"idle", "push", "joining", "joined"}
    /\ staged \in WriteRequest

------------------------------------------------------------------------------
(***************************************************************************)
(* registerFiles: the file is scanned before any request is made.  A file  *)
(* shorter than the torrent is not scanned at all, and the loop of         *)
(* scan_file leaves `real' at the first piece, so the last piece is looked *)
(* at only when it is also the first.                                      *)
(***************************************************************************)
FileWhole(d) == d[LastPiece] \notin {"absent", "torn"}

Scanned(d) ==
    {i \in Piece : /\ FileWhole(d)
                   /\ d[i] \in Verified
                   /\ i # LastPiece \/ NumPieces = 1}

Init ==
    /\ disk \in [Piece -> Stored]
    /\ completedBits = Scanned(disk)
    /\ pendingBits = {}
    /\ pri = [i \in Piece |-> 0]
    /\ writeRequests = <<>>
    /\ readRequests = <<>>
    /\ stopped = FALSE
    /\ worker = "check"
    /\ main = "idle"
    /\ staged = NoWrite

------------------------------------------------------------------------------
(* The main thread *)

IsFinished == Cardinality(completedBits) = NumPieces

\* notify_all wakes the worker if it is waiting, and is lost otherwise.
NotifyAll == worker' = IF worker = "wait" THEN "woken" ELSE worker

\* Mutants of is_write_eligible: without the pending test, without the hash.
IsWriteEligible_AnyPending(i, data) == data \in Verified
IsWriteEligible_AnyData(i, data) == i \notin pendingBits

\* is_write_eligible, evaluated without the mutex.
IsWriteEligible(i, data) == i \notin pendingBits /\ data \in Verified

\* Mutant: the request gets the index of the next piece.
WritePieceBlock_NextIndex(i, from, data) ==
    /\ main = "idle"
    /\ IsWriteEligible(i, data)
    /\ main' = "push"
    /\ staged' = [index |-> i + 1, from |-> from, data |-> data]
    /\ UNCHANGED <<bitVars, pri, queueVars, disk, stopped, worker>>

\* writePieceBlock passes its checks and goes on to lock the mutex.
WritePieceBlock(i, from, data) ==
    /\ main = "idle"
    /\ IsWriteEligible(i, data)
    /\ main' = "push"
    /\ staged' = [index |-> i, from |-> from, data |-> data]
    /\ UNCHANGED <<bitVars, pri, queueVars, disk, stopped, worker>>

\* Mutant: unlock instead of unlock_and_notify.
PushWrite_Silent ==
    /\ main = "push"
    /\ MutexFree
    /\ writeRequests' = Append(writeRequests, staged)
    /\ pendingBits' = pendingBits \cup {staged.index}
    /\ main' = "idle"
    /\ staged' = NoWrite
    /\ UNCHANGED <<completedBits, pri, readRequests, disk, stopped, worker>>

\* ... push_write under the mutex, and the notification.
PushWrite ==
    /\ main = "push"
    /\ MutexFree
    /\ writeRequests' = Append(writeRequests, staged)
    /\ pendingBits' = pendingBits \cup {staged.index}
    /\ NotifyAll
    /\ main' = "idle"
    /\ staged' = NoWrite
    /\ UNCHANGED <<completedBits, pri, readRequests, disk, stopped>>

(***************************************************************************)
(* intact and is_read_eligible, evaluated without the mutex.  The request  *)
(* must END strictly inside the piece, so the last block is never served.  *)
(***************************************************************************)
IsReadEligible(i, block) == i \in completedBits /\ block < LastBlock

\* Mutants of requestPieceBlock: no eligibility test, no notification.
RequestPieceBlock_Unchecked(i, from, block) ==
    /\ main = "idle"
    /\ MutexFree
    /\ Len(readRequests) < MaxReads
    /\ readRequests' =
           Append(readRequests, [index |-> i, from |-> from, block |-> block])
    /\ NotifyAll
    /\ UNCHANGED <<bitVars, pri, writeRequests, disk, stopped, mainVars>>
RequestPieceBlock_Silent(i, from, block) ==
    /\ main = "idle"
    /\ IsReadEligible(i, block)
    /\ MutexFree
    /\ Len(readRequests) < MaxReads
    /\ readRequests' =
           Append(readRequests, [index |-> i, from |-> from, block |-> block])
    /\ UNCHANGED <<bitVars, pri, writeRequests, disk, stopped, worker, mainVars>>

\* requestPieceBlock accepts a request: completedBits only grows and only
\* this thread pushes, so the unlocked check still holds at the push.
RequestPieceBlock(i, from, block) ==
    /\ main = "idle"
    /\ IsReadEligible(i, block)
    /\ MutexFree
    /\ Len(readRequests) < MaxReads
    /\ readRequests' =
           Append(readRequests, [index |-> i, from |-> from, block |-> block])
    /\ NotifyAll
    /\ UNCHANGED <<bitVars, pri, writeRequests, disk, stopped, mainVars>>

\* The pieces get_next_piece may return to a peer that has the pieces `has'.
Wanted(has) == has \ (completedBits \cup pendingBits)

\* The one it picks: the least handed out, the first of those.
IsNextPiece(i, has) ==
    /\ i \in Wanted(has)
    /\ \A j \in Wanted(has) : pri[i] < pri[j] \/ (pri[i] = pri[j] /\ i <= j)

GetNextPiece(i, has) ==
    /\ main = "idle"
    /\ MutexFree
    /\ IsNextPiece(i, has)
    /\ pri[i] < MaxPri
    /\ pri' = [pri EXCEPT ![i] = @ + 1]
    /\ UNCHANGED <<bitVars, queueVars, disk, stopped, worker, mainVars>>

\* ~TorrentFileManagerImpl sets m_stopped under the mutex, notifies and joins.
Stop ==
    /\ main = "idle"
    /\ MutexFree
    /\ stopped' = TRUE
    /\ NotifyAll
    /\ main' = "joining"
    /\ UNCHANGED <<bitVars, pri, queueVars, disk, staged>>

Joined ==
    /\ main = "joining"
    /\ worker = "done"
    /\ main' = "joined"
    /\ UNCHANGED <<bitVars, pri, queueVars, disk, stopped, worker, staged>>

------------------------------------------------------------------------------
(* The worker thread: one action per point of `thread' and process_write *)

\* while (!m_stopped), read without the mutex.
CheckStopped ==
    /\ worker = "check"
    /\ worker' = IF stopped THEN "done" ELSE "lock"
    /\ UNCHANGED <<bitVars, pri, queueVars, disk, stopped, mainVars>>

\* lock.lock(), and m_condition.wait (which gives the mutex back) when both
\* queues are empty.  m_stopped is not looked at here.
LockOrWait ==
    /\ worker = "lock"
    /\ worker' = IF writeRequests = <<>> /\ readRequests = <<>>
                 THEN "wait" ELSE "writes"
    /\ UNCHANGED <<bitVars, pri, queueVars, disk, stopped, mainVars>>

\* wait has no predicate: it may also return unnotified.
SpuriousWakeup ==
    /\ worker = "wait"
    /\ worker' = "woken"
    /\ UNCHANGED <<bitVars, pri, queueVars, disk, stopped, mainVars>>

\* Mutant: a wait with a predicate that forgets m_stopped.
WaitReturns_ForWork ==
    /\ worker = "woken"
    /\ worker' = IF writeRequests = <<>> /\ readRequests = <<>>
                 THEN "wait" ELSE "writes"
    /\ UNCHANGED <<bitVars, pri, queueVars, disk, stopped, mainVars>>

WaitReturns ==
    /\ worker = "woken"
    /\ worker' = "writes"
    /\ UNCHANGED <<bitVars, pri, queueVars, disk, stopped, mainVars>>

\* The loop over the write requests.
WriteLoop ==
    /\ worker = "writes"
    /\ worker' = IF writeRequests # <<>> /\ ~stopped THEN "store" ELSE "reads"
    /\ UNCHANGED <<bitVars, pri, queueVars, disk, stopped, mainVars>>

\* process_write: the fwrite calls.  Their result only moves the offsets; a
\* short write, possible where the file has no space yet, is not noticed.
Store ==
    /\ worker = "store"
    /\ worker' = "unpend"
    /\ LET w == Head(writeRequests) IN
           \/ disk' = [disk EXCEPT ![w.index] = w.data]
           \/ /\ DiskMayFill
              /\ disk[w.index] \in {"absent", "torn"}
              /\ disk' = [disk EXCEPT ![w.index] = "torn"]
    /\ UNCHANGED <<bitVars, pri, queueVars, stopped, mainVars>>

\* Mutant: m_pendingBits.clear is missing.
ClearPending_Never ==
    /\ worker = "unpend"
    /\ worker' = "complete"
    /\ UNCHANGED <<bitVars, pri, queueVars, disk, stopped, mainVars>>

ClearPending ==
    /\ worker = "unpend"
    /\ worker' = "complete"
    /\ pendingBits' = pendingBits \ {Head(writeRequests).index}
    /\ UNCHANGED <<completedBits, pri, queueVars, disk, stopped, mainVars>>

\* Mutant: a torn write is noticed, but the request is not kept for a retry.
SetCompleted_IfWhole ==
    /\ worker = "complete"
    /\ worker' = "notify"
    /\ completedBits' =
           completedBits \cup {i \in {Head(writeRequests).index} : disk[i] # "torn"}
    /\ UNCHANGED <<pendingBits, pri, queueVars, disk, stopped, mainVars>>

SetCompleted ==
    /\ worker = "complete"
    /\ worker' = "notify"
    /\ completedBits' = completedBits \cup {Head(writeRequests).index}
    /\ UNCHANGED <<pendingBits, pri, queueVars, disk, stopped, mainVars>>

\* Torrent::onPieceWriteComplete runs and is joined; then the pop.
WriteComplete ==
    /\ worker = "notify"
    /\ worker' = "writes"
    /\ writeRequests' = Tail(writeRequests)
    /\ UNCHANGED <<bitVars, pri, readRequests, disk, stopped, mainVars>>

(***************************************************************************)
(* The loop over the read requests.  process_read asks fread for the whole *)
(* rest of the file (std::max), so it succeeds only once the file has its  *)
(* full length; the request then leaves the queue after                    *)
(* Torrent::onPieceReadComplete has run.  Otherwise the request stays at   *)
(* the head and the loop is left.                                          *)
(* That this reads on behind the end of the block, and that an fread of    *)
(* 2 GiB or more counts as a failure, is in module Storage; here the file  *)
(* is smaller, and what is behind the block is not used.                   *)
(***************************************************************************)
ReadComplete ==
    /\ worker = "reads"
    /\ readRequests # <<>> /\ ~stopped
    /\ FileWhole(disk)
    /\ readRequests' = Tail(readRequests)
    /\ UNCHANGED <<bitVars, pri, writeRequests, disk, stopped, worker, mainVars>>

ReadsDone ==
    /\ worker = "reads"
    /\ readRequests = <<>> \/ stopped \/ ~FileWhole(disk)
    /\ worker' = "unlock"
    /\ UNCHANGED <<bitVars, pri, queueVars, disk, stopped, mainVars>>

\* if (m_stopped) break; lock.unlock()
Unlock ==
    /\ worker = "unlock"
    /\ worker' = IF stopped THEN "done" ELSE "check"
    /\ UNCHANGED <<bitVars, pri, queueVars, disk, stopped, mainVars>>

------------------------------------------------------------------------------
\* What the rest of the client may ask of the manager, in any order.
MainNext ==
    \/ \E i \in Piece, p \in Peers, d \in Content : WritePieceBlock(i, p, d)
    \/ PushWrite
    \/ \E i \in Piece, p \in Peers, b \in Block : RequestPieceBlock(i, p, b)
    \/ \E i \in Piece, has \in SUBSET Piece : GetNextPiece(i, has)
    \/ Stop
    \/ Joined

WorkerProgress ==
    \/ CheckStopped \/ LockOrWait \/ WaitReturns
    \/ WriteLoop \/ Store \/ ClearPending \/ SetCompleted \/ WriteComplete
    \/ ReadComplete \/ ReadsDone \/ Unlock

Next == MainNext \/ WorkerProgress \/ SpuriousWakeup

Spec == Init /\ [][Next]_fmVars

\* The worker thread is scheduled; nothing is assumed of the main thread.
FairSpec == Spec /\ WF_fmVars(WorkerProgress)
------------------------------------------------------------------------------
(* Properties *)

\* The head of the write queue between m_pendingBits.clear and the pop.
InProcess ==
    IF worker \in {"complete", "notify"} THEN {Head(writeRequests).index} ELSE {}

Queued == {writeRequests[k].index : k \in DOMAIN writeRequests}

\* m_pendingBits says exactly which pieces are queued, although one thread sets
\* its bits, the other clears them, and process_write clears a bit before the
\* request is popped.
PendingIsQueued == pendingBits = Queued \ InProcess

\* A piece has at most one write request, counting the one that has passed
\* is_write_eligible but is not pushed yet: the unlocked test of m_pendingBits
\* is still right when push_write runs.
OneWritePerPiece ==
    /\ \A j, k \in DOMAIN writeRequests :
           writeRequests[j].index = writeRequests[k].index => j = k
    /\ main = "push" => staged.index \notin pendingBits

\* A piece marked complete is on disk with the bytes its hash was checked on.
CompletedIsOnDisk == \A i \in completedBits : disk[i] \in Verified

\* What holds when the disk may fill: a short fwrite is the only way for a
\* complete piece not to be on disk.
CompletedIsVerified ==
    \A i \in completedBits :
        disk[i] \in Verified \/ (DiskMayFill /\ disk[i] = "torn")

\* Every queued read is for a piece we have and ends inside it, whatever the
\* worker did since the request was checked without the mutex.
ReadsAreServable ==
    \A k \in DOMAIN readRequests :
        IsReadEligible(readRequests[k].index, readRequests[k].block)

\* Seen from outside, a piece is missing, then writing, then have, and never
\* goes back, although process_write clears one bit before it sets the other
\* and although a complete piece may be accepted and written again.
LedgerStatus ==
    [i \in Piece |->
        IF i \in completedBits THEN "have"
        ELSE IF i \in pendingBits \cup InProcess THEN "writing"
        ELSE "missing"]

Ledger == INSTANCE PieceLedger WITH status <- LedgerStatus
LedgerSpec == Ledger!Spec

\* An accepted piece becomes complete unless the manager is stopped first, even
\* while a read request that cannot be served blocks the read queue.
WritesLand ==
    \A i \in Piece : i \in pendingBits ~> (i \in completedBits \/ stopped)

\* Once the file has its full length the worker empties the read queue.
ReadsDrain ==
    (readRequests # <<>> /\ FileWhole(disk)) ~> (readRequests = <<>> \/ stopped)

(***************************************************************************)
(* The destructor's join returns, unless the worker had already tested     *)
(* m_stopped when it was set and then found both queues empty: `thread'    *)
(* does not test it again between locking the mutex and waiting.           *)
(***************************************************************************)
MissedStop == worker \in {"lock", "wait"} /\ writeRequests = <<>> /\ readRequests = <<>>
JoinReturns == (main = "joining" /\ ~MissedStop) ~> (worker = "done")
==============================================================================
