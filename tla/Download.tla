------------------------------- MODULE Download -------------------------------
(***************************************************************************)
(* How pieces are downloaded: the peers' message handlers                  *)
(* (Peer::handleMessage, ctorrent/peer.cpp), Torrent::requestPiece and     *)
(* Torrent::handlePieceCompleted (ctorrent/torrent.cpp), over the file     *)
(* manager of module FileManager.                                          *)
(*                                                                         *)
(* Handlers run one at a time on the main thread (Connection::poll), but   *)
(* the file manager's worker runs beside them, so a handler is cut where   *)
(* it reads a bitset without the mutex or takes the mutex: cont says where *)
(* the running handler is.  A message from a peer is the call of its       *)
(* handler; a request to a peer is an element of wire until it is answered.*)
(* TCP delivers in order, and a remote peer answers in order.              *)
(***************************************************************************)
EXTENDS FileManager, Functions

CONSTANTS
    Seeders,    \* peers that have every piece, send their bitfield once, unchoke
                \* once, never choke again and never leave
    Liars,      \* peers whose blocks are never the right ones
    BadData,    \* what a wrongly assembled piece looks like to the hash check
    MaxQueue,   \* bound: pieces queued at a peer that repeats its bitfield
    MaxWire     \* bound: requests on their way to a peer that repeats its unchoke

ASSUME DownloadAssumption ==
    /\ Seeders \subseteq Peers
    /\ Liars \subseteq Peers \ Seeders
    /\ BadData \subseteq Content \ {"genuine"} /\ BadData # {}
    /\ MaxQueue \in Nat \ {0} /\ MaxWire \in Nat

VARIABLES
    conn,       \* the state of each peer's connection
    choked,     \* the peers with PS_PeerChoked set: they have choked us
    has,        \* m_bitset of each peer
    queue,      \* m_queue of each peer: the pieces asked of it
    wire,       \* the requests sent to each peer and not yet answered
    cont        \* the handler the main thread is in, where it can be overtaken

peerVars == <<conn, choked, has, queue, wire>>
dlVars   == <<peerVars, cont, fmVars>>

\* An entry of m_queue: the blocks that have arrived, and currentBlocks.
QueuedPiece == [index : Piece, got : SUBSET Block, current : Block]

\* A request message.
Request == [index : Piece, block : Block]

NoCont == [stage |-> "none"]
Cont ==
    [stage : {"none"}]
    \cup [stage : {"complete"}, peer : Peers, index : Piece, data : Content]
    \cup [stage : {"request"}, peer : Peers]

DownloadTypeOK ==
    /\ TypeOK
    /\ conn \in [Peers -> {"new", "up", "refused", "left"}]
    /\ choked \subseteq Peers
    /\ has \in [Peers -> SUBSET Piece]
    /\ queue \in [Peers -> Seq(QueuedPiece)]
    /\ wire \in [Peers -> Seq(Request)]
    /\ cont \in Cont

\* Every peer has just passed the handshake.
DownloadInit ==
    /\ Init
    /\ conn = [p \in Peers |-> "new"]
    /\ choked = Peers
    /\ has = [p \in Peers |-> {}]
    /\ queue = [p \in Peers |-> <<>>]
    /\ wire = [p \in Peers |-> <<>>]
    /\ cont = NoCont

------------------------------------------------------------------------------
(* Helpers *)

\* The main thread is in Connection::poll and can take the next message of p.
CanHandle(p) ==
    /\ conn[p] = "up"
    /\ cont = NoCont
    /\ main = "idle"

\* Peer::requestPiece: one request per block, in order.
RequestsFor(i) == [k \in 1 .. NumBlocks |-> [index |-> i, block |-> k - 1]]

\* The requests UnChoke sends again, one piece of m_queue q after the other.
ReRequests(q) ==
    [n \in 1 .. NumBlocks * Len(q) |->
        [index |-> q[(n - 1) \div NumBlocks + 1].index, block |-> (n - 1) % NumBlocks]]

\* The first entry of p's queue for piece i, 0 if there is none (find_if).
EntryOf(p, i) ==
    LET At == {k \in DOMAIN queue[p] : queue[p][k].index = i} IN
        IF At = {} THEN 0 ELSE CHOOSE k \in At : \A j \in At : k <= j

Without(s, k) == SubSeq(s, 1, k - 1) \o SubSeq(s, k + 1, Len(s))

\* Of the first n requests of s, those that are not for piece i.
Kept(s, i) ==
    LET kept[n \in 0 .. Len(s)] ==
            IF n = 0 THEN <<>>
            ELSE IF s[n].index = i THEN kept[n - 1] ELSE Append(kept[n - 1], s[n])
    IN kept

NotFor(s, i) == Kept(s, i)[Len(s)]

\* The peer object goes, its queue with it, and nothing more is read from it.
Drop(p, why) ==
    /\ conn' = [conn EXCEPT ![p] = why]
    /\ queue' = [queue EXCEPT ![p] = <<>>]
    /\ wire' = [wire EXCEPT ![p] = <<>>]
    /\ UNCHANGED <<choked, has, cont>>

------------------------------------------------------------------------------
(* The messages of the protocol *)

\* Bounds: a peer that repeats its bitfield is not asked for more than MaxQueue
\* pieces, and leaves each of the others its turn (MaxPri).
MayRepeat(p) ==
    /\ Len(queue[p]) < MaxQueue
    /\ \A i \in Piece : pri[i] + Cardinality(Peers) < MaxPri

\* The bitfield follows the handshake, but is also taken later, from any peer
\* that sends it again.  Every time, Torrent::requestPiece is next.
Bitfield(p, S) ==
    /\ \/ conn[p] = "new"
       \/ conn[p] = "up" /\ p \notin Seeders /\ MayRepeat(p)
    /\ cont = NoCont /\ main = "idle"
    /\ p \in Seeders => S = Piece
    /\ conn' = [conn EXCEPT ![p] = "up"]
    /\ has' = [has EXCEPT ![p] = @ \cup S]
    /\ cont' = IF IsFinished THEN NoCont ELSE [stage |-> "request", peer |-> p]
    /\ UNCHANGED <<choked, queue, wire, fmVars>>

\* A piece the peer announces later is noted, and nothing is requested.
Have(p, i) ==
    /\ CanHandle(p)
    /\ i \notin has[p]
    /\ has' = [has EXCEPT ![p] = @ \cup {i}]
    /\ UNCHANGED <<conn, choked, queue, wire, cont, fmVars>>

\* A peer that chokes us discards the requests it has not answered.
Choke(p) ==
    /\ CanHandle(p)
    /\ p \notin Seeders \cup choked
    /\ choked' = choked \cup {p}
    /\ wire' = [wire EXCEPT ![p] = <<>>]
    /\ UNCHANGED <<conn, has, queue, cont, fmVars>>

\* A seeder unchokes us once; another peer may do it again, although it has not
\* choked us.
Unchokes(p) ==
    \/ p \in choked
    \/ p \notin Seeders /\ Len(wire[p] \o ReRequests(queue[p])) <= MaxWire

\* Mutant: what was queued while choked is not requested.
UnChoke_NoRequest(p) ==
    /\ CanHandle(p)
    /\ Unchokes(p)
    /\ choked' = choked \ {p}
    /\ UNCHANGED <<conn, has, queue, wire, cont, fmVars>>

\* Every block of every queued piece is requested again, also those that have
\* arrived, and whether or not the peer had choked us.
UnChoke(p) ==
    /\ CanHandle(p)
    /\ Unchokes(p)
    /\ choked' = choked \ {p}
    /\ wire' = [wire EXCEPT ![p] = @ \o ReRequests(queue[p])]
    /\ UNCHANGED <<conn, has, queue, cont, fmVars>>

(***************************************************************************)
(* MT_PieceBlock from p, for block b of piece i, with rest the requests    *)
(* still unanswered at p.  One disjunct per way through the handler.       *)
(***************************************************************************)
PieceNotAsked(p, i) ==
    /\ EntryOf(p, i) = 0
    /\ Drop(p, "refused")

\* Another peer was faster: cancelPiece.  The first k of the unanswered
\* requests were answered before the cancels reached the peer.
PieceAlreadyDone(p, i, rest) ==
    /\ EntryOf(p, i) # 0
    /\ i \in completedBits
    /\ queue' = [queue EXCEPT ![p] = Without(@, EntryOf(p, i))]
    /\ \E k \in 0 .. Len(rest) :
           wire' = [wire EXCEPT ![p] = SubSeq(rest, 1, k)
                                       \o NotFor(SubSeq(rest, k + 1, Len(rest)), i)]
    /\ UNCHANGED <<conn, choked, has, cont>>

\* Mutant: nobody looks whether this was the last block.
BlockStored_Always(p, i, b, rest) ==
    LET e == EntryOf(p, i) IN
    /\ e # 0
    /\ i \notin completedBits
    /\ queue' = [queue EXCEPT ![p][e].got = @ \cup {b}, ![p][e].current = @ + 1]
    /\ wire' = [wire EXCEPT ![p] = rest]
    /\ UNCHANGED <<conn, choked, has, cont>>

BlockStored(p, i, b, rest) ==
    LET e == EntryOf(p, i) IN
    /\ e # 0
    /\ i \notin completedBits
    /\ queue[p][e].current + 1 < NumBlocks
    /\ queue' = [queue EXCEPT ![p][e].got = @ \cup {b}, ![p][e].current = @ + 1]
    /\ wire' = [wire EXCEPT ![p] = rest]
    /\ UNCHANGED <<conn, choked, has, cont>>

\* Mutant: the block is counted before it is compared and again after.
PieceAssembled_Early(p, i, b, rest) ==
    LET e == EntryOf(p, i) IN
    /\ e # 0
    /\ i \notin completedBits
    /\ queue[p][e].current + 2 >= NumBlocks
    /\ queue' = [queue EXCEPT ![p] = Without(@, e)]
    /\ wire' = [wire EXCEPT ![p] = rest]
    /\ \E d \in Content :
           /\ IF queue[p][e].got \cup {b} = Block /\ p \notin Liars
              THEN d = "genuine" ELSE d \in BadData
           /\ cont' = [stage |-> "complete", peer |-> p, index |-> i, data |-> d]
    /\ UNCHANGED <<conn, choked, has>>

\* currentBlocks has reached numBlocks: the blocks are put together, those
\* that never came leaving a hole.
PieceAssembled(p, i, b, rest) ==
    LET e == EntryOf(p, i) IN
    /\ e # 0
    /\ i \notin completedBits
    /\ queue[p][e].current + 1 = NumBlocks
    /\ queue' = [queue EXCEPT ![p] = Without(@, e)]
    /\ wire' = [wire EXCEPT ![p] = rest]
    /\ \E d \in Content :
           /\ IF queue[p][e].got \cup {b} = Block /\ p \notin Liars
              THEN d = "genuine" ELSE d \in BadData
           /\ cont' = [stage |-> "complete", peer |-> p, index |-> i, data |-> d]
    /\ UNCHANGED <<conn, choked, has>>

PieceBlock(p, i, b, rest) ==
    /\ CanHandle(p)
    /\ \/ PieceNotAsked(p, i)
       \/ PieceAlreadyDone(p, i, rest)
       \/ BlockStored(p, i, b, rest)
       \/ PieceAssembled(p, i, b, rest)
    /\ UNCHANGED fmVars

\* The peer answers the oldest request ...
Answer(p) ==
    /\ wire[p] # <<>>
    /\ PieceBlock(p, Head(wire[p]).index, Head(wire[p]).block, Tail(wire[p]))

\* ... or, if it does not keep to the protocol, sends what was not requested.
Unsolicited(p, i, b) ==
    /\ p \in Liars
    /\ PieceBlock(p, i, b, wire[p])

\* The connection fails, or the peer sends a message handleMessage rejects.
Leave(p) ==
    /\ conn[p] \in {"new", "up"} /\ cont = NoCont /\ main = "idle"
    /\ p \notin Seeders
    /\ Drop(p, "left")
    /\ UNCHANGED fmVars

------------------------------------------------------------------------------
(* The rest of a handler the worker may overtake *)

\* Mutant: no further piece is asked of a peer that has delivered one.
PieceAccepted_NoNext ==
    /\ cont.stage = "complete"
    /\ WritePieceBlock(cont.index, cont.peer, cont.data)
    /\ cont' = NoCont
    /\ UNCHANGED peerVars

\* Torrent::handlePieceCompleted: writePieceBlock takes the piece, the main
\* thread goes on to push it, and then asks for the next one ...
PieceAccepted ==
    /\ cont.stage = "complete"
    /\ WritePieceBlock(cont.index, cont.peer, cont.data)
    /\ cont' = [stage |-> "request", peer |-> cont.peer]
    /\ UNCHANGED peerVars

\* ... or refuses it, because of its hash or because the piece is being
\* written: sendChoke, and no further piece is asked of this peer.  (sendChoke
\* sets PS_AmChoked, which nothing here depends on; see module Upload.)
PieceRefused ==
    /\ cont.stage = "complete"
    /\ ~IsWriteEligible(cont.index, cont.data)
    /\ cont' = NoCont
    /\ UNCHANGED <<peerVars, fmVars>>

\* The piece is queued, and requested at once if the peer has not choked us.
SendPieceRequest(p, i) ==
    /\ queue' = [queue EXCEPT ![p] = Append(@, [index |-> i, got |-> {}, current |-> 0])]
    /\ wire' = IF p \in choked THEN wire
               ELSE [wire EXCEPT ![p] = @ \o RequestsFor(i)]

\* Torrent::requestPiece: nothing to ask for, or sendPieceRequest.  (An
\* isFinished read before the mutex is taken can only be out of date towards
\* FALSE, and then get_next_piece finds nothing.)
RequestPiece ==
    LET p == cont.peer IN
    /\ cont.stage = "request"
    /\ main = "idle" /\ MutexFree
    /\ \/ /\ IsFinished \/ Wanted(has[p]) = {}
          /\ UNCHANGED <<queue, wire, fmVars>>
       \/ /\ ~IsFinished
          /\ \E i \in Piece :
                 /\ GetNextPiece(i, has[p])
                 /\ SendPieceRequest(p, i)
    /\ cont' = NoCont
    /\ UNCHANGED <<conn, choked, has>>

------------------------------------------------------------------------------
HandlerProgress ==
    \/ PieceAccepted
    \/ PieceRefused
    \/ RequestPiece
    \/ PushWrite /\ UNCHANGED <<peerVars, cont>>

Worker == WorkerProgress /\ UNCHANGED <<peerVars, cont>>

Message(p) ==
    \/ \E S \in SUBSET Piece : Bitfield(p, S)
    \/ UnChoke(p)
    \/ Answer(p)

DownloadNext ==
    \/ HandlerProgress
    \/ Worker
    \/ SpuriousWakeup /\ UNCHANGED <<peerVars, cont>>
    \/ \E p \in Peers :
           \/ Message(p)
           \/ \E i \in Piece : Have(p, i)
           \/ Choke(p)
           \/ \E i \in Piece, b \in Block : Unsolicited(p, i, b)
           \/ Leave(p)

DownloadSpec == DownloadInit /\ [][DownloadNext]_dlVars

(***************************************************************************)
(* Both threads are scheduled.  A handler that has begun goes on; where it *)
(* takes the mutex it gets it in the end, although the worker may wake and *)
(* lock it any number of times in between.  Seeders send their bitfield,   *)
(* unchoke a peer that is interested and answer, and Connection::poll      *)
(* takes every message in the end, whatever the other peers send; of those *)
(* nothing is assumed.                                                     *)
(***************************************************************************)
DownloadFairness ==
    /\ WF_dlVars(Worker)
    /\ SF_dlVars(HandlerProgress)
    /\ \A p \in Seeders : SF_dlVars(Message(p))

DownloadFairSpec == DownloadSpec /\ DownloadFairness
------------------------------------------------------------------------------
(* Properties *)

\* Blocks a peer that has not choked us still owes for a queued piece are
\* requested: no choke, cancel or duplicate makes the client wait for a block
\* it has not asked for.
NothingForgotten ==
    \A p \in Peers \ choked : \A k \in DOMAIN queue[p] :
        LET e == queue[p][k] IN
        e.index \notin completedBits =>
            \A b \in Block \ e.got : [index |-> e.index, block |-> b] \in Range(wire[p])

\* A piece put together from a seeder's blocks is the right one: counting
\* arrivals (currentBlocks) is as good as looking for holes while nobody
\* chokes.
SeederPieceIsGenuine ==
    cont.stage = "complete" /\ cont.peer \in Seeders => cont.data = "genuine"

\* While a piece is missing, some seeder is being asked for a piece or is about
\* to be: losing a race leaves a peer idle, but never the last one.
SomeoneAsked ==
    \/ completedBits \cup pendingBits \cup InProcess = Piece
    \/ main = "push"
    \/ cont # NoCont
    \/ \E p \in Seeders : conn[p] = "new" \/ queue[p] # <<>>

\* A peer that only answers our requests is never thrown out for sending a
\* piece "which we did not ask for".
HonestNeverRefused == \A p \in Peers \ Liars : conn[p] # "refused"

\* With a seeder the download finishes.
Finishes == <>(completedBits = Piece)
==============================================================================
