-------------------------------- MODULE Upload --------------------------------
(***************************************************************************)
(* How pieces are given to other peers: the handlers of their interest,    *)
(* requests and cancels (Peer::handleMessage, ctorrent/peer.cpp), which    *)
(* run on the main thread, and Torrent::onPieceReadComplete and            *)
(* Torrent::onPieceWriteComplete (ctorrent/torrent.cpp), which run inside  *)
(* steps of the file manager's worker.  Pieces keep arriving meanwhile, as *)
(* far as they reach writePieceBlock (module Download has the rest).       *)
(***************************************************************************)
EXTENDS FileManager, Functions, SequencesExt

CONSTANTS
    Sources,        \* bound: the peers pieces come from
    MaxRequested    \* bound: remembered requests of one peer

ASSUME UploadAssumption == Sources \subseteq Peers /\ MaxRequested \in Nat

VARIABLES
    up,         \* m_peers: the connected peers
    amChoked,   \* the peers with PS_AmChoked set: we have choked them
    interested, \* the peers with PS_PeerInterested set
    requested,  \* m_requestedBlocks of each peer
    told        \* the pieces each peer has been told of with a Have

sideVars == <<up, amChoked, interested, requested, told>>
ulVars   == <<sideVars, fmVars>>

\* m_bitset of a peer: what it has announced.  Who sends pieces has them all.
Holds(p) == IF p \in Sources THEN Piece ELSE {}

BlockInfo == [index : Piece, block : Block]

UploadTypeOK ==
    /\ TypeOK
    /\ up \subseteq Peers
    /\ amChoked \subseteq Peers
    /\ interested \subseteq Peers
    /\ requested \in [Peers -> Seq(BlockInfo)]
    /\ told \in [Peers -> SUBSET Piece]

UploadInit ==
    /\ Init
    /\ up = {}
    /\ amChoked = Peers
    /\ interested = {}
    /\ requested = [p \in Peers |-> <<>>]
    /\ told = [p \in Peers |-> {}]

------------------------------------------------------------------------------
(* Connections *)

\* A peer has passed the handshake.  Its Peer object is as it was created.
Connect(p) ==
    /\ main = "idle"
    /\ p \notin up
    /\ up' = up \cup {p}
    /\ UNCHANGED <<amChoked, interested, requested, told, fmVars>>

\* The Peer object goes.  What it asked of the file manager stays queued there.
Drop(p) ==
    /\ up' = up \ {p}
    /\ amChoked' = amChoked \cup {p}
    /\ interested' = interested \ {p}
    /\ requested' = [requested EXCEPT ![p] = <<>>]
    /\ told' = [told EXCEPT ![p] = {}]

\* The connection fails.
Disconnect(p) ==
    /\ main = "idle"
    /\ p \in up
    /\ Drop(p)
    /\ UNCHANGED fmVars

------------------------------------------------------------------------------
(* Handlers on the main thread *)

CanHandle(p) == main = "idle" /\ p \in up

Interested(p) ==
    /\ CanHandle(p)
    /\ interested' = interested \cup {p}
    /\ amChoked' = amChoked \ {p}       \* sendUnchoke
    /\ UNCHANGED <<up, requested, told, fmVars>>

NotInterested(p) ==
    /\ CanHandle(p)
    /\ interested' = interested \ {p}
    /\ UNCHANGED <<up, amChoked, requested, told, fmVars>>

\* A request that is taken: handleRequestBlock, and it is remembered.
RequestTaken(p, i, b) ==
    /\ CanHandle(p)
    /\ p \in interested \ amChoked
    /\ Len(requested[p]) < MaxRequested
    /\ RequestPieceBlock(i, p, b)
    /\ requested' = [requested EXCEPT ![p] = Append(@, [index |-> i, block |-> b])]
    /\ UNCHANGED <<up, amChoked, interested, told>>

\* A request that handleRequestBlock refuses: sendChoke.
RequestRefused(p, i, b) ==
    /\ CanHandle(p)
    /\ p \in interested \ amChoked
    /\ ~IsReadEligible(i, b)
    /\ amChoked' = amChoked \cup {p}
    /\ UNCHANGED <<up, interested, requested, told, fmVars>>

\* A request from a peer that has not shown interest or is choked: handleError.
RequestUnexpected(p) ==
    /\ CanHandle(p)
    /\ p \notin interested \ amChoked
    /\ Drop(p)
    /\ UNCHANGED fmVars

\* The first matching request is forgotten; the file manager is not told.
Cancel(p, i, b) ==
    /\ CanHandle(p)
    /\ Contains(requested[p], [index |-> i, block |-> b])
    /\ requested' =
           [requested EXCEPT ![p] = RemoveFirst(@, [index |-> i, block |-> b])]
    /\ UNCHANGED <<up, amChoked, interested, told, fmVars>>

\* Mutant: the piece is announced when it is accepted.
PieceArrives_Announced(p, i) ==
    /\ p \in up \cap Sources
    /\ WritePieceBlock(i, p, "genuine")
    /\ told' = [q \in Peers |-> IF q \in up \ amChoked THEN told[q] \cup {i} ELSE told[q]]
    /\ UNCHANGED <<up, amChoked, interested, requested>>

\* A peer has completed a piece: handlePieceCompleted accepts it ...
PieceArrives(p, i) ==
    /\ p \in up \cap Sources
    /\ WritePieceBlock(i, p, "genuine")
    /\ UNCHANGED sideVars

\* ... or refuses it, and the peer is choked.
PieceRefused(p, i, d) ==
    /\ CanHandle(p)
    /\ p \in Sources
    /\ ~IsWriteEligible(i, d)
    /\ amChoked' = amChoked \cup {p}
    /\ UNCHANGED <<up, interested, requested, told, fmVars>>

------------------------------------------------------------------------------
(* Callbacks inside the worker's steps *)

\* Mutant: it->ip() == from.
SendHaves_ToSource ==
    /\ WriteComplete
    /\ LET w == Head(writeRequests) IN
           told' = [p \in Peers |->
                       IF p \in up \ amChoked /\ p = w.from
                       THEN told[p] \cup {w.index} ELSE told[p]]
    /\ UNCHANGED <<up, amChoked, interested, requested>>

\* onPieceWriteComplete: a Have to every connected peer that neither sent the
\* piece nor has it; sendHave sends nothing to a peer we have choked.
SendHaves ==
    /\ WriteComplete
    /\ LET w == Head(writeRequests) IN
           told' = [p \in Peers |->
                       IF p \in up \ amChoked /\ p # w.from /\ w.index \notin Holds(p)
                       THEN told[p] \cup {w.index} ELSE told[p]]
    /\ UNCHANGED <<up, amChoked, interested, requested>>

\* onPieceReadComplete: the block goes to whatever peer is connected from that
\* address now.  requested and amChoked are not looked at.
SendPieceBlock == ReadComplete /\ UNCHANGED sideVars

OtherWork ==
    /\ \/ CheckStopped \/ LockOrWait \/ WaitReturns
       \/ WriteLoop \/ Store \/ ClearPending \/ SetCompleted
       \/ ReadsDone \/ Unlock
    /\ UNCHANGED sideVars

Worker == SendHaves \/ SendPieceBlock \/ OtherWork

------------------------------------------------------------------------------
UploadNext ==
    \/ \E p \in Peers :
           \/ Connect(p)
           \/ Disconnect(p)
           \/ Interested(p)
           \/ NotInterested(p)
           \/ RequestUnexpected(p)
           \/ \E i \in Piece :
                  \/ PieceArrives(p, i)
                  \/ \E d \in {"genuine", "corrupt"} : PieceRefused(p, i, d)
                  \/ \E b \in Block :
                         \/ RequestTaken(p, i, b)
                         \/ RequestRefused(p, i, b)
                         \/ Cancel(p, i, b)
    \/ PushWrite /\ UNCHANGED sideVars
    \/ SpuriousWakeup /\ UNCHANGED sideVars
    \/ Worker

UploadSpec == UploadInit /\ [][UploadNext]_ulVars

\* The worker thread is scheduled; nothing is assumed of the peers.
UploadFairness == WF_ulVars(Worker)

UploadFairSpec == UploadSpec /\ UploadFairness
------------------------------------------------------------------------------
(* Properties *)

\* This step sends block r to the peer connected from r.from.
Sends(r) ==
    /\ readRequests # <<>>
    /\ r = Head(readRequests)
    /\ readRequests' = Tail(readRequests)
    /\ r.from \in up

\* What goes out is what the hash was checked on, even when the piece has been
\* written again since the request was accepted.
SentIsVerified ==
    [][\A r \in ReadRequest : Sends(r) => disk[r.index] \in Verified]_ulVars

\* A peer that asks only for what it was told of is not choked for it: once a
\* Have is out, requests for the piece (its last block aside) are eligible, on
\* whichever thread the Have and the check run.
AnnouncedIsEligible ==
    \A p \in up : \A i \in told[p] : \A b \in Block \ {LastBlock} :
        IsReadEligible(i, b)

\* A piece accepted from one peer is announced to every other peer that is
\* connected, lacks it and is not choked, unless that peer goes or is choked
\* before the worker has written the piece.
AcceptedForOthers(i, p) ==
    \E k \in DOMAIN writeRequests :
        /\ writeRequests[k].index = i
        /\ writeRequests[k].from # p /\ i \notin Holds(p)

PieceAnnounced ==
    \A p \in Peers, i \in Piece :
        (AcceptedForOthers(i, p) /\ p \in up \ amChoked)
            ~> (i \in told[p] \/ p \notin up \/ p \in amChoked)

\* handlePieceBlockData would send a block only while its request stands and
\* its peer is interested and not choked.
WithdrawnNotSent ==
    [][\A r \in ReadRequest : Sends(r) =>
           /\ Contains(requested[r.from], [index |-> r.index, block |-> r.block])
           /\ r.from \in interested \ amChoked]_ulVars
==============================================================================
