----------------------------- MODULE UploadProofs -----------------------------
(***************************************************************************)
(* Proofs about Upload, for every torrent, set of peers and initial disk.  *)
(*                                                                         *)
(* Every step of Upload is a step of the file manager or leaves it alone   *)
(* (ManagerStep), so the manager's invariant IInv is inherited whole.  To  *)
(* that UInv adds the types of the peers' state and the link between the   *)
(* two: a peer is told of complete pieces only (ToldIsCompleted), because  *)
(* a piece is complete by the time onPieceWriteComplete runs               *)
(* (HeadCompleted).                                                        *)
(***************************************************************************)
EXTENDS Upload, FileManagerProofs

\* The variables of the peers have their types.
SideTypeOK ==
    /\ up \subseteq Peers
    /\ amChoked \subseteq Peers
    /\ interested \subseteq Peers
    /\ requested \in [Peers -> Seq(BlockInfo)]
    /\ told \in [Peers -> SUBSET Piece]

\* A Have names a piece whose completed bit is set, and the bit stays.
ToldIsCompleted == \A p \in Peers : told[p] \subseteq completedBits

UInv ==
    /\ IInv
    /\ SideTypeOK
    /\ ToldIsCompleted

------------------------------------------------------------------------------
(* The list of remembered requests *)

\* Of the positions of a request in the list one is the first.
LEMMA FirstPosition ==
  ASSUME NEW I \in SUBSET Nat, I # {}
  PROVE  Min(I) \in I
  BY LeastPosition DEF Min

\* Taking one entry out of a list leaves a list of the same things.
LEMMA RemoveAtType ==
  ASSUME NEW S, NEW s \in Seq(S), NEW i \in 1 .. Len(s)
  PROVE  RemoveAt(s, i) \in Seq(S)
<1>1. Len(s) \in Nat
  BY LenProperties
<1>2. /\ \A k \in 1 .. i - 1 : s[k] \in S
      /\ \A k \in i + 1 .. Len(s) : s[k] \in S
  BY <1>1, ElementOfSeq
<1>3. SubSeq(s, 1, i - 1) \in Seq(S)
  BY <1>1, <1>2, SubSeqProperties
<1>4. SubSeq(s, i + 1, Len(s)) \in Seq(S)
  BY <1>1, <1>2, SubSeqProperties
<1>5. QED
  BY <1>3, <1>4, ConcatProperties DEF RemoveAt

\* A cancel leaves a list of requests (MT_Cancel of handleMessage).
LEMMA RemoveFirstType ==
  ASSUME NEW S, NEW s \in Seq(S), NEW e
  PROVE  RemoveFirst(s, e) \in Seq(S)
<1> DEFINE I == {i \in 1 .. Len(s) : s[i] = e}
<1>1. CASE I = {}
  BY <1>1 DEF RemoveFirst
<1>2. CASE I # {}
  <2>1. I \in SUBSET Nat
    BY LenProperties
  <2>2. Min(I) \in 1 .. Len(s)
    BY <1>2, <2>1, FirstPosition
  <2>3. SelectInSeq(s, LAMBDA v : v = e) = Min(I)
    BY <1>2 DEF SelectInSeq
  <2>4. RemoveFirst(s, e) = RemoveAt(s, Min(I))
    BY <1>2, <2>3 DEF RemoveFirst
  <2>5. QED
    BY <2>2, <2>4, RemoveAtType
<1>3. QED
  BY <1>1, <1>2

------------------------------------------------------------------------------
(* The file manager inside Upload *)

\* Upload asks of the file manager what module FileManager allows.
LEMMA ManagerStep == [UploadNext]_ulVars => [Next]_fmVars
<1> SUFFICES ASSUME [UploadNext]_ulVars PROVE Next \/ UNCHANGED fmVars
  OBVIOUS
<1>1. ASSUME NEW p \in Peers,
             \/ Connect(p) \/ Disconnect(p) \/ Interested(p)
             \/ NotInterested(p) \/ RequestUnexpected(p)
      PROVE  UNCHANGED fmVars
  BY <1>1 DEF Connect, Disconnect, Interested, NotInterested, RequestUnexpected
<1>2. ASSUME NEW p \in Peers, NEW i \in Piece, PieceArrives(p, i)
      PROVE  Next
  <2>1. WritePieceBlock(i, p, "genuine") /\ "genuine" \in Content
    BY <1>2 DEF PieceArrives, Content
  <2>2. QED
    BY <2>1 DEF Next, MainNext
<1>3. ASSUME NEW p \in Peers, NEW i \in Piece, NEW b \in Block, RequestTaken(p, i, b)
      PROVE  Next
  BY <1>3 DEF RequestTaken, Next, MainNext
<1>4. ASSUME NEW p \in Peers, NEW i \in Piece,
             \/ \E d \in {"genuine", "corrupt"} : PieceRefused(p, i, d)
             \/ \E b \in Block : RequestRefused(p, i, b) \/ Cancel(p, i, b)
      PROVE  UNCHANGED fmVars
  BY <1>4 DEF PieceRefused, RequestRefused, Cancel
<1>5. CASE PushWrite \/ SpuriousWakeup
  BY <1>5 DEF Next, MainNext
<1>6. CASE Worker
  BY <1>6 DEF Worker, SendHaves, SendPieceBlock, OtherWork, Next, WorkerProgress
<1>7. CASE UNCHANGED ulVars
  BY <1>7 DEF ulVars
<1>8. QED
  BY <1>1, <1>2, <1>3, <1>4, <1>5, <1>6, <1>7 DEF UploadNext

------------------------------------------------------------------------------
\* Nobody is connected or told of anything at first.
LEMMA UploadInvInit == UploadInit => UInv
<1> SUFFICES ASSUME UploadInit PROVE UInv
  OBVIOUS
<1>1. IInv
  BY InvInit DEF UploadInit
<1>2. SideTypeOK
  BY DEF UploadInit, SideTypeOK
<1>3. ToldIsCompleted
  BY DEF UploadInit, ToldIsCompleted
<1>4. QED
  BY <1>1, <1>2, <1>3 DEF UInv

\* What onPieceWriteComplete tells the peers.
LEMMA HavesAreTrue ==
  ASSUME UInv, SendHaves
  PROVE  SideTypeOK' /\ ToldIsCompleted'
<1> DEFINE w == Head(writeRequests)
<1>1. /\ worker = "notify" /\ completedBits' = completedBits
      /\ UNCHANGED <<up, amChoked, interested, requested>>
      /\ told' = [p \in Peers |->
                    IF p \in up \ amChoked /\ p # w.from /\ w.index \notin Holds(p)
                    THEN told[p] \cup {w.index} ELSE told[p]]
  BY DEF SendHaves, WriteComplete, bitVars
<1>2. w.index \in completedBits /\ w.index \in Piece
  BY <1>1 DEF UInv, IInv, HeadCompleted, TypeOK
<1> HIDE DEF w
<1>3. QED
  BY <1>1, <1>2 DEF UInv, SideTypeOK, ToldIsCompleted

\* A step that leaves the list of requests and the Haves alone.
LEMMA PlainStep ==
  ASSUME UInv, [Next]_fmVars, UNCHANGED <<requested, told>>,
         up' \subseteq Peers, amChoked' \subseteq Peers, interested' \subseteq Peers
  PROVE  SideTypeOK' /\ ToldIsCompleted'
  BY CompletedGrows DEF UInv, SideTypeOK, ToldIsCompleted

\* A step that changes one peer's list of requests.
LEMMA ListStep ==
  ASSUME UInv, [Next]_fmVars, NEW p \in Peers, NEW s \in Seq(BlockInfo),
         requested' = [requested EXCEPT ![p] = s],
         UNCHANGED <<up, amChoked, interested, told>>
  PROVE  SideTypeOK' /\ ToldIsCompleted'
  BY CompletedGrows DEF UInv, SideTypeOK, ToldIsCompleted

\* A peer's object goes with all it knew.
LEMMA DropStep ==
  ASSUME UInv, [Next]_fmVars, NEW p \in Peers, Drop(p)
  PROVE  SideTypeOK' /\ ToldIsCompleted'
<1>1. completedBits \subseteq completedBits'
  BY CompletedGrows
<1>2. <<>> \in Seq(BlockInfo)
  OBVIOUS
<1>3. QED
  BY <1>1, <1>2 DEF UInv, SideTypeOK, ToldIsCompleted, Drop

\* Every step of a peer, of the main thread or of the worker keeps UInv.
LEMMA UploadInvStep == UInv /\ [UploadNext]_ulVars => UInv'
<1> SUFFICES ASSUME UInv, [UploadNext]_ulVars PROVE UInv'
  OBVIOUS
<1>1. [Next]_fmVars
  BY ManagerStep
<1>2. IInv'
  BY <1>1, InvStep DEF UInv
<1>3. SideTypeOK' /\ ToldIsCompleted'
  <2>0. SideTypeOK
    BY DEF UInv
  <2>1. ASSUME NEW p \in Peers,
               \/ Connect(p) \/ Interested(p) \/ NotInterested(p)
               \/ \E i \in Piece : PieceArrives(p, i)
               \/ \E i \in Piece, d \in {"genuine", "corrupt"} : PieceRefused(p, i, d)
               \/ \E i \in Piece, b \in Block : RequestRefused(p, i, b)
        PROVE  SideTypeOK' /\ ToldIsCompleted'
    <3>1. /\ UNCHANGED <<requested, told>>
          /\ up' \subseteq Peers /\ amChoked' \subseteq Peers /\ interested' \subseteq Peers
      BY <2>0, <2>1 DEF SideTypeOK, Connect, Interested, NotInterested, PieceArrives,
                        PieceRefused, RequestRefused, sideVars
    <3>2. QED
      BY <1>1, <3>1, PlainStep
  <2>2. ASSUME NEW p \in Peers, Disconnect(p) \/ RequestUnexpected(p)
        PROVE  SideTypeOK' /\ ToldIsCompleted'
    BY <1>1, <2>2, DropStep DEF Disconnect, RequestUnexpected
  <2>3. ASSUME NEW p \in Peers, NEW i \in Piece, NEW b \in Block, RequestTaken(p, i, b)
        PROVE  SideTypeOK' /\ ToldIsCompleted'
    <3> DEFINE r == [index |-> i, block |-> b]
    <3>1. requested[p] \in Seq(BlockInfo) /\ r \in BlockInfo
      BY <2>0 DEF SideTypeOK, BlockInfo
    <3>2. /\ requested' = [requested EXCEPT ![p] = Append(requested[p], r)]
          /\ UNCHANGED <<up, amChoked, interested, told>>
      BY <2>3 DEF RequestTaken
    <3> HIDE DEF r
    <3>3. Append(requested[p], r) \in Seq(BlockInfo)
      BY <3>1
    <3>4. QED
      BY <1>1, <3>2, <3>3, ListStep
  <2>4. ASSUME NEW p \in Peers, NEW i \in Piece, NEW b \in Block, Cancel(p, i, b)
        PROVE  SideTypeOK' /\ ToldIsCompleted'
    <3> DEFINE r == [index |-> i, block |-> b]
    <3>1. /\ requested' = [requested EXCEPT ![p] = RemoveFirst(requested[p], r)]
          /\ UNCHANGED <<up, amChoked, interested, told>>
      BY <2>4 DEF Cancel
    <3>2. RemoveFirst(requested[p], r) \in Seq(BlockInfo)
      BY <2>0, RemoveFirstType DEF SideTypeOK
    <3>3. QED
      BY <1>1, <3>1, <3>2, ListStep
  <2>5. CASE SendHaves
    BY <2>5, HavesAreTrue
  <2>6. CASE UNCHANGED sideVars
    <3>1. /\ UNCHANGED <<requested, told>>
          /\ up' \subseteq Peers /\ amChoked' \subseteq Peers /\ interested' \subseteq Peers
      BY <2>0, <2>6 DEF SideTypeOK, sideVars
    <3>2. QED
      BY <1>1, <3>1, PlainStep
  <2>7. QED
    BY <2>1, <2>2, <2>3, <2>4, <2>5, <2>6
    DEF UploadNext, Worker, SendPieceBlock, OtherWork, ulVars
<1>4. QED
  BY <1>2, <1>3 DEF UInv

\* UInv holds in every reachable state.
LEMMA UploadInvariance == UploadSpec => []UInv
<1>1. UploadInit => UInv
  BY UploadInvInit
<1>2. UInv /\ [UploadNext]_ulVars => UInv'
  BY UploadInvStep
<1>3. QED
  BY <1>1, <1>2, PTL DEF UploadSpec

------------------------------------------------------------------------------
\* The file manager below the peers' handlers behaves as module FileManager
\* says, so whatever is proved of it holds here too.
THEOREM UploadUsesFileManager == UploadSpec => Spec
<1>1. UploadInit => Init
  BY DEF UploadInit
<1>2. [UploadNext]_ulVars => [Next]_fmVars
  BY ManagerStep
<1>3. QED
  BY <1>1, <1>2, PTL DEF UploadSpec, Spec

\* Every variable keeps its type, whatever the peers send.
THEOREM UploadTypeCorrect == UploadSpec => []UploadTypeOK
<1>1. UInv => UploadTypeOK
  BY DEF UInv, IInv, SideTypeOK, UploadTypeOK
<1>2. QED
  BY <1>1, UploadInvariance, PTL

\* A request for a piece that was announced to the peer (its last block aside)
\* is one handleRequestBlock accepts, so the peer is not choked for it.
THEOREM AnnouncedPiecesAreEligible == UploadSpec => []AnnouncedIsEligible
<1>1. ASSUME UInv PROVE AnnouncedIsEligible
  <2>1. ASSUME NEW p \in up, NEW i \in told[p], NEW b \in Block \ {LastBlock}
        PROVE  IsReadEligible(i, b)
    <3>1. i \in completedBits
      BY <1>1 DEF UInv, SideTypeOK, ToldIsCompleted
    <3>2. b < LastBlock
      BY FileManagerAssumption DEF Block, LastBlock
    <3>3. QED
      BY <3>1, <3>2 DEF IsReadEligible
  <2>2. QED
    BY <2>1 DEF AnnouncedIsEligible
<1>2. QED
  BY <1>1, UploadInvariance, PTL

\* While the disk does not fill, onPieceReadComplete sends only bytes the hash
\* was checked on, however often the piece is written between the request and
\* the read.
THEOREM SentBlocksAreVerified == ~DiskMayFill /\ UploadSpec => SentIsVerified
<1>1. ASSUME ~DiskMayFill, UInv, NEW r \in ReadRequest, Sends(r)
      PROVE  disk[r.index] \in Verified
  <2>1. 1 \in DOMAIN readRequests /\ r = readRequests[1]
    BY <1>1 DEF UInv, IInv, TypeOK, Sends
  <2>2. r.index \in completedBits
    BY <1>1, <2>1 DEF UInv, IInv, ReadsAreServable, IsReadEligible
  <2>3. QED
    BY <1>1, <2>2 DEF UInv, IInv, CompletedIsVerified
<1>2. CASE DiskMayFill
  BY <1>2
<1>3. CASE ~DiskMayFill
  <2>1. UInv => [\A r \in ReadRequest : Sends(r) => disk[r.index] \in Verified]_ulVars
    BY <1>1, <1>3
  <2>2. QED
    BY <2>1, UploadInvariance, PTL DEF SentIsVerified
<1>4. QED
  BY <1>2, <1>3
==============================================================================
