------------------------------ MODULE ClientProofs ------------------------------
(***************************************************************************)
(* Proofs about module Client, for any number of torrents an int has bits  *)
(* for.  One inductive invariant, IInv, carries them all.                  *)
(***************************************************************************)
EXTENDS Client, TLAPS

\* There is a bit for every torrent.
Fits == NumTorrents <= IntBits

\* The torrents main has opened and prepared.
Passed == IF phase \in {"open", "prepare"} THEN 0 .. cur - 1 ELSE Torrent

Disjoint == completed \cap errors = {}

MarkedSoFar ==
    phase \in {"open", "prepare"} => completed \cup errors \subseteq Passed

\* Until a torrent is started, every torrent passed is marked.
AllMarkedOrStarted ==
    started = 0 /\ phase # "aborted" => Passed \subseteq completed \cup errors

InfoOnly ==
    nodownload =>
        started = 0 /\ phase \notin {"while", "each", "telling", "asking", "poll"}

CompletedIsFinished == ~nodownload => completed \subseteq finished

AllMarkedAtEnd == Ended => completed \cup errors = Torrent

HasTold(t) == events[t] = <<"Started", "Completed">> /\ t \in finished

TrackersHeard ==
    \A t \in Torrent :
        /\ t \notin Passed => t \notin trackers /\ events[t] = <<>>
        /\ t \in trackers =>
               \/ events[t] = <<"Started">>
               \/ HasTold(t) /\ t = cur /\ phase \in {"telling", "aborted"}
        /\ t \notin trackers => events[t] = <<>> \/ HasTold(t)
        /\ t = cur /\ phase = "telling" => HasTold(t)

\* main tells the tracker of no torrent it has given up.
ToldIsNoError == phase = "telling" => cur \notin errors

IInv ==
    /\ ClientTypeOK
    /\ Disjoint
    /\ ToldIsNoError
    /\ MarkedSoFar
    /\ AllMarkedOrStarted
    /\ InfoOnly
    /\ CompletedIsFinished
    /\ AllMarkedAtEnd
    /\ TrackersHeard

------------------------------------------------------------------------------
\* With a bit for every torrent, the bit of torrent i is bit i.
LEMMA BitIsIndex ==
    ASSUME Fits, NEW t \in Torrent
    PROVE  Bit(t) = t
BY ClientAssumption DEF Fits, Torrent, Bit, ClientAssumption

LEMMA TotalIsTorrent == Fits => TotalBits = Torrent
BY BitIsIndex DEF TotalBits

LEMMA InvInit == Fits /\ ClientInit => IInv
<1> SUFFICES ASSUME Fits, ClientInit PROVE IInv
    OBVIOUS
<1>1. ClientTypeOK
    BY ClientAssumption DEF ClientInit, ClientTypeOK, ClientAssumption, Torrent
<1>2. QED
    BY <1>1, ClientAssumption
    DEF IInv, ClientInit, ClientAssumption, Disjoint, MarkedSoFar,
        AllMarkedOrStarted, Passed, InfoOnly, CompletedIsFinished, AllMarkedAtEnd, Ended,
        TrackersHeard, HasTold, ToldIsNoError

\* Going on with the next torrent adds one to those passed.
LEMMA OneMorePassed ==
    ASSUME cur \in Torrent, phase \in {"open", "prepare"},
           NextTorrent("open", "opened")
    PROVE  /\ phase' \in {"open", "opened"}
           /\ Passed' = Passed \cup {cur}
           /\ cur \notin Passed
           /\ phase' = "opened" => Passed' = Torrent
BY ClientAssumption DEF NextTorrent, Passed, Torrent, ClientAssumption

\* Elsewhere all torrents stay passed.
LEMMA AllPassed ==
    ASSUME cur \in Torrent, phase = "each", NextTorrent("each", "poll")
    PROVE  phase' \in {"each", "poll"} /\ Passed = Torrent /\ Passed' = Torrent
BY DEF NextTorrent, Passed

LEMMA SendKeepsType ==
    ASSUME events \in [Torrent -> Seq(TrackerEvent)],
           NEW t \in Torrent, NEW e \in TrackerEvent, Send(t, e)
    PROVE  events' \in [Torrent -> Seq(TrackerEvent)]
<1>1. Append(events[t], e) \in Seq(TrackerEvent)
    OBVIOUS
<1> QED
    BY <1>1 DEF Send

\* A step of main keeps the types; a bit is the bit of some torrent.
LEMMA TypeStep ==
    ASSUME ClientTypeOK, [ClientNext]_clVars
    PROVE  ClientTypeOK'
<1>1. CASE OpenFails
    BY <1>1, ClientAssumption
    DEF OpenFails, NextTorrent, ClientTypeOK, options, verdicts, Torrent, TotalBits,
        ClientAssumption
<1>2. CASE Open
    BY <1>2, ClientAssumption
    DEF Open, NextTorrent, ClientTypeOK, options, verdicts, Torrent, TotalBits,
        ClientAssumption
<1>3. CASE JustInfo
    BY <1>3, ClientAssumption
    DEF JustInfo, NextTorrent, ClientTypeOK, options, verdicts, Torrent, TotalBits,
        ClientAssumption
<1>4. CASE Prepared
    <2>1. /\ cur' \in Torrent /\ phase' \in {"open", "opened"}
          /\ started' \in Nat
        BY <1>4, ClientAssumption
        DEF Prepared, NextTorrent, ClientTypeOK, Torrent, ClientAssumption
    <2>2. events' \in [Torrent -> Seq(TrackerEvent)]
        BY <1>4, SendKeepsType DEF Prepared, ClientTypeOK, TrackerEvent
    <2> QED
        BY <1>4, <2>1, <2>2 DEF Prepared, ClientTypeOK, options, verdicts
<1>5. CASE PrepareFails
    BY <1>5, ClientAssumption
    DEF PrepareFails, NextTorrent, ClientTypeOK, options, verdicts, Torrent, TotalBits,
        ClientAssumption
<1>6. CASE PrepareThrows
    BY <1>6, ClientAssumption
    DEF PrepareThrows, NextTorrent, ClientTypeOK, options, verdicts, Torrent, TotalBits,
        ClientAssumption
<1>7. CASE AllOpened
    BY <1>7, ClientAssumption
    DEF AllOpened, NextTorrent, ClientTypeOK, options, verdicts, Torrent, TotalBits,
        ClientAssumption
<1>8. CASE While
    BY <1>8, ClientAssumption
    DEF While, NextTorrent, ClientTypeOK, options, verdicts, Torrent, TotalBits,
        ClientAssumption
<1>9. CASE SkipFailed
    BY <1>9, ClientAssumption
    DEF SkipFailed, NextTorrent, ClientTypeOK, options, verdicts, Torrent, TotalBits,
        ClientAssumption
<1>10. CASE Unfinished
    BY <1>10, ClientAssumption
    DEF Unfinished, NextTorrent, ClientTypeOK, options, verdicts, Torrent, TotalBits,
        ClientAssumption
<1>11. CASE Finished
    <2>1. cur' \in Torrent /\ phase' \in {"each", "poll", "telling"}
        BY <1>11, ClientAssumption
        DEF Finished, Mark, NextTorrent, ClientTypeOK, Torrent, ClientAssumption
    <2>2. events' \in [Torrent -> Seq(TrackerEvent)]
        <3>1. FinishEvent \in TrackerEvent
            BY DEF FinishEvent, TrackerEvent
        <3>2. CASE noseed \/ cur \notin trackers
            BY <1>11, <3>2 DEF Finished, ClientTypeOK
        <3>3. CASE ~noseed /\ cur \in trackers
            BY <1>11, <3>1, <3>3, SendKeepsType DEF Finished, ClientTypeOK
        <3> QED
            BY <3>2, <3>3
    <2>3. completed' \subseteq TotalBits
        BY <1>11 DEF Finished, Mark, ClientTypeOK, TotalBits
    <2> QED
        BY <1>11, <2>1, <2>2, <2>3 DEF Finished, ClientTypeOK, options, verdicts
<1>12. CASE Ask \/ Asked \/ Told \/ QueryAborts
    BY <1>12, ClientAssumption
    DEF Ask, Asked, Told, QueryAborts, Mark, NextTorrent, ClientTypeOK, options, verdicts,
        Torrent, TotalBits, ClientAssumption
<1>13. CASE Poll
    BY <1>13, ClientAssumption
    DEF Poll, NextTorrent, ClientTypeOK, options, verdicts, Torrent, TotalBits,
        ClientAssumption
<1>14. CASE Seed
    BY <1>14, ClientAssumption
    DEF Seed, NextTorrent, ClientTypeOK, options, verdicts, Torrent, TotalBits,
        ClientAssumption
<1>15. CASE \E t \in Torrent : LastPieceWritten(t)
    BY <1>15 DEF LastPieceWritten, ClientTypeOK, options, verdicts
<1>16. CASE UNCHANGED clVars
    BY <1>16 DEF clVars, ClientTypeOK, options, verdicts
<1> QED
    BY <1>1, <1>2, <1>3, <1>4, <1>5, <1>6, <1>7, <1>8, <1>9, <1>10, <1>11, <1>12, <1>13, <1>14, <1>15, <1>16 DEF ClientNext, MainProgress

LEMMA InvStep ==
    ASSUME Fits, IInv, [ClientNext]_clVars
    PROVE  IInv'
<1>0. ClientTypeOK /\ ClientTypeOK'
    BY TypeStep DEF IInv
<1>b. /\ cur \in Torrent /\ Bit(cur) = cur
      /\ TotalBits = Torrent
      /\ \A t \in Torrent : Bit(t) = t
    BY <1>0, BitIsIndex, TotalIsTorrent DEF ClientTypeOK
<1>1. CASE OpenFails
    <2>1. /\ phase' \in {"open", "opened"} /\ Passed' = Passed \cup {cur}
          /\ cur \notin Passed
          /\ phase' = "opened" => Passed' = Torrent
        BY <1>1, <1>b, OneMorePassed DEF OpenFails
    <2> QED
        BY <1>1, <1>0, <1>b, <2>1 DEF OpenFails, IInv, options, verdicts,
        Disjoint, MarkedSoFar, AllMarkedOrStarted, InfoOnly, CompletedIsFinished,
        AllMarkedAtEnd, Ended, TrackersHeard, HasTold, ToldIsNoError
<1>2. CASE Open
    BY <1>2, <1>0, <1>b, ClientAssumption
    DEF Open, NextTorrent, IInv, options, verdicts, ClientTypeOK, Torrent, ClientAssumption,
        Disjoint, MarkedSoFar, AllMarkedOrStarted, Passed,
        InfoOnly, CompletedIsFinished, AllMarkedAtEnd, Ended, TrackersHeard, HasTold, ToldIsNoError
<1>3. CASE JustInfo
    <2>1. /\ phase' \in {"open", "opened"} /\ Passed' = Passed \cup {cur}
          /\ cur \notin Passed
          /\ phase' = "opened" => Passed' = Torrent
        BY <1>3, <1>b, OneMorePassed DEF JustInfo
    <2> QED
        BY <1>3, <1>0, <1>b, <2>1 DEF JustInfo, IInv, options, verdicts,
        Disjoint, MarkedSoFar, AllMarkedOrStarted, InfoOnly, CompletedIsFinished,
        AllMarkedAtEnd, Ended, TrackersHeard, HasTold, ToldIsNoError
<1>4. CASE Prepared
    <2>1. /\ phase' \in {"open", "opened"} /\ Passed' = Passed \cup {cur}
          /\ cur \notin Passed
          /\ phase' = "opened" => Passed' = Torrent
        BY <1>4, <1>b, OneMorePassed DEF Prepared
    <2>2. events' = [events EXCEPT ![cur] = <<"Started">>]
        <3>1. events[cur] = <<>>
            BY <1>0, <1>b, <2>1 DEF IInv, TrackersHeard
        <3>2. Append(events[cur], "Started") = <<"Started">>
            BY <3>1
        <3> QED
            BY <1>4, <3>2 DEF Prepared, Send
    <2>3. TrackersHeard'
        BY <1>4, <1>0, <1>b, <2>1, <2>2
        DEF Prepared, IInv, TrackersHeard, HasTold, ClientTypeOK
    <2> QED
        BY <1>4, <1>0, <1>b, <2>1, <2>3 DEF Prepared, IInv, options, verdicts,
            ClientTypeOK, Disjoint, MarkedSoFar, AllMarkedOrStarted, InfoOnly,
            CompletedIsFinished, AllMarkedAtEnd, Ended, ToldIsNoError
<1>5. CASE PrepareFails
    <2>1. /\ phase' \in {"open", "opened"} /\ Passed' = Passed \cup {cur}
          /\ cur \notin Passed
          /\ phase' = "opened" => Passed' = Torrent
        BY <1>5, <1>b, OneMorePassed DEF PrepareFails
    <2> QED
        BY <1>5, <1>0, <1>b, <2>1 DEF PrepareFails, IInv, options, verdicts,
        Disjoint, MarkedSoFar, AllMarkedOrStarted, InfoOnly, CompletedIsFinished,
        AllMarkedAtEnd, Ended, TrackersHeard, HasTold, ToldIsNoError
<1>6. CASE PrepareThrows
    BY <1>6, <1>0, <1>b, ClientAssumption
    DEF PrepareThrows, NextTorrent, IInv, options, verdicts, ClientTypeOK, Torrent, ClientAssumption,
        Disjoint, MarkedSoFar, AllMarkedOrStarted, Passed,
        InfoOnly, CompletedIsFinished, AllMarkedAtEnd, Ended, TrackersHeard, HasTold, ToldIsNoError
<1>7. CASE AllOpened
    <2>1. Passed = Torrent /\ Passed' = Torrent
        BY <1>7 DEF AllOpened, Passed
    <2>2. completed' = completed /\ errors' = errors
        BY <1>7 DEF AllOpened, verdicts
    <2>3. AllMarkedAtEnd'
        <3>1. CASE started = 0
            BY <1>7, <1>0, <1>b, <2>1, <2>2, <3>1
            DEF AllOpened, IInv, AllMarkedOrStarted, AllMarkedAtEnd, ClientTypeOK
        <3>2. CASE started # 0
            BY <1>7, <1>0, <3>2
            DEF AllOpened, IInv, InfoOnly, AllMarkedAtEnd, Ended, ClientTypeOK
        <3> QED
            BY <3>1, <3>2
    <2> QED
        BY <1>7, <1>0, <2>1, <2>2, <2>3
        DEF AllOpened, IInv, options, verdicts, ClientTypeOK, Disjoint, MarkedSoFar,
            AllMarkedOrStarted, InfoOnly, CompletedIsFinished, TrackersHeard, HasTold, ToldIsNoError
<1>8. CASE While
    BY <1>8, <1>0, <1>b, ClientAssumption
    DEF While, NextTorrent, IInv, options, verdicts, ClientTypeOK, Torrent, ClientAssumption,
        Disjoint, MarkedSoFar, AllMarkedOrStarted, Passed,
        InfoOnly, CompletedIsFinished, AllMarkedAtEnd, Ended, TrackersHeard, HasTold, ToldIsNoError
<1>9. CASE SkipFailed
    BY <1>9, <1>0, <1>b, ClientAssumption
    DEF SkipFailed, NextTorrent, IInv, options, verdicts, ClientTypeOK, Torrent, ClientAssumption,
        Disjoint, MarkedSoFar, AllMarkedOrStarted, Passed,
        InfoOnly, CompletedIsFinished, AllMarkedAtEnd, Ended, TrackersHeard, HasTold, ToldIsNoError
<1>10. CASE Unfinished
    BY <1>10, <1>0, <1>b, ClientAssumption
    DEF Unfinished, NextTorrent, IInv, options, verdicts, ClientTypeOK, Torrent, ClientAssumption,
        Disjoint, MarkedSoFar, AllMarkedOrStarted, Passed,
        InfoOnly, CompletedIsFinished, AllMarkedAtEnd, Ended, TrackersHeard, HasTold, ToldIsNoError
<1>11. CASE Finished
    <2>1. CASE cur \in trackers /\ ~noseed
        <3>1. /\ phase = "each" /\ phase' = "telling" /\ cur' = cur /\ completed' = completed
              /\ cur \in finished /\ cur \notin errors /\ Passed = Torrent /\ Passed' = Torrent
              /\ UNCHANGED <<options, errors, eseed, started, finished, trackers>>
            BY <1>11, <1>b, <2>1 DEF Finished, Passed
        <3>2. events' = [events EXCEPT ![cur] = <<"Started", "Completed">>]
            BY <1>11, <1>0, <1>b, <2>1, <3>1
            DEF Finished, FinishEvent, Send, IInv, TrackersHeard, ClientTypeOK
        <3>3. TrackersHeard'
            BY <1>0, <1>b, <3>1, <3>2
            DEF IInv, TrackersHeard, HasTold, ClientTypeOK
        <3> QED
            BY <1>0, <1>b, <3>1, <3>3 DEF IInv, options,
                ClientTypeOK, Disjoint, MarkedSoFar, AllMarkedOrStarted, InfoOnly,
                CompletedIsFinished, AllMarkedAtEnd, Ended, ToldIsNoError
    <2>2. CASE ~(cur \in trackers /\ ~noseed)
        <3>1. /\ phase' \in {"each", "poll"} /\ Passed = Torrent /\ Passed' = Torrent
              /\ phase = "each" /\ cur \in finished /\ cur \notin errors
              /\ completed' = completed \cup {cur} /\ events' = events
              /\ UNCHANGED <<options, errors, eseed, started, finished, trackers>>
            BY <1>11, <1>b, <2>2, AllPassed DEF Finished, Mark
        <3>2. TrackersHeard'
            BY <1>0, <3>1 DEF IInv, TrackersHeard, HasTold
        <3> QED
            BY <1>0, <1>b, <3>1, <3>2 DEF IInv, options,
                ClientTypeOK, Disjoint, MarkedSoFar, AllMarkedOrStarted, InfoOnly,
                CompletedIsFinished, AllMarkedAtEnd, Ended, ToldIsNoError
    <2> QED
        BY <2>1, <2>2
<1>12. CASE Ask \/ Asked \/ QueryAborts
    <2>1. /\ phase \in {"each", "telling", "asking"} /\ Passed = Torrent /\ Passed' = Torrent
          /\ phase = "telling" => phase' = "aborted" /\ cur' = cur
          /\ phase' \in {"each", "poll", "asking", "aborted"}
          /\ UNCHANGED <<options, verdicts, started, finished, trackers, events>>
        BY <1>12 DEF Ask, Asked, QueryAborts, NextTorrent, Passed
    <2>2. TrackersHeard'
        BY <1>0, <2>1 DEF IInv, TrackersHeard, HasTold
    <2> QED
        BY <1>0, <1>b, <2>1, <2>2 DEF IInv, options, verdicts,
            ClientTypeOK, Disjoint, MarkedSoFar, AllMarkedOrStarted, InfoOnly,
            CompletedIsFinished, AllMarkedAtEnd, Ended, ToldIsNoError
<1>17. CASE Told
    <2>1. /\ phase = "telling" /\ Passed = Torrent /\ Passed' = Torrent
          /\ phase' \in {"each", "poll"}
          /\ completed' = completed \cup {cur} /\ trackers' = trackers \ {cur}
          /\ UNCHANGED <<options, errors, eseed, started, finished, events>>
        BY <1>17, <1>b DEF Told, Mark, NextTorrent, Passed
    <2>2. HasTold(cur) /\ cur \notin errors
        BY <1>0, <1>b, <2>1 DEF IInv, TrackersHeard, ToldIsNoError
    <2>3. TrackersHeard'
        BY <1>0, <2>1, <2>2 DEF IInv, TrackersHeard, HasTold
    <2> QED
        BY <1>0, <1>b, <2>1, <2>2, <2>3 DEF IInv, options,
            ClientTypeOK, Disjoint, MarkedSoFar, AllMarkedOrStarted, InfoOnly,
            CompletedIsFinished, AllMarkedAtEnd, Ended, HasTold, ToldIsNoError
<1>13. CASE Poll
    BY <1>13, <1>0, <1>b, ClientAssumption
    DEF Poll, NextTorrent, IInv, options, verdicts, ClientTypeOK, Torrent, ClientAssumption,
        Disjoint, MarkedSoFar, AllMarkedOrStarted, Passed,
        InfoOnly, CompletedIsFinished, AllMarkedAtEnd, Ended, TrackersHeard, HasTold, ToldIsNoError
<1>14. CASE Seed
    BY <1>14, <1>0, <1>b, ClientAssumption
    DEF Seed, NextTorrent, IInv, options, verdicts, ClientTypeOK, Torrent, ClientAssumption,
        Disjoint, MarkedSoFar, AllMarkedOrStarted, Passed,
        InfoOnly, CompletedIsFinished, AllMarkedAtEnd, Ended, TrackersHeard, HasTold, ToldIsNoError
<1>15. CASE \E t \in Torrent : LastPieceWritten(t)
    BY <1>15, <1>0 DEF LastPieceWritten, IInv, options, verdicts,
        Disjoint, MarkedSoFar, AllMarkedOrStarted, Passed,
        InfoOnly, CompletedIsFinished, AllMarkedAtEnd, Ended, TrackersHeard, HasTold, ToldIsNoError
<1>16. CASE UNCHANGED clVars
    BY <1>16, <1>0 DEF clVars, IInv, options, verdicts,
        Disjoint, MarkedSoFar, AllMarkedOrStarted, Passed,
        InfoOnly, CompletedIsFinished, AllMarkedAtEnd, Ended, TrackersHeard, HasTold, ToldIsNoError
<1> QED
    BY <1>1, <1>2, <1>3, <1>4, <1>5, <1>6, <1>7, <1>8, <1>9, <1>10, <1>11, <1>12, <1>13, <1>14, <1>15, <1>16, <1>17 DEF ClientNext, MainProgress

\* IInv holds throughout.
LEMMA Invariance == Fits /\ ClientSpec => []IInv
<1> SUFFICES ASSUME Fits PROVE ClientSpec => []IInv
    OBVIOUS
<1>1. ClientInit => IInv
    BY InvInit
<1>2. IInv /\ [ClientNext]_clVars => IInv'
    BY InvStep
<1> QED
    BY <1>1, <1>2, PTL DEF ClientSpec

------------------------------------------------------------------------------
\* The download loop is not left before every torrent has finished or failed.
THEOREM NothingIsLeftBehind == Fits /\ ClientSpec => []NothingLeftBehind
<1> SUFFICES ASSUME Fits PROVE ClientSpec => []NothingLeftBehind
    OBVIOUS
<1>1. IInv => NothingLeftBehind
    BY BitIsIndex
    DEF IInv, CompletedIsFinished, AllMarkedAtEnd, NothingLeftBehind
<1> QED
    BY <1>1, Invariance, PTL

\* In the end a torrent is marked completed or in error and not both, and only
\* what has finished is completed, unless --nodownload was given.
THEOREM OneVerdictEach == Fits /\ ClientSpec => []EachHasOneVerdict
<1> SUFFICES ASSUME Fits PROVE ClientSpec => []EachHasOneVerdict
    OBVIOUS
<1>1. IInv => EachHasOneVerdict
    BY TotalIsTorrent, BitIsIndex
    DEF IInv, Disjoint, CompletedIsFinished, AllMarkedAtEnd, EachHasOneVerdict
<1> QED
    BY <1>1, Invariance, PTL

\* finish() is called in every round, and a tracker is told once.
THEOREM TrackersAreToldOnce == Fits /\ ClientSpec => []CompletedOnce
<1>1. IInv => CompletedOnce
    BY DEF IInv, TrackersHeard, HasTold, CompletedOnce, ClientTypeOK
<1> QED
    BY <1>1, Invariance, PTL

\* Every variable keeps its type, also when there are more torrents than bits
\* (main's totalBits).
THEOREM ClientTypeCorrect == ClientSpec => []ClientTypeOK
<1>1. ClientInit => ClientTypeOK
    BY ClientAssumption DEF ClientInit, ClientTypeOK, ClientAssumption, Torrent
<1>2. ClientTypeOK /\ [ClientNext]_clVars => ClientTypeOK'
    BY TypeStep
<1> QED
    BY <1>1, <1>2, PTL DEF ClientSpec
==============================================================================
