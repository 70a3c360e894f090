----------------------------- MODULE TrackerProofs -----------------------------
(***************************************************************************)
(* The safety properties of module Tracker, for any list of trackers, any  *)
(* number of polls and any number of transaction ids.                      *)
(***************************************************************************)
EXTENDS Tracker, FiniteSetTheorems, TLAPS

\* The parts of the type invariant the argument needs.
Typed ==
    /\ stage \in {"new", "running", "failed", "over", "aborted"}
    /\ phase \in {"idle", "next", "resolve", "connect", "announce", "read"}
    /\ event \in {"None", "Started", "Completed"}
    /\ cur \in Nat
    /\ tried \subseteq Url
    /\ answered \in BOOLEAN
    /\ tx \in Tx
    /\ requests \subseteq Datagram /\ net \subseteq Datagram
    /\ response \in Seq(Datagram)

\* Until a tracker has answered nothing is active and nobody is dialled; then the
\* only active tracker is the one asked, and has been tried.
OneActive ==
    /\ active \subseteq {cur} \cap tried
    /\ stage = "new" => active = {} /\ dialled = {}

\* Before prepare asks a tracker it has tried all that come before it.
TriedInOrder ==
    /\ phase = "next" => event = "Started"
    /\ event = "Started" /\ phase # "idle" =>
         /\ stage = "new"
         /\ cur \in 1 .. NumUrls + 1
         /\ 1 .. cur - 1 \subseteq tried
         /\ phase # "next" => cur \in tried
    /\ event # "Started" /\ phase # "idle" => stage = "running" /\ active = {cur}

GaveUpAfterAll == stage = "failed" => Url \subseteq tried

\* An answer to this query's announce, in the network or in our buffer.
Ours(d) == d.action = "announce" /\ d.tx = tx

\* There is none before a tracker has sent one.
NoneUnanswered ==
    /\ phase = "read" => cur \in Http
    /\ phase \in {"connect", "announce"} =>
         /\ cur \notin Http
         /\ \A d \in net : Ours(d) => answered
         /\ \A i \in DOMAIN response : Ours(response[i]) => answered

IInv == Typed /\ OneActive /\ TriedInOrder /\ GaveUpAfterAll /\ NoneUnanswered
            /\ AnswersAreOurs

------------------------------------------------------------------------------
LEMMA InvInit == TrackerInit => IInv
<1>1. 0 \in Tx
    BY TrackerAssumption DEF Tx
<1>2. TrackerInit => Typed
  <2>1. <<>> \in Seq(Datagram) /\ 0 \in Nat
      OBVIOUS
  <2> QED
      BY <1>1, <2>1, Zenon DEF TrackerInit, Typed
<1>3. TrackerInit => OneActive /\ TriedInOrder /\ GaveUpAfterAll
    BY DEF TrackerInit, OneActive, TriedInOrder, GaveUpAfterAll
<1>4. TrackerInit => NoneUnanswered /\ AnswersAreOurs
    BY DEF TrackerInit, NoneUnanswered, AnswersAreOurs
<1> QED
    BY <1>2, <1>3, <1>4 DEF IInv

\* What a query does when it returns, whatever it was made for.
LEMMA ReturnStep ==
    ASSUME IInv, phase \notin {"idle", "next"}, Succeeds \/ Fails,
           UNCHANGED <<finished, tx, response, requests, net, tried, answered>>,
           cur \notin Http /\ dialled' # {} => answered,
           Fails /\ event = "Started" => dialled' = dialled
    PROVE  IInv'
<1> USE TrackerAssumption DEF IInv, Typed, OneActive, TriedInOrder, GaveUpAfterAll,
        NoneUnanswered, AnswersAreOurs, Url
<1>1. CASE Succeeds /\ event = "Started"
    BY <1>1 DEF Succeeds
<1>2. CASE Succeeds /\ event = "None"
    BY <1>2 DEF Succeeds
<1>3. CASE Succeeds /\ event = "Completed"
    BY <1>3 DEF Succeeds
<1>4. CASE Fails /\ event = "Started"
    BY <1>4 DEF Fails
<1>5. CASE Fails /\ event = "None"
    BY <1>5 DEF Fails
<1>6. CASE Fails /\ event = "Completed"
    BY <1>6 DEF Fails
<1> QED
    BY <1>1, <1>2, <1>3, <1>4, <1>5, <1>6

LEMMA InvStep ==
    ASSUME IInv, [TrackerNext]_trVars
    PROVE  IInv'
<1> USE DEF IInv, Typed, OneActive, TriedInOrder, GaveUpAfterAll, NoneUnanswered,
        AnswersAreOurs, torVars, exchVars, netVars, histVars, trVars
<1>1. CASE Prepare
    BY <1>1, TrackerAssumption DEF Prepare
<1>2. CASE NextUrl
  <2>1. NumUrls \in Nat
      BY TrackerAssumption
  <2>2. CASE cur > NumUrls
    <3>1. Url \subseteq tried
        BY <1>2, <2>1, <2>2 DEF NextUrl, Url
    <3> QED
        BY <1>2, <2>2, <3>1 DEF NextUrl
  <2>3. CASE ~(cur > NumUrls)
    <3>1. cur \in Url /\ tried' = tried \cup {cur} /\ 1 .. cur - 1 \subseteq tried
        BY <1>2, <2>1, <2>3 DEF NextUrl, Url
    <3>2. CASE cur \in NoHost
      <4>1. 1 .. cur' - 1 \subseteq tried' /\ cur' \in 1 .. NumUrls + 1
          BY <1>2, <2>1, <2>3, <3>1, <3>2 DEF NextUrl, Url
      <4> QED
          BY <1>2, <2>3, <3>1, <3>2, <4>1 DEF NextUrl
    <3>3. CASE cur \notin NoHost
        BY <1>2, <2>3, <3>1, <3>3 DEF NextUrl
    <3> QED
        BY <3>2, <3>3
  <2> QED
      BY <2>2, <2>3
<1>3. CASE CannotResolve
    BY <1>3, ReturnStep DEF CannotResolve
<1>4. CASE Throws
    BY <1>4 DEF Throws
<1>5. CASE SendConnect
  <2>1. (tx + 1) % NumTx \in Tx
      BY TrackerAssumption DEF Tx
  <2>2. /\ tx' \in Tx /\ requests' \subseteq Datagram /\ net' \subseteq Datagram
        /\ response' = <<>>
      BY <1>5, <2>1 DEF SendConnect, Datagram
  <2>3. \A d \in net' : d.tx # tx'
      BY <1>5 DEF SendConnect
  <2>4. response' \in Seq(Datagram) /\ DOMAIN response' = {}
      BY <2>2
  <2>5. NoneUnanswered'
      BY <1>5, <2>3, <2>4 DEF SendConnect, Ours
  <2>6. Typed'
      BY <1>5, <2>2, <2>4 DEF SendConnect
  <2> QED
      BY <1>5, <2>5, <2>6 DEF SendConnect
<1>6. CASE PollNothing
    BY <1>6 DEF PollNothing, Ours
<1>7. CASE SendAnnounce
    BY <1>7 DEF SendAnnounce, Ours, Datagram
<1>8. CASE ConnectFails
    BY <1>8, ReturnStep DEF ConnectFails
<1>9. CASE AnnounceSucceeds
  <2>1. response # <<>> /\ Ours(response[1]) /\ 1 \in DOMAIN response
      BY <1>9 DEF AnnounceSucceeds, Announced, Ours
  <2>2. answered
      BY <1>9, <2>1 DEF AnnounceSucceeds
  <2>3. /\ phase \notin {"idle", "next"} /\ Succeeds
        /\ UNCHANGED <<finished, tx, response, requests, net, tried, answered>>
      BY <1>9 DEF AnnounceSucceeds
  <2>4. ~(Fails /\ event = "Started")
      BY <1>9 DEF AnnounceSucceeds, Succeeds, Fails
  <2> QED
      BY <2>2, <2>3, <2>4, ReturnStep
<1>10. CASE AnnounceFails
    BY <1>10, ReturnStep DEF AnnounceFails
<1>11. ASSUME NEW d \in net, PollConnect(d)
       PROVE  IInv'
    BY <1>11 DEF PollConnect, Take, Ours
<1>12. ASSUME NEW d \in net, PollAnnounce(d)
       PROVE  IInv'
  <2>1. response' = Append(response, d) /\ d \in Datagram
      BY <1>12 DEF PollAnnounce
  <2>2. response' \in Seq(Datagram)
      BY <2>1
  <2>3. \A i \in DOMAIN response' : response'[i] = d \/ (i \in DOMAIN response /\ response'[i] = response[i])
      BY <2>1
  <2> QED
      BY <1>12, <2>2, <2>3 DEF PollAnnounce, Take, Ours
<1>13. CASE SendGet
    BY <1>13 DEF SendGet, Ours
<1>14. ASSUME NEW compact \in BOOLEAN, GetSucceeds(compact)
       PROVE  IInv'
  <2>1. /\ phase = "read" /\ Succeeds /\ cur \in Http
        /\ UNCHANGED <<finished, tx, response, requests, net, tried, answered>>
      BY <1>14 DEF GetSucceeds
  <2>2. ~(Fails /\ event = "Started")
      BY <2>1 DEF Succeeds, Fails
  <2> QED
      BY <2>1, <2>2, ReturnStep
<1>15. CASE GetFails
    BY <1>15, ReturnStep DEF GetFails
<1>a. CASE GetAborts
    BY <1>a DEF GetAborts
<1>16. ASSUME NEW t \in Url, CheckTrackers(t) \/ Finish(t) \/ TimePasses(t)
       PROVE  IInv'
    BY <1>16 DEF CheckTrackers, Finish, TimePasses, Url, Ours
<1>17. ASSUME NEW r \in requests, NEW a \in {"connect", "announce", "error"}, Answer(r, a)
       PROVE  IInv'
  <2>1. [action |-> a, tx |-> r.tx] \in Datagram
      BY <1>17 DEF Datagram
  <2>2. net' \subseteq Datagram /\ (answered => answered')
      BY <1>17, <2>1 DEF Answer
  <2>3. ASSUME NEW d \in net', Ours(d)'
        PROVE  (d \in net /\ Ours(d)) \/ answered'
    <3>1. tx' = tx /\ (d \in net \/ d = [action |-> a, tx |-> r.tx])
        BY <1>17 DEF Answer
    <3>2. CASE d \in net
        BY <2>3, <3>1, <3>2 DEF Ours
    <3>3. CASE d = [action |-> a, tx |-> r.tx]
        BY <1>17, <2>3, <3>1, <3>3 DEF Answer, Ours
    <3> QED
        BY <3>1, <3>2, <3>3
  <2> QED
      BY <1>17, <2>2, <2>3 DEF Answer, Ours
<1>18. CASE LastPiece \/ PeersComeAndGo
    BY <1>18 DEF LastPiece, PeersComeAndGo, Ours
<1>19. CASE UNCHANGED trVars
    BY <1>19 DEF Ours
<1> QED
    BY <1>1, <1>2, <1>3, <1>4, <1>5, <1>6, <1>7, <1>8, <1>9, <1>10, <1>11, <1>12, <1>13,
       <1>14, <1>15, <1>a, <1>16, <1>17, <1>18, <1>19
    DEF TrackerNext, QueryStep, UdpStep

THEOREM Inductive == TrackerSpec => []IInv
<1>1. TrackerInit => IInv
    BY InvInit
<1>2. IInv /\ [TrackerNext]_trVars => IInv'
    BY InvStep
<1> QED
    BY <1>1, <1>2, PTL DEF TrackerSpec

------------------------------------------------------------------------------
\* Peers are dialled after a query over UDP only if a tracker has answered the
\* announce request of that query (the checks of action and transaction id in
\* udpRequest).
THEOREM OnlyAnswersAreDialled == TrackerSpec => []AnswersAreOurs
<1>1. IInv => AnswersAreOurs
    BY DEF IInv
<1> QED
    BY <1>1, Inductive, PTL

\* prepare gives up only when every usable tracker has been queried, and at most
\* one tracker is active, one it has queried (queryTrackers).
THEOREM EveryTrackerIsTried == TrackerSpec => []TrackersAreTried
<1>1. ASSUME IInv PROVE TrackersAreTried
  <2>1. Cardinality(active) <= 1
    <3>1. active = {} \/ active = {cur}
        BY <1>1 DEF IInv, OneActive
    <3> QED
        BY <3>1, FS_EmptySet, FS_Singleton
  <2> QED
      BY <1>1, <2>1 DEF IInv, OneActive, GaveUpAfterAll, TrackersAreTried, Usable
<1> QED
    BY <1>1, Inductive, PTL
==============================================================================
