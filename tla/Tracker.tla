-------------------------------- MODULE Tracker --------------------------------
(***************************************************************************)
(* One torrent and its trackers: Tracker (ctorrent/tracker.cpp) and the    *)
(* calls of Torrent that use it, queryTrackers, checkTrackers, finish and  *)
(* connectToPeers (ctorrent/torrent.cpp).                                  *)
(*                                                                         *)
(* A query blocks the main thread, also the one checkTrackers starts: the  *)
(* future of its std::async is discarded and joins at once.  So a query is *)
(* a sequence of steps nothing of the client comes between, except that    *)
(* the worker thread may complete the torrent.  What it meets is the       *)
(* network.  UDP datagrams are lost (never taken), late, reordered and     *)
(* duplicated; a socket lives for one query, but its port may be used      *)
(* again, so a datagram for an earlier query may still come.  A datagram   *)
(* fills at least the 16 bytes the first answer is read into.              *)
(***************************************************************************)
EXTENDS Integers, Sequences, FiniteSets

CONSTANTS
    NumUrls,        \* the main tracker and then the announce-list
    Http,           \* the URLs whose protocol is "http"; all others use UDP
    NoHost,         \* the URLs parseUrl finds no host in
    ConnectTries,   \* polls for the first answer: 10
    AnnounceTries,  \* polls for the second answer: 15
    NumTx           \* bound: transaction ids that are told apart

ASSUME TrackerAssumption ==
    /\ {NumUrls, ConnectTries, AnnounceTries} \subseteq Nat \ {0}
    /\ NumTx \in Nat \ {0, 1}

Url == 1 .. NumUrls
Tx == 0 .. NumTx - 1

\* A plain string in announce-list is read through a pointer to its boost::any,
\* which holds no string: it counts as one without a host, too.
Usable == Url \ NoHost

\* `connect' and `announce' are actions 0 and 1; an error is action 3.
Datagram == [action : {"connect", "announce", "error"}, tx : Tx]

\* The buffer of the first answer still holds our request.
OwnRequest == [action |-> "request", tx |-> 0]

VARIABLES
    stage,      \* the torrent: new, running, failed, over, or aborted with the program
    phase,      \* where the main thread is in a query
    event,      \* the event the query reports
    cur,        \* the tracker asked
    active,     \* m_activeTrackers
    due,        \* the active trackers for which timeUp() holds
    finished,   \* isFinished()
    enough,     \* activePeers() has reached max_peers
    tx,         \* the transaction id of the query
    tries,      \* polls made
    buf,        \* buf: the first answer
    response,   \* the datagrams appended in response
    requests,   \* external: requests that have reached a tracker
    net,        \* external: datagrams on their way to us
    dialled,    \* what connectToPeers took from the answer of this query
    tried,      \* history: URLs queried by prepare
    answered    \* history: a tracker has answered this query's announce

exchVars  == <<tx, tries, buf, response>>
netVars   == <<requests, net>>
histVars  == <<tried, answered>>
torVars   == <<stage, active, finished, enough>>
trVars    == <<torVars, phase, event, cur, due, exchVars, netVars, dialled, histVars>>

TrackerTypeOK ==
    /\ stage \in {"new", "running", "failed", "over", "aborted"}
    /\ phase \in {"idle", "next", "resolve", "connect", "announce", "read"}
    /\ event \in {"None", "Started", "Completed"}
    /\ cur \in 0 .. NumUrls + 1
    /\ active \subseteq Usable /\ due \subseteq Usable
    /\ finished \in BOOLEAN /\ enough \in BOOLEAN
    /\ tx \in Tx
    /\ tries \in 0 .. ConnectTries + AnnounceTries
    /\ buf \in Datagram \cup {OwnRequest}
    /\ response \in Seq(Datagram)
    /\ requests \subseteq Datagram /\ net \subseteq Datagram
    /\ dialled \subseteq Datagram
    /\ tried \subseteq Url
    /\ answered \in BOOLEAN

TrackerInit ==
    /\ stage = "new" /\ phase = "idle" /\ event = "None" /\ cur = 0
    /\ active = {} /\ due = {}
    /\ finished = FALSE /\ enough = FALSE
    /\ tx = 0 /\ tries = 0 /\ buf = OwnRequest /\ response = <<>>
    /\ requests = {} /\ net = {}
    /\ dialled = {} /\ tried = {} /\ answered = FALSE

------------------------------------------------------------------------------
(* Who is queried, and when *)

\* prepare: makeTrackerQuery(Started) to the first tracker that answers.
Prepare ==
    /\ stage = "new" /\ phase = "idle"
    /\ phase' = "next" /\ event' = "Started" /\ cur' = 1
    /\ UNCHANGED <<torVars, due, exchVars, netVars, dialled, histVars>>

\* Mutant: the announce-list is left at the first tracker that fails.
NextUrl_MainOnly ==
    /\ phase = "next"
    /\ IF cur > 1
       THEN stage' = "failed" /\ phase' = "idle" /\ UNCHANGED <<cur, tried>>
       ELSE /\ tried' = tried \cup {cur}
            /\ IF cur \in NoHost
               THEN cur' = cur + 1 /\ UNCHANGED phase
               ELSE phase' = "resolve" /\ UNCHANGED cur
            /\ UNCHANGED stage
    /\ UNCHANGED <<event, active, finished, enough, due, exchVars, netVars, dialled,
                   answered>>

\* queryTracker parses the URL and queries, or the list is at its end.
NextUrl ==
    /\ phase = "next"
    /\ IF cur > NumUrls
       THEN stage' = "failed" /\ phase' = "idle" /\ UNCHANGED <<cur, tried>>
       ELSE /\ tried' = tried \cup {cur}
            /\ IF cur \in NoHost
               THEN cur' = cur + 1 /\ UNCHANGED phase
               ELSE phase' = "resolve" /\ UNCHANGED cur
            /\ UNCHANGED stage
    /\ UNCHANGED <<event, active, finished, enough, due, exchVars, netVars, dialled,
                   answered>>

\* checkTrackers, called for a torrent that is not finished and has few peers.
CheckTrackers(t) ==
    /\ stage = "running" /\ phase = "idle"
    /\ ~finished /\ ~enough
    /\ t \in active \cap due
    /\ phase' = "resolve" /\ event' = "None" /\ cur' = t
    /\ UNCHANGED <<torVars, due, exchVars, netVars, dialled, histVars>>

\* finish queries each active tracker once and deletes it.
Finish(t) ==
    /\ stage = "running" /\ phase = "idle"
    /\ finished
    /\ t \in active
    /\ phase' = "resolve" /\ event' = "Completed" /\ cur' = t
    /\ UNCHANGED <<torVars, due, exchVars, netVars, dialled, histVars>>

\* What follows in the caller when the query returns true ...
Succeeds ==
    /\ phase' = "idle"
    /\ due' = due \ {cur}
    /\ CASE event = "Started"   -> stage' = "running" /\ active' = active \cup {cur}
         [] event = "None"      -> UNCHANGED <<stage, active>>
         [] event = "Completed" -> stage' = "over" /\ active' = active \ {cur}
    /\ UNCHANGED <<event, cur>>

\* Mutant: a tracker that fails is dropped.
Fails_Dropped ==
    /\ due' = due \ {cur}
    /\ CASE event = "Started"   -> phase' = "next" /\ cur' = cur + 1 /\ UNCHANGED <<stage, active>>
         [] event = "None"      -> /\ phase' = "idle" /\ active' = active \ {cur}
                                   /\ UNCHANGED <<stage, cur>>
         [] event = "Completed" -> /\ phase' = "idle" /\ stage' = "over"
                                   /\ active' = active \ {cur} /\ UNCHANGED cur
    /\ UNCHANGED event

\* ... and when it returns false: in 100 ms its time is up again.
Fails ==
    /\ due' = due \ {cur}
    /\ CASE event = "Started"   -> phase' = "next" /\ cur' = cur + 1 /\ UNCHANGED <<stage, active>>
         [] event = "None"      -> phase' = "idle" /\ UNCHANGED <<stage, active, cur>>
         [] event = "Completed" -> /\ phase' = "idle" /\ stage' = "over"
                                   /\ active' = active \ {cur} /\ UNCHANGED cur
    /\ UNCHANGED event

Connected == buf.action = "connect" /\ buf.tx = tx

\* A send that throws ends main, unless checkTrackers' future swallows it; the
\* tracker's time is then still up.
Throws ==
    /\ phase = "resolve" \/ (phase = "connect" /\ Connected)
    /\ phase' = "idle"
    /\ stage' = IF event = "None" THEN stage ELSE "aborted"
    /\ UNCHANGED <<active, finished, enough, event, cur, due, exchVars, netVars, dialled,
                   histVars>>

CannotResolve ==
    /\ phase = "resolve"
    /\ Fails
    /\ UNCHANGED <<finished, enough, exchVars, netVars, dialled, histVars>>

------------------------------------------------------------------------------
(* udpRequest *)

\* A new id; what is left of its last use is gone by the time it comes again.
SendConnect ==
    LET next == (tx + 1) % NumTx IN
    /\ phase = "resolve" /\ cur \notin Http
    /\ phase' = "connect"
    /\ tx' = next
    /\ tries' = 0 /\ buf' = OwnRequest /\ response' = <<>>
    /\ requests' = {r \in requests : r.tx # next} \cup {[action |-> "connect", tx |-> next]}
    /\ net' = {d \in net : d.tx # next}
    /\ dialled' = {} /\ answered' = FALSE
    /\ UNCHANGED <<torVars, event, cur, due, tried>>

\* Mutant: a poll that finds nothing is not counted.
PollNothing_Uncounted ==
    /\ \/ phase = "connect" /\ tries < ConnectTries /\ buf = OwnRequest
       \/ phase = "announce" /\ tries < AnnounceTries
    /\ UNCHANGED trVars

\* receive_from finds nothing; the socket does not block.
PollNothing ==
    /\ \/ phase = "connect" /\ tries < ConnectTries /\ buf = OwnRequest
       \/ phase = "announce" /\ tries < AnnounceTries
    /\ tries' = tries + 1
    /\ UNCHANGED <<torVars, phase, event, cur, due, tx, buf, response, netVars, dialled,
                   histVars>>

\* ... or a datagram, of which the network may keep a copy.
Take(d) ==
    /\ d \in net
    /\ net' \in {net, net \ {d}}
    /\ tries' = tries + 1
    /\ UNCHANGED <<torVars, phase, event, cur, due, tx, requests, dialled, histVars>>

PollConnect(d) ==
    /\ phase = "connect" /\ tries < ConnectTries /\ buf = OwnRequest
    /\ Take(d)
    /\ buf' = d
    /\ UNCHANGED response

\* The second loop makes all its polls and appends whatever comes.
PollAnnounce(d) ==
    /\ phase = "announce" /\ tries < AnnounceTries
    /\ Take(d)
    /\ response' = Append(response, d)
    /\ UNCHANGED buf

\* The connection id of the answer goes into the announce request.
SendAnnounce ==
    /\ phase = "connect"
    /\ Connected
    /\ phase' = "announce" /\ tries' = 0
    /\ requests' = requests \cup {[action |-> "announce", tx |-> tx]}
    /\ UNCHANGED <<torVars, event, cur, due, tx, buf, response, net, dialled, histVars>>

\* "action mismatch", or "transaction id mismatch"
ConnectFails ==
    /\ phase = "connect"
    /\ tries = ConnectTries \/ buf # OwnRequest
    /\ ~Connected
    /\ Fails
    /\ UNCHANGED <<finished, enough, exchVars, netVars, dialled, histVars>>

\* Mutant: the transaction id of the second answer is not compared.
Announced_AnyTx ==
    /\ response # <<>>
    /\ Head(response).action = "announce"

\* The length, action and transaction id are those of the first datagram.
Announced ==
    /\ response # <<>>
    /\ Head(response).action = "announce" /\ Head(response).tx = tx

\* rawConnectPeers gets all that follows the first header, also the datagrams
\* appended to it.
AnnounceSucceeds ==
    /\ phase = "announce" /\ tries = AnnounceTries
    /\ Announced
    /\ dialled' = {response[i] : i \in DOMAIN response}
    /\ Succeeds
    /\ UNCHANGED <<finished, enough, exchVars, netVars, histVars>>

AnnounceFails ==
    /\ phase = "announce" /\ tries = AnnounceTries
    /\ ~Announced
    /\ Fails
    /\ UNCHANGED <<finished, enough, exchVars, netVars, dialled, histVars>>

------------------------------------------------------------------------------
(* httpRequest *)

\* Connected to an endpoint, and the request is written.
SendGet ==
    /\ phase = "resolve" /\ cur \in Http
    /\ phase' = "read"
    /\ dialled' = {} /\ answered' = FALSE
    /\ UNCHANGED <<torVars, event, cur, due, exchVars, netVars, tried>>

(***************************************************************************)
(* read_until returns with an answer connectToPeers can use: compact peers *)
(* are dialled.  Of a list or dictionary none is: the port was decoded as  *)
(* uint64_t and any_cast<int64_t> throws.  A finished torrent dials none.  *)
(***************************************************************************)
GetSucceeds(compact) ==
    /\ phase = "read"
    /\ dialled' = IF finished \/ ~compact THEN {} ELSE {[action |-> "announce", tx |-> tx]}
    /\ Succeeds
    /\ UNCHANGED <<finished, enough, exchVars, netVars, histVars>>

\* The connection ends early, the status is not 200, what is decoded is empty or
\* holds a "failure reason".
GetFails ==
    /\ phase = "read"
    /\ Fails
    /\ UNCHANGED <<finished, enough, exchVars, netVars, dialled, histVars>>

\* The body ends inside a number: readIntUntil reads the byte past the end, and
\* the assert of the buffer ends the program, in checkTrackers' future too.
GetAborts ==
    /\ phase = "read"
    /\ phase' = "idle" /\ stage' = "aborted"
    /\ UNCHANGED <<active, finished, enough, event, cur, due, exchVars, netVars, dialled,
                   histVars>>

------------------------------------------------------------------------------
(* Around the query *)

\* External: a tracker answers a request, or refuses it, any number of times.
Answer(r, action) ==
    /\ r \in requests
    /\ action \in {r.action, "error"}
    /\ net' = net \cup {[action |-> action, tx |-> r.tx]}
    /\ answered' = (answered \/ (r.tx = tx /\ action = "announce"))
    /\ UNCHANGED <<torVars, phase, event, cur, due, exchVars, requests, dialled, tried>>

\* The interval the tracker gave has passed, or the 100 ms after a failure.
TimePasses(t) ==
    /\ t \in active \ due
    /\ due' = due \cup {t}
    /\ UNCHANGED <<torVars, phase, event, cur, exchVars, netVars, dialled, histVars>>

\* The worker thread writes the last piece.
LastPiece ==
    /\ stage = "running" /\ ~finished
    /\ finished' = TRUE
    /\ UNCHANGED <<stage, active, enough, phase, event, cur, due, exchVars, netVars, dialled,
                   histVars>>

PeersComeAndGo ==
    /\ stage = "running" /\ phase = "idle"
    /\ enough' = ~enough
    /\ UNCHANGED <<stage, active, finished, phase, event, cur, due, exchVars, netVars,
                   dialled, histVars>>

UdpStep ==
    \/ SendConnect \/ PollNothing \/ SendAnnounce \/ ConnectFails
    \/ AnnounceSucceeds \/ AnnounceFails
    \/ \E d \in net : PollConnect(d) \/ PollAnnounce(d)

QueryStep == CannotResolve \/ Throws \/ UdpStep \/ SendGet

TrackerNext ==
    \/ Prepare \/ NextUrl \/ QueryStep
    \/ GetFails \/ GetAborts \/ \E compact \in BOOLEAN : GetSucceeds(compact)
    \/ \E t \in Url : CheckTrackers(t) \/ Finish(t) \/ TimePasses(t)
    \/ \E r \in requests, a \in {"connect", "announce", "error"} : Answer(r, a)
    \/ LastPiece \/ PeersComeAndGo

TrackerSpec == TrackerInit /\ [][TrackerNext]_trVars

\* The main thread goes on with what it does, but nothing makes a web server
\* answer; time passes.
TrackerFairness ==
    /\ WF_trVars(QueryStep) /\ WF_trVars(NextUrl)
    /\ \A t \in Url : WF_trVars(CheckTrackers(t)) /\ WF_trVars(TimePasses(t))

TrackerFairSpec == TrackerSpec /\ TrackerFairness

------------------------------------------------------------------------------
(* Properties *)

\* Peers are dialled after a query over UDP only if a tracker has answered the
\* announce request of this very query, whatever answers to earlier queries
\* come late, again or out of order (the checks of action and transaction id in
\* udpRequest).
AnswersAreOurs ==
    cur \notin Http /\ dialled # {} => answered

\* prepare gives up only when every usable tracker has been queried, and the
\* one tracker that stays active is one it has queried (queryTrackers).
TrackersAreTried ==
    /\ stage = "failed" => Usable \subseteq tried
    /\ Cardinality(active) <= 1 /\ active \subseteq tried

\* An active tracker over UDP is asked again and again, whatever its answers
\* are, until the torrent has finished or has enough peers (query,
\* checkTrackers).
KeepsAsking ==
    \A t \in Url \ Http :
        t \in active ~> \/ phase = "resolve" /\ cur = t
                        \/ stage # "running" \/ finished \/ enough

\* A query over UDP ends, with every datagram lost too.
UdpQueryEnds ==
    phase \in {"connect", "announce"} ~> phase \notin {"connect", "announce"}
==============================================================================
