--------------------------------- MODULE Client ---------------------------------
(***************************************************************************)
(* The program around the torrents: main (main.cpp), which opens, prepares *)
(* and drives every torrent of the command line, and the calls of Torrent  *)
(* it makes, prepare, finish, queryTrackers and hasTrackers                *)
(* (ctorrent/torrent.cpp).                                                 *)
(*                                                                         *)
(* What happens to a torrent between two visits of the main loop           *)
(* (nextConnection, Connection::poll, the worker thread) is seen here as   *)
(* one bit that changes at any moment: isFinished.  A query to a tracker   *)
(* keeps main waiting, and nothing makes one end (module Tracker).         *)
(***************************************************************************)
EXTENDS Integers, Sequences

CONSTANTS
    NumTorrents,    \* the torrent files on the command line
    IntBits         \* the shift counts `1 << i' tells apart: 32

ASSUME ClientAssumption == NumTorrents \in Nat \ {0} /\ IntBits \in Nat \ {0}

Torrent == 0 .. NumTorrents - 1

(***************************************************************************)
(* 1 << i, as the position of the one bit.  For an i past the width of int *)
(* it is undefined; the shift instruction of x86 takes i modulo the width. *)
(***************************************************************************)
Bit(t) == t % IntBits

TotalBits == {Bit(t) : t \in Torrent}

VARIABLES
    noseed,     \* --noseed
    nodownload, \* --nodownload
    phase,      \* where main is
    cur,        \* i, the torrent main has come to
    completed,  \* completed, a set of bits
    errors,     \* errors, a set of bits
    eseed,      \* eseed, a set of bits
    started,    \* started
    finished,   \* the torrents for which isFinished() holds
    trackers,   \* the torrents with an active tracker (hasTrackers)
    events      \* the events each torrent has sent to its tracker

options  == <<noseed, nodownload>>
verdicts == <<completed, errors, eseed>>
clVars   == <<options, phase, cur, verdicts, started, finished, trackers, events>>

TrackerEvent == {"Started", "Completed", "Stopped"}

ClientTypeOK ==
    /\ noseed \in BOOLEAN /\ nodownload \in BOOLEAN
    /\ phase \in {"open", "prepare", "opened", "while", "each", "telling", "asking",
                  "poll", "seed", "seeding", "report", "aborted"}
    /\ cur \in Torrent
    /\ completed \subseteq TotalBits
    /\ errors \subseteq TotalBits
    /\ eseed \subseteq TotalBits
    /\ started \in Nat
    /\ finished \subseteq Torrent
    /\ trackers \subseteq Torrent
    /\ events \in [Torrent -> Seq(TrackerEvent)]

ClientInit ==
    /\ noseed \in BOOLEAN /\ nodownload \in BOOLEAN
    /\ phase = "open"
    /\ cur = 0
    /\ completed = {} /\ errors = {} /\ eseed = {}
    /\ started = 0
    /\ finished = {}
    /\ trackers = {}
    /\ events = [t \in Torrent |-> <<>>]

\* Mutant: i <= total.
NextTorrent_OnePast(again, after) ==
    IF cur < NumTorrents
    THEN cur' = cur + 1 /\ phase' = again
    ELSE cur' = 0 /\ phase' = after

\* for (...; i < total; ++i): the next torrent, in phase again, or what
\* follows the loop.
NextTorrent(again, after) ==
    IF cur < NumTorrents - 1
    THEN cur' = cur + 1 /\ phase' = again
    ELSE cur' = 0 /\ phase' = after

Send(t, event) == events' = [events EXCEPT ![t] = Append(@, event)]

------------------------------------------------------------------------------
(* Opening and preparing *)

OpenFails ==
    /\ phase = "open"
    /\ errors' = errors \cup {Bit(cur)}
    /\ NextTorrent("open", "opened")
    /\ UNCHANGED <<options, completed, eseed, started, finished, trackers, events>>

\* The scan of the files finds all pieces there, or not.
Open ==
    /\ phase = "open"
    /\ phase' = "prepare"
    /\ finished' \in {finished, finished \cup {cur}}
    /\ UNCHANGED <<options, cur, verdicts, started, trackers, events>>

JustInfo ==
    /\ phase = "prepare" /\ nodownload
    /\ completed' = completed \cup {Bit(cur)}
    /\ NextTorrent("open", "opened")
    /\ UNCHANGED <<options, errors, eseed, started, finished, trackers, events>>

\* prepare returns AlreadyDownloaded, which main takes for a failure.
AlreadyDownloaded == noseed /\ cur \in finished

\* A tracker has answered.
Prepared ==
    /\ phase = "prepare" /\ ~nodownload
    /\ ~AlreadyDownloaded
    /\ started' = started + 1
    /\ trackers' = trackers \cup {cur}
    /\ Send(cur, "Started")
    /\ NextTorrent("open", "opened")
    /\ UNCHANGED <<options, verdicts, finished>>

\* Mutant: a torrent no tracker answered for counts as neither.
PrepareFails_Unmarked ==
    /\ phase = "prepare" /\ ~nodownload
    /\ NextTorrent("open", "opened")
    /\ UNCHANGED <<options, verdicts, started, finished, trackers, events>>

\* AlreadyDownloaded, or TrackerQueryFailure: no tracker answered.
PrepareFails ==
    /\ phase = "prepare" /\ ~nodownload
    /\ errors' = errors \cup {Bit(cur)}
    /\ NextTorrent("open", "opened")
    /\ UNCHANGED <<options, completed, eseed, started, finished, trackers, events>>

\* The port is in use, or a tracker breaks the connection while it is written
\* to: the exception leaves main.  Or an answer fails the decoder's assert.
PrepareThrows ==
    /\ phase = "prepare" /\ ~nodownload
    /\ ~AlreadyDownloaded
    /\ phase' = "aborted"
    /\ UNCHANGED <<options, cur, verdicts, started, finished, trackers, events>>

AllOpened ==
    /\ phase = "opened"
    /\ phase' = IF ~nodownload /\ started > 0 THEN "while" ELSE "seed"
    /\ UNCHANGED <<options, cur, verdicts, started, finished, trackers, events>>

------------------------------------------------------------------------------
(* The download loop *)

\* Mutant: the loop ends with the first torrent that completes.
While_AnyCompleted ==
    /\ phase = "while"
    /\ phase' = IF completed = {} /\ TotalBits # errors THEN "each" ELSE "seed"
    /\ UNCHANGED <<options, cur, verdicts, started, finished, trackers, events>>

While ==
    /\ phase = "while"
    /\ phase' = IF TotalBits # completed \cup errors THEN "each" ELSE "seed"
    /\ UNCHANGED <<options, cur, verdicts, started, finished, trackers, events>>

SkipFailed ==
    /\ phase = "each" /\ Bit(cur) \in errors
    /\ NextTorrent("each", "poll")
    /\ UNCHANGED <<options, verdicts, started, finished, trackers, events>>

\* nextConnection changes nothing that is kept here.
Unfinished ==
    /\ phase = "each" /\ Bit(cur) \notin errors
    /\ cur \notin finished
    /\ NextTorrent("each", "poll")
    /\ UNCHANGED <<options, verdicts, started, finished, trackers, events>>

\* checkTrackers asks the tracker again when it is time: the future of
\* std::async, which nobody keeps, waits for the answer.
Ask ==
    /\ phase = "each" /\ Bit(cur) \notin errors
    /\ cur \in trackers \ finished
    /\ phase' = "asking"
    /\ UNCHANGED <<options, cur, verdicts, started, finished, trackers, events>>

\* What the query returns or throws is left in the future.
Asked ==
    /\ phase = "asking"
    /\ NextTorrent("each", "poll")
    /\ UNCHANGED <<options, verdicts, started, finished, trackers, events>>

FinishEvent == IF cur \in finished THEN "Completed" ELSE "Stopped"

Mark == completed' = completed \cup {Bit(cur)} /\ NextTorrent("each", "poll")

\* Mutant: a finished torrent is marked only if it told a tracker so.
Finished_IfTold ==
    /\ phase = "each" /\ Bit(cur) \notin errors
    /\ cur \in finished
    /\ IF cur \in trackers /\ ~noseed
       THEN Send(cur, FinishEvent) /\ phase' = "telling" /\ UNCHANGED <<cur, completed>>
       ELSE NextTorrent("each", "poll") /\ UNCHANGED <<events, completed>>
    /\ UNCHANGED <<options, errors, eseed, started, finished, trackers>>

\* A finished torrent is marked, after finish() has told its tracker.
Finished ==
    /\ phase = "each" /\ Bit(cur) \notin errors
    /\ cur \in finished
    /\ IF cur \in trackers /\ ~noseed
       THEN Send(cur, FinishEvent) /\ phase' = "telling" /\ UNCHANGED <<cur, completed>>
       ELSE Mark /\ UNCHANGED events
    /\ UNCHANGED <<options, errors, eseed, started, finished, trackers>>

\* Mutant: the tracker is told, but not let go.
Told_KeepsTracker ==
    /\ phase = "telling"
    /\ Mark
    /\ UNCHANGED <<options, errors, eseed, started, finished, trackers, events>>

\* finish() lets the tracker go, whatever it has answered.
Told ==
    /\ phase = "telling"
    /\ trackers' = trackers \ {cur}
    /\ Mark
    /\ UNCHANGED <<options, errors, eseed, started, finished, events>>

\* The tracker breaks the connection while finish() writes to it, and the
\* exception leaves main; or the answer, cut short, fails an assert of the
\* decoder.
QueryAborts ==
    /\ phase \in {"telling", "asking"}
    /\ phase' = "aborted"
    /\ UNCHANGED <<options, cur, verdicts, started, finished, trackers, events>>

Poll ==
    /\ phase = "poll"
    /\ phase' = "while"
    /\ UNCHANGED <<options, cur, verdicts, started, finished, trackers, events>>

\* The last piece of a torrent is written, at any point of the loop.
LastPieceWritten(t) ==
    /\ phase \in {"while", "each", "telling", "asking", "poll"}
    /\ t \in trackers \ finished
    /\ finished' = finished \cup {t}
    /\ UNCHANGED <<options, phase, cur, verdicts, started, trackers, events>>

------------------------------------------------------------------------------
\* Seeding starts with giving up on the torrents without trackers.  No other
\* torrent is ever left, so the seeding loop itself is not modelled.
Seed ==
    /\ phase = "seed"
    /\ IF ~noseed /\ completed # {}
       THEN /\ eseed' = {Bit(t) : t \in Torrent \ trackers}
            /\ phase' = IF eseed' = TotalBits THEN "report" ELSE "seeding"
       ELSE UNCHANGED eseed /\ phase' = "report"
    /\ UNCHANGED <<options, cur, completed, errors, started, finished, trackers, events>>

------------------------------------------------------------------------------
MainProgress ==
    \/ OpenFails \/ Open
    \/ JustInfo \/ Prepared \/ PrepareFails \/ PrepareThrows
    \/ AllOpened
    \/ While \/ SkipFailed \/ Unfinished \/ Ask \/ Asked
    \/ Finished \/ Told \/ QueryAborts \/ Poll
    \/ Seed

ClientNext == MainProgress \/ \E t \in Torrent : LastPieceWritten(t)

ClientSpec == ClientInit /\ [][ClientNext]_clVars

\* main waits for a tracker.
InQuery ==
    \/ phase \in {"telling", "asking"}
    \/ phase = "prepare" /\ ~nodownload /\ ~AlreadyDownloaded

\* main runs where it does not wait; nothing is assumed of the trackers or of
\* the downloads.
ClientFairSpec == ClientSpec /\ WF_clVars(~InQuery /\ MainProgress)
------------------------------------------------------------------------------
(* Properties *)

Ended == phase \in {"seed", "seeding", "report"}

\* The download loop is not left before every torrent has finished or failed,
\* although it only compares two words and torrents finish behind its back.
\* (That needs a bit per torrent.)
NothingLeftBehind ==
    (Ended /\ ~nodownload) =>
        \A t \in Torrent : Bit(t) \in errors \/ t \in finished

\* In the end a torrent is either marked completed or marked in error, never
\* both (what the last loop of main prints), and without --nodownload only what
\* has finished is completed.  (That needs a bit per torrent.)  Nothing is promised
\* of what is in error: with --noseed, a torrent that was complete when it was opened
\* is put there, because prepare returns AlreadyDownloaded and main's switch only
\* knows Completed.
EachHasOneVerdict ==
    /\ completed \cap errors = {}
    /\ Ended => completed \cup errors = TotalBits
    /\ ~nodownload => \A t \in Torrent : Bit(t) \in completed => t \in finished

\* A tracker hears Started, then at most once Completed, and then only of a
\* torrent that has finished, although finish() is called in every round.
CompletedOnce ==
    \A t \in Torrent :
        \/ events[t] \in {<<>>, <<"Started">>}
        \/ events[t] = <<"Started", "Completed">> /\ t \in finished

\* Once every torrent has finished or failed the download loop is left, unless
\* main waits for a tracker for ever (finish and checkTrackers query it, over
\* HTTP without a timeout) or the query ends the program.
LoopIsLeft ==
    []<>~InQuery =>
        (phase = "while" /\ \A t \in Torrent : Bit(t) \in errors \/ t \in finished)
            ~> (Ended \/ phase = "aborted")
==============================================================================
