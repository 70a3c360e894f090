------------------------------- MODULE PeerTable -------------------------------
(***************************************************************************)
(* The table of a torrent's peers, m_peers and m_blacklisted               *)
(* (ctorrent/torrent.cpp), and what fills and empties it: connecting and   *)
(* accepting (Peer::connect, Peer::verify, ctorrent/peer.cpp;              *)
(* net/connection.cpp, net/server.cpp), the handshake, and errors.         *)
(*                                                                         *)
(* All of this runs on the main thread, one completion handler at a time,  *)
(* so every handler is one step.  The table is keyed by Peer::ip(), which  *)
(* asks the socket: it is 0 (NoAddr) unless the socket is open and its     *)
(* remote end is still there.                                              *)
(***************************************************************************)
EXTENDS FiniteSets

CONSTANTS
    Addr,       \* the addresses peers have
    NoAddr,     \* the address 0
    Conn,       \* bound: the Peer objects, each with its Connection, alive at once
    NoConn

ASSUME PeerTableAssumption == NoAddr \notin Addr /\ NoConn \notin Conn

Key == Addr \cup {NoAddr}

VARIABLES
    listening,  \* m_listener: whether peers may also connect to us
    stage,      \* how far each connection is
    outgoing,   \* the connections we have made
    addr,       \* the address at the other end of each connection
    gone,       \* the connections the other end has reset
    overdue,    \* the connections whose connect timer has expired
    peers,      \* m_peers, NoConn where a key has no entry
    blacklisted \* m_blacklisted

linkVars  == <<outgoing, addr>>
tableVars == <<peers, blacklisted>>
ptVars    == <<listening, stage, linkVars, gone, overdue, tableVars>>

TableTypeOK ==
    /\ listening \in BOOLEAN
    /\ stage \in [Conn -> {"closed", "resolving", "connecting", "greeting", "active"}]
    /\ outgoing \subseteq Conn
    /\ addr \in [Conn -> Key]
    /\ gone \subseteq Conn
    /\ overdue \subseteq Conn
    /\ peers \in [Key -> Conn \cup {NoConn}]
    /\ blacklisted \subseteq Key

TableInit ==
    /\ listening \in BOOLEAN
    /\ stage = [c \in Conn |-> "closed"]
    /\ outgoing = {}
    /\ addr = [c \in Conn |-> NoAddr]
    /\ gone = {}
    /\ overdue = {}
    /\ peers = [k \in Key |-> NoConn]
    /\ blacklisted = {}

------------------------------------------------------------------------------
\* Connection::getIP.
IP(c) ==
    IF stage[c] \in {"greeting", "active"} /\ c \notin gone THEN addr[c] ELSE NoAddr

Listed(k) == peers[k] # NoConn

\* A Peer object nobody refers to any more is free to be a new one.
Fresh(c) == stage[c] = "closed" /\ \A k \in Key : peers[k] # c

Open(c, a, how) ==
    /\ Fresh(c)
    /\ stage' = [stage EXCEPT ![c] = how]
    /\ addr' = [addr EXCEPT ![c] = a]
    /\ gone' = gone \ {c}
    /\ overdue' = overdue \ {c}

\* Mutant: addresses being connected to are not left out.
RawConnectPeer_Again(a, c) ==
    /\ ~Listed(a)
    /\ Open(c, a, "resolving")
    /\ outgoing' = outgoing \cup {c}
    /\ blacklisted' = blacklisted \cup {a}
    /\ UNCHANGED <<listening, peers>>

\* Mutant: the peer is blacklisted, not its address.
RawConnectPeer_WrongKey(a, c) ==
    /\ a \notin blacklisted
    /\ ~Listed(a)
    /\ Open(c, a, "resolving")
    /\ outgoing' = outgoing \cup {c}
    /\ blacklisted' = blacklisted \cup {c}
    /\ UNCHANGED <<listening, peers>>

\* A tracker's answer names address a: rawConnectPeers begins to connect.
RawConnectPeer(a, c) ==
    /\ a \notin blacklisted
    /\ ~Listed(a)
    /\ Open(c, a, "resolving")
    /\ outgoing' = outgoing \cup {c}
    /\ blacklisted' = blacklisted \cup {a}
    /\ UNCHANGED <<listening, peers>>

\* The acceptor has a connection from address a: Peer::verify waits for its
\* handshake.
Accept(a, c) ==
    /\ listening
    /\ Open(c, a, "greeting")
    /\ outgoing' = outgoing \ {c}
    /\ UNCHANGED <<listening, tableVars>>

\* handleResolve: async_connect, and the timer is started.
Resolved(c) ==
    /\ stage[c] = "resolving"
    /\ stage' = [stage EXCEPT ![c] = "connecting"]
    /\ UNCHANGED <<listening, linkVars, gone, overdue, tableVars>>

\* The timer's 30 seconds are over: its handler is queued, and cancel() does
\* not take it back any more.
TimerExpires(c) ==
    /\ stage[c] = "connecting"
    /\ overdue' = overdue \cup {c}
    /\ UNCHANGED <<listening, stage, linkVars, gone, tableVars>>

\* handleConnect: our handshake is written, theirs is waited for.
Connected(c) ==
    /\ stage[c] = "connecting"
    /\ stage' = [stage EXCEPT ![c] = "greeting"]
    /\ UNCHANGED <<listening, linkVars, gone, overdue, tableVars>>

\* The other end resets the connection.  What was received is still handled.
Reset(c) ==
    /\ stage[c] \in {"greeting", "active"}
    /\ gone' = gone \cup {c}
    /\ UNCHANGED <<listening, stage, linkVars, overdue, tableVars>>

\* m_peers.insert keeps the entry that is there.
Insert(c) == peers' = IF Listed(IP(c)) THEN peers ELSE [peers EXCEPT ![IP(c)] = c]

\* Mutant: the peer is taken off the blacklist but not entered.
AddPeer_Unlisted(c) ==
    /\ stage[c] = "greeting" /\ c \in outgoing
    /\ blacklisted' = blacklisted \ {IP(c)}
    /\ stage' = [stage EXCEPT ![c] = "active"]
    /\ UNCHANGED <<listening, linkVars, gone, overdue, peers>>

\* The right handshake on a connection we made: addPeer.  The blacklist has the
\* address removed that the socket gives now.
AddPeer(c) ==
    /\ stage[c] = "greeting" /\ c \in outgoing
    /\ blacklisted' = blacklisted \ {IP(c)}
    /\ Insert(c)
    /\ stage' = [stage EXCEPT ![c] = "active"]
    /\ UNCHANGED <<listening, linkVars, gone, overdue>>

\* The right handshake on a connection to us: handleNewPeer.
HandleNewPeer(c) ==
    /\ stage[c] = "greeting" /\ c \notin outgoing
    /\ Insert(c)
    /\ stage' = [stage EXCEPT ![c] = "active"]
    /\ UNCHANGED <<listening, linkVars, gone, overdue, blacklisted>>

(***************************************************************************)
(* Peer::handleError: removePeer takes out whatever is listed under ip(),  *)
(* and the connection is closed.  From then on it reports no error.        *)
(***************************************************************************)
HandleError(c) ==
    /\ peers' = [peers EXCEPT ![IP(c)] = NoConn]
    /\ stage' = [stage EXCEPT ![c] = "closed"]
    /\ UNCHANGED <<listening, linkVars, gone, overdue, blacklisted>>

\* Resolving, connecting, reading or writing fails, or the other end sends
\* something wrong, a handshake included.
LinkFails(c) == stage[c] # "closed" /\ HandleError(c)

\* Mutant: the handler takes a queued expiry for a cancelled one.
Timeout_Ignored(c) ==
    /\ c \in overdue /\ stage[c] \notin {"closed", "connecting"}
    /\ HandleError(c)

\* handleTimeout, also when the connection has just been made.
Timeout(c) == c \in overdue /\ stage[c] # "closed" /\ HandleError(c)

------------------------------------------------------------------------------
TableNext ==
    \E c \in Conn :
        \/ \E a \in Addr : RawConnectPeer(a, c) \/ Accept(a, c)
        \/ Resolved(c) \/ TimerExpires(c) \/ Connected(c) \/ Reset(c)
        \/ AddPeer(c) \/ HandleNewPeer(c)
        \/ LinkFails(c) \/ Timeout(c)

TableSpec == TableInit /\ [][TableNext]_ptVars

\* Names are resolved or not, timers expire, and their handlers run.
TableFairSpec ==
    /\ TableSpec
    /\ \A c \in Conn :
           /\ WF_ptVars(stage[c] = "resolving" /\ (Resolved(c) \/ LinkFails(c)))
           /\ WF_ptVars(TimerExpires(c))
           /\ WF_ptVars(Timeout(c))
------------------------------------------------------------------------------
(* Properties *)

Pending(c) == c \in outgoing /\ stage[c] \in {"resolving", "connecting", "greeting"}

\* No second connection is begun to an address while one is being made, however
\* often trackers name it and whoever connects from there meanwhile.
OneAttempt ==
    \A c, d \in Conn : Pending(c) /\ Pending(d) /\ addr[c] = addr[d] => c = d

\* Without a listener there is one connection to an address, made or being
\* made, although entries are found by an address that may have become 0.
OneLink ==
    ~listening =>
        \A c, d \in Conn :
            stage[c] # "closed" /\ stage[d] # "closed" /\ addr[c] = addr[d] => c = d

\* Without a listener an active peer is the one that is found under its
\* address, so the blocks it asked for are sent to it.  (With one, a second
\* connection from an address is not listed, and takes the entry of the first
\* with it when it fails.)
ActiveIsFound ==
    ~listening =>
        \A c \in Conn : stage[c] = "active" /\ c \notin gone => peers[addr[c]] = c

\* An attempt to connect ends, one way or the other, also when nobody answers.
AttemptEnds ==
    \A c \in Conn :
        stage[c] \in {"resolving", "connecting"} ~> stage[c] \in {"greeting", "closed"}
==============================================================================
