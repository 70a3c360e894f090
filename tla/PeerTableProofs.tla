---------------------------- MODULE PeerTableProofs ----------------------------
(***************************************************************************)
(* Proofs about module PeerTable, for any addresses and any number of      *)
(* connections.                                                            *)
(***************************************************************************)
EXTENDS PeerTable, TLAPS

\* An address somebody is being connected to is blacklisted.  It needs
\* OneAttempt to be inductive: addPeer takes an address out of the blacklist.
PendingIsBlacklisted ==
    \A c \in Conn : Pending(c) => addr[c] \in blacklisted \cap Addr

IInv == TableTypeOK /\ PendingIsBlacklisted /\ OneAttempt

(***************************************************************************)
(* Without a listener the table can be relied on: every connection is one  *)
(* we made, an address being connected to has no entry, and an active peer *)
(* is listed under its address, unless it was gone when it was entered;    *)
(* its address is then still blacklisted.                                  *)
(***************************************************************************)
Used(c) == stage[c] # "closed"

AllAreOurs == \A c \in Conn : Used(c) => c \in outgoing /\ addr[c] \in Addr
PendingIsUnlisted == \A c \in Conn : Pending(c) => ~Listed(addr[c])
ActiveIsListed ==
    \A c \in Conn : stage[c] = "active" =>
        \/ peers[addr[c]] = c
        \/ c \in gone /\ addr[c] \in blacklisted

LinkInv ==
    ~listening => AllAreOurs /\ OneLink /\ PendingIsUnlisted /\ ActiveIsListed

------------------------------------------------------------------------------
LEMMA InvInit == TableInit => IInv
BY DEF TableInit, IInv, TableTypeOK, PendingIsBlacklisted, OneAttempt, Pending, Key

\* The address of a connection, as the socket has it, is a key of the table.
LEMMA IPIsKey ==
    ASSUME TableTypeOK, NEW c \in Conn
    PROVE  IP(c) \in Key /\ (IP(c) = NoAddr \/ IP(c) = addr[c])
BY DEF TableTypeOK, IP, Key

LEMMA TypeStep ==
    ASSUME TableTypeOK, [TableNext]_ptVars
    PROVE  TableTypeOK'
<1> USE DEF TableTypeOK
<1>1. ASSUME NEW c \in Conn, NEW a \in Addr, RawConnectPeer(a, c)
      PROVE  TableTypeOK'
    BY <1>1 DEF RawConnectPeer, Open, Key
<1>2. ASSUME NEW c \in Conn, NEW a \in Addr, Accept(a, c)
      PROVE  TableTypeOK'
    BY <1>2 DEF Accept, Open, Key, tableVars
<1>3. ASSUME NEW c \in Conn, Resolved(c) \/ TimerExpires(c) \/ Connected(c) \/ Reset(c)
      PROVE  TableTypeOK'
    BY <1>3 DEF Resolved, TimerExpires, Connected, Reset, linkVars, tableVars
<1>4. ASSUME NEW c \in Conn, AddPeer(c) \/ HandleNewPeer(c)
      PROVE  TableTypeOK'
    BY <1>4, IPIsKey DEF AddPeer, HandleNewPeer, Insert, linkVars
<1>5. ASSUME NEW c \in Conn, HandleError(c)
      PROVE  TableTypeOK'
    BY <1>5, IPIsKey DEF HandleError, linkVars
<1>6. CASE UNCHANGED ptVars
    BY <1>6 DEF ptVars, linkVars, tableVars
<1> QED
    BY <1>1, <1>2, <1>3, <1>4, <1>5, <1>6 DEF TableNext, LinkFails, Timeout

\* A step that begins no attempt and takes nothing out of the blacklist.
LEMMA NoNewAttempt ==
    ASSUME IInv, UNCHANGED <<addr, blacklisted>>,
           \A d \in Conn : Pending(d)' => Pending(d)
    PROVE  PendingIsBlacklisted' /\ OneAttempt'
BY DEF IInv, PendingIsBlacklisted, OneAttempt

LEMMA InvStep ==
    ASSUME IInv, [TableNext]_ptVars
    PROVE  IInv'
<1>0. TableTypeOK /\ TableTypeOK'
    BY TypeStep DEF IInv
<1>1. ASSUME NEW c \in Conn, NEW a \in Addr, RawConnectPeer(a, c)
      PROVE  PendingIsBlacklisted' /\ OneAttempt'
    <2>1. /\ addr' = [addr EXCEPT ![c] = a]
          /\ \A d \in Conn \ {c} : Pending(d)' <=> Pending(d)
        BY <1>1, <1>0 DEF RawConnectPeer, Open, Pending, TableTypeOK
    <2>2. a \notin blacklisted /\ blacklisted' = blacklisted \cup {a}
        BY <1>1 DEF RawConnectPeer
    <2> QED
        BY <1>0, <2>1, <2>2 DEF IInv, PendingIsBlacklisted, OneAttempt, TableTypeOK
<1>2. ASSUME NEW c \in Conn, NEW a \in Addr, Accept(a, c)
      PROVE  PendingIsBlacklisted' /\ OneAttempt'
    <2>1. ~Pending(c)'
        BY <1>2 DEF Accept, Pending
    <2>2. \A d \in Conn \ {c} : addr'[d] = addr[d] /\ (Pending(d)' <=> Pending(d))
        BY <1>2, <1>0 DEF Accept, Open, Pending, TableTypeOK
    <2> QED
        BY <1>2, <2>1, <2>2
        DEF Accept, IInv, PendingIsBlacklisted, OneAttempt, tableVars
<1>3. ASSUME NEW c \in Conn,
             \/ Resolved(c) \/ TimerExpires(c) \/ Connected(c) \/ Reset(c)
             \/ HandleNewPeer(c) \/ HandleError(c)
      PROVE  PendingIsBlacklisted' /\ OneAttempt'
    <2>1. \A d \in Conn : Pending(d)' => Pending(d)
        BY <1>3, <1>0
        DEF Resolved, TimerExpires, Connected, Reset, HandleNewPeer, HandleError,
            Pending, linkVars, TableTypeOK
    <2>2. UNCHANGED <<addr, blacklisted>>
        BY <1>3
        DEF Resolved, TimerExpires, Connected, Reset, HandleNewPeer, HandleError,
            linkVars, tableVars
    <2> QED
        BY <2>1, <2>2, NoNewAttempt
\* addPeer: the attempt is over, and by OneAttempt it was the only one there.
<1>4. ASSUME NEW c \in Conn, AddPeer(c)
      PROVE  PendingIsBlacklisted' /\ OneAttempt'
    <2>1. /\ UNCHANGED addr
          /\ Pending(c) /\ ~Pending(c)'
          /\ \A d \in Conn \ {c} : Pending(d)' <=> Pending(d)
        BY <1>4, <1>0 DEF AddPeer, Pending, linkVars, TableTypeOK
    <2>2. blacklisted' = blacklisted \ {IP(c)}
        BY <1>4 DEF AddPeer
    <2>3. \A d \in Conn : Pending(d)' => addr[d] # IP(c)
        BY <2>1, <1>0, IPIsKey, PeerTableAssumption
        DEF IInv, PendingIsBlacklisted, OneAttempt, PeerTableAssumption
    <2> QED
        BY <2>1, <2>2, <2>3 DEF IInv, PendingIsBlacklisted, OneAttempt
<1>5. CASE UNCHANGED ptVars
    <2>1. UNCHANGED <<stage, outgoing, addr, blacklisted>>
        BY <1>5 DEF ptVars, linkVars, tableVars
    <2>2. \A d \in Conn : Pending(d)' => Pending(d)
        BY <2>1 DEF Pending
    <2> QED
        BY <1>0, <2>1, <2>2, NoNewAttempt DEF IInv
<1> QED
    BY <1>0, <1>1, <1>2, <1>3, <1>4, <1>5
    DEF IInv, TableNext, LinkFails, Timeout

LEMMA Invariance == TableSpec => []IInv
<1> QED
    BY InvInit, InvStep, PTL DEF TableSpec

------------------------------------------------------------------------------
\* No second connection is begun to an address while one is being made.
THEOREM OneAttemptAtATime == TableSpec => []OneAttempt
<1>1. IInv => OneAttempt
    BY DEF IInv
<1> QED
    BY <1>1, Invariance, PTL

\* Every variable keeps its type; in particular ip() is always a key.
THEOREM TableTypeCorrect == TableSpec => []TableTypeOK
<1>1. IInv => TableTypeOK
    BY DEF IInv
<1> QED
    BY <1>1, Invariance, PTL

------------------------------------------------------------------------------
(* The table without a listener *)

LEMMA LinkInit == TableInit => LinkInv
BY DEF TableInit, LinkInv, Used, AllAreOurs, OneLink, PendingIsUnlisted, ActiveIsListed,
       Pending

\* What a step leaves as it was, it leaves right.
LEMMA QuietLink ==
    ASSUME TableTypeOK, LinkInv, ~listening, UNCHANGED <<tableVars, linkVars>>,
           gone \subseteq gone',
           \A d \in Conn : Used(d)' => Used(d),
           \A d \in Conn : Pending(d)' => Pending(d),
           \A d \in Conn : (stage[d] = "active")' => stage[d] = "active"
    PROVE  LinkInv'
BY DEF LinkInv, Used, AllAreOurs, OneLink, PendingIsUnlisted, ActiveIsListed, Listed,
       tableVars, linkVars

LEMMA LinkStep ==
    ASSUME IInv, LinkInv, [TableNext]_ptVars
    PROVE  LinkInv'
<1>0. /\ TableTypeOK /\ TableTypeOK'
      /\ PendingIsBlacklisted
    BY TypeStep DEF IInv
<1>a. listening' = listening
    BY DEF TableNext, RawConnectPeer, Accept, Resolved, TimerExpires, Connected, Reset,
           AddPeer, HandleNewPeer, LinkFails, Timeout, HandleError, ptVars
<1> SUFFICES ASSUME ~listening PROVE LinkInv'
    BY <1>a DEF LinkInv
<1>b. AllAreOurs /\ OneLink /\ PendingIsUnlisted /\ ActiveIsListed
    BY DEF LinkInv
<1> SUFFICES AllAreOurs' /\ OneLink' /\ PendingIsUnlisted' /\ ActiveIsListed'
    BY DEF LinkInv
\* The address is neither blacklisted nor listed, so nobody uses it.
<1>1. ASSUME NEW c \in Conn, NEW a \in Addr, RawConnectPeer(a, c)
      PROVE  AllAreOurs' /\ OneLink' /\ PendingIsUnlisted' /\ ActiveIsListed'
    <2>1. /\ a \notin blacklisted /\ ~Listed(a) /\ Fresh(c)
          /\ stage' = [stage EXCEPT ![c] = "resolving"]
          /\ addr' = [addr EXCEPT ![c] = a]
          /\ gone' = gone \ {c}
          /\ outgoing' = outgoing \cup {c}
          /\ blacklisted' = blacklisted \cup {a}
          /\ peers' = peers
        BY <1>1 DEF RawConnectPeer, Open
    <2>2. /\ \A d \in Conn \ {c} : stage'[d] = stage[d] /\ addr'[d] = addr[d]
          /\ stage'[c] = "resolving" /\ addr'[c] = a
        BY <2>1, <1>0 DEF TableTypeOK
    <2>3. ASSUME NEW d \in Conn, Used(d) PROVE addr[d] # a /\ d # c
        <3>1. d \in outgoing /\ d # c
            BY <1>b, <2>1, <2>3 DEF AllAreOurs, Fresh, Used
        <3>2. CASE stage[d] = "active"
            BY <1>0, <1>b, <2>1, <3>1, <3>2, PeerTableAssumption
            DEF ActiveIsListed, Listed, PeerTableAssumption
        <3>3. CASE Pending(d)
            BY <1>0, <2>1, <3>1, <3>3 DEF PendingIsBlacklisted
        <3> QED
            BY <1>0, <2>3, <3>1, <3>2, <3>3 DEF Pending, Used, TableTypeOK
    <2>4. AllAreOurs'
        BY <1>b, <2>1, <2>2 DEF AllAreOurs, Used
    <2>5. OneLink'
        BY <1>b, <2>2, <2>3 DEF OneLink, Used
    <2>6. PendingIsUnlisted'
        BY <1>b, <2>1, <2>2 DEF PendingIsUnlisted, Pending, Listed
    <2>7. ActiveIsListed'
        BY <1>b, <2>1, <2>2 DEF ActiveIsListed
    <2> QED
        BY <2>4, <2>5, <2>6, <2>7
<1>2. ASSUME NEW c \in Conn, NEW a \in Addr, Accept(a, c)
      PROVE  FALSE
    BY <1>2 DEF Accept
<1>3. ASSUME NEW c \in Conn, Resolved(c) \/ TimerExpires(c) \/ Connected(c) \/ Reset(c)
      PROVE  LinkInv'
    <2>1. /\ UNCHANGED <<tableVars, linkVars>> /\ gone \subseteq gone'
          /\ \/ UNCHANGED stage
             \/ stage[c] = "resolving" /\ stage' = [stage EXCEPT ![c] = "connecting"]
             \/ stage[c] = "connecting" /\ stage' = [stage EXCEPT ![c] = "greeting"]
        BY <1>3 DEF Resolved, TimerExpires, Connected, Reset
    <2>2. \A d \in Conn : /\ Used(d)' => Used(d)
                          /\ Pending(d)' => Pending(d)
                          /\ (stage[d] = "active")' => stage[d] = "active"
        BY <1>0, <2>1 DEF Used, Pending, linkVars, TableTypeOK
    <2> QED
        BY <1>0, <2>1, <2>2, QuietLink
\* The entry is free, because its address has no other connection.
<1>4. ASSUME NEW c \in Conn, AddPeer(c)
      PROVE  AllAreOurs' /\ OneLink' /\ PendingIsUnlisted' /\ ActiveIsListed'
    <2>1. /\ stage[c] = "greeting" /\ Pending(c) /\ ~Listed(addr[c])
          /\ UNCHANGED <<outgoing, addr, gone>>
          /\ stage' = [stage EXCEPT ![c] = "active"]
          /\ blacklisted' = blacklisted \ {IP(c)}
          /\ Insert(c)
        BY <1>4, <1>b DEF AddPeer, Pending, linkVars, PendingIsUnlisted
    <2>2. /\ \A d \in Conn \ {c} : stage'[d] = stage[d]
          /\ stage'[c] = "active"
        BY <2>1, <1>0 DEF TableTypeOK
    <2>3. \A d \in Conn : Used(d)' => Used(d)
        BY <2>1, <2>2 DEF Used
    <2>4. ASSUME NEW d \in Conn, Used(d), d # c
          PROVE  addr[d] \in Key /\ addr[d] # IP(c)
        <3>1. addr[d] # addr[c] /\ addr[d] \in Addr
            BY <1>b, <2>1, <2>4 DEF OneLink, Used, AllAreOurs
        <3> QED
            BY <1>0, <3>1, IPIsKey, PeerTableAssumption DEF PeerTableAssumption, Key
    <2>5. peers' = IF Listed(IP(c)) THEN peers ELSE [peers EXCEPT ![IP(c)] = c]
        BY <2>1 DEF Insert
    <2>6. \A d \in Conn : Used(d) /\ d # c => peers'[addr[d]] = peers[addr[d]]
        BY <1>0, <2>4, <2>5 DEF TableTypeOK
    <2>7. AllAreOurs' /\ OneLink'
        BY <1>b, <2>1, <2>3 DEF AllAreOurs, OneLink, Used
    <2>8. PendingIsUnlisted'
        <3>1. ASSUME NEW d \in Conn, Pending(d)' PROVE ~Listed(addr[d])'
            <4>1. Pending(d) /\ d # c /\ Used(d)
                BY <2>1, <2>2, <3>1 DEF Pending, Used
            <4> QED
                BY <1>b, <2>1, <2>6, <4>1 DEF PendingIsUnlisted, Listed
        <3> QED
            BY <2>1, <3>1 DEF PendingIsUnlisted
    <2>9. ActiveIsListed'
        <3>1. ASSUME NEW d \in Conn, d # c, stage[d] = "active"
              PROVE  peers'[addr[d]] = d \/ (d \in gone /\ addr[d] \in blacklisted')
            <4>1. Used(d)
                BY <3>1 DEF Used
            <4> QED
                BY <1>b, <2>1, <2>4, <2>6, <3>1, <4>1 DEF ActiveIsListed
        <3>2. CASE c \in gone
            <4>1. IP(c) = NoAddr
                BY <3>2 DEF IP
            <4>2. addr[c] \in blacklisted'
                BY <1>0, <2>1, <4>1, PeerTableAssumption
                DEF PendingIsBlacklisted, PeerTableAssumption
            <4> QED
                BY <2>1, <2>2, <3>1, <3>2, <4>2 DEF ActiveIsListed
        <3>3. CASE c \notin gone
            <4>1. IP(c) = addr[c] /\ addr[c] \in Key
                BY <1>0, <2>1, <3>3 DEF IP, TableTypeOK
            <4>2. peers'[addr[c]] = c
                BY <1>0, <2>1, <2>5, <4>1 DEF TableTypeOK
            <4> QED
                BY <2>1, <2>2, <3>1, <4>2 DEF ActiveIsListed
        <3> QED
            BY <3>2, <3>3
    <2> QED
        BY <2>7, <2>8, <2>9
<1>5. ASSUME NEW c \in Conn, HandleNewPeer(c)
      PROVE  FALSE
    BY <1>5, <1>b DEF HandleNewPeer, AllAreOurs, Used
\* The entry taken out is this connection's or that of address 0.
<1>6. ASSUME NEW c \in Conn, HandleError(c), Used(c)
      PROVE  AllAreOurs' /\ OneLink' /\ PendingIsUnlisted' /\ ActiveIsListed'
    <2>1. /\ UNCHANGED <<outgoing, addr, gone, blacklisted>>
          /\ stage' = [stage EXCEPT ![c] = "closed"]
          /\ peers' = [peers EXCEPT ![IP(c)] = NoConn]
        BY <1>6 DEF HandleError, linkVars
    <2>2. /\ \A d \in Conn \ {c} : stage'[d] = stage[d]
          /\ stage'[c] = "closed"
        BY <2>1, <1>0 DEF TableTypeOK
    <2>3. \A d \in Conn : Used(d)' => Used(d) /\ d # c
        BY <2>1, <2>2 DEF Used
    <2>4. ASSUME NEW d \in Conn, Used(d), d # c
          PROVE  addr[d] \in Key /\ addr[d] # IP(c)
        <3>1. addr[d] # addr[c] /\ addr[d] \in Addr
            BY <1>6, <1>b, <2>4 DEF OneLink, Used, AllAreOurs
        <3> QED
            BY <1>0, <3>1, IPIsKey, PeerTableAssumption DEF PeerTableAssumption, Key
    <2>5. \A d \in Conn : Used(d) /\ d # c => peers'[addr[d]] = peers[addr[d]]
        BY <1>0, <2>1, <2>4 DEF TableTypeOK
    <2>6. AllAreOurs' /\ OneLink'
        BY <1>b, <2>1, <2>3 DEF AllAreOurs, OneLink, Used
    <2>7. \A d \in Conn : /\ Pending(d)' => Pending(d) /\ Used(d) /\ d # c
                          /\ stage'[d] = "active" => stage[d] = "active" /\ Used(d) /\ d # c
        BY <2>1, <2>2 DEF Pending, Used
    <2>8. PendingIsUnlisted' /\ ActiveIsListed'
        BY <1>b, <2>1, <2>5, <2>7 DEF PendingIsUnlisted, ActiveIsListed, Listed
    <2> QED
        BY <2>6, <2>8
<1>7. CASE UNCHANGED ptVars
    <2>1. UNCHANGED <<stage, tableVars, linkVars, gone>>
        BY <1>7 DEF ptVars, linkVars, tableVars
    <2>2. \A d \in Conn : (Used(d)' => Used(d)) /\ (Pending(d)' => Pending(d))
        BY <2>1 DEF Used, Pending, linkVars
    <2>3. LinkInv'
        BY <1>0, <2>1, <2>2, QuietLink
    <2> QED
        BY <1>a, <2>3 DEF LinkInv
<1> QED
    BY <1>a, <1>1, <1>2, <1>3, <1>4, <1>5, <1>6, <1>7
    DEF TableNext, LinkFails, Timeout, Used, LinkInv

LEMMA LinkInvariance == TableSpec => [](IInv /\ LinkInv)
<1> QED
    BY InvInit, InvStep, LinkInit, LinkStep, PTL DEF TableSpec

\* A client that does not listen never has two connections to one address, made
\* or being made, although entries are removed under an address that may have
\* become 0 (rawConnectPeers, addPeer, removePeer).
THEOREM OneLinkEach == TableSpec => []OneLink
<1>1. LinkInv => OneLink
    BY DEF LinkInv, OneLink
<1> QED
    BY <1>1, LinkInvariance, PTL

\* A client that does not listen finds each active peer under its address, so
\* that blocks and Haves reach it, and no peer's failure takes the entry of
\* another one.
THEOREM ActivePeersAreFound == TableSpec => []ActiveIsFound
<1>1. LinkInv => ActiveIsFound
    BY DEF LinkInv, ActiveIsListed, ActiveIsFound
<1> QED
    BY <1>1, LinkInvariance, PTL
==============================================================================
