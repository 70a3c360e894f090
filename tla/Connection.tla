------------------------------ MODULE Connection ------------------------------
(***************************************************************************)
(* The writing half of Connection (net/connection.cpp): write collects     *)
(* bytes in a stream, a 10 ms timer hands the stream to the socket, and    *)
(* used streams go back to a pool all connections share.                   *)
(*                                                                         *)
(* Two threads write.  The main thread runs write() for its own messages   *)
(* and every handler (internalWrite, handleWrite, close), one at a time.   *)
(* The file manager's worker runs write() in the callbacks that send Haves *)
(* and blocks; nothing but the pop of the pool is locked, so its steps     *)
(* fall between those of the main thread.  `raced' records the connections *)
(* on which they did.  Each access to m_outputStream is a step; what a     *)
(* torn access of the pointer, of the timer or of the list would add is    *)
(* left out.                                                               *)
(***************************************************************************)
EXTENDS Integers, Sequences, FiniteSets, SequencesExt

CONSTANTS
    Conn,           \* the connections
    Stream,         \* the streambufs there can be
    NoStream,       \* nullptr
    MaxWrites       \* bound: messages written to all connections together

ASSUME ConnectionAssumption == NoStream \notin Stream /\ MaxWrites \in Nat

Thread == {"main", "worker"}

\* The n-th message for connection `to'.
Message == [to : Conn, n : 1 .. MaxWrites]

\* An async_write under way: its stream and what the socket has not taken.
Operation == [stream : Stream, rest : Seq(Message)]

NoMessage == CHOOSE m \in Message : TRUE

VARIABLES
    open,       \* the connections whose socket is open
    stream,     \* m_outputStream
    content,    \* what each stream holds
    pool,       \* g_outputStreams
    armed,      \* the connections whose m_delayedWriteTimer runs
    due,        \* internalWrite handlers that are queued
    aborted,    \* those queued with operation_aborted, by a cancel()
    sending,    \* async_writes the socket works on, in its order
    sent,       \* streams whose handleWrite is queued
    wire,       \* what has gone to the socket
    step,       \* where each thread is in write()
    msg,        \* the message it writes
    into,       \* the stream it has read from m_outputStream
    crashed,    \* a null stream was dereferenced
    written,    \* history: the messages write() was called with
    raced,      \* history: the connections the threads met on
    cut         \* history: a partial write let another one pass

timerVars == <<armed, due, aborted>>
opVars    == <<sending, sent, wire>>
callVars  == <<step, msg, into>>
histVars  == <<written, raced, cut>>
coVars    == <<open, stream, content, pool, timerVars, opVars, callVars,
               crashed, histVars>>

ConnectionTypeOK ==
    /\ open \subseteq Conn
    /\ stream \in [Conn -> Stream \cup {NoStream}]
    /\ content \in [Stream -> Seq(Message)]
    /\ pool \in Seq(Stream)
    /\ armed \subseteq Conn
    /\ due \in [Conn -> Nat]
    /\ aborted \in [Conn -> Nat]
    /\ sending \in [Conn -> Seq(Operation)]
    /\ sent \in [Conn -> Seq(Stream)]
    /\ wire \in [Conn -> Seq(Message)]
    /\ step \in [Thread -> {"idle", "take", "read", "fill"}]
    /\ msg \in [Thread -> Message]
    /\ into \in [Thread -> Stream \cup {NoStream}]
    /\ crashed \in BOOLEAN
    /\ written \in [Conn -> Seq(Message)]
    /\ raced \subseteq Conn
    /\ cut \in BOOLEAN

ConnectionInit ==
    /\ open = Conn
    /\ stream = [c \in Conn |-> NoStream]
    /\ content = [s \in Stream |-> <<>>]
    /\ pool = <<>>
    /\ armed = {}
    /\ due = [c \in Conn |-> 0]
    /\ aborted = [c \in Conn |-> 0]
    /\ sending = [c \in Conn |-> <<>>]
    /\ sent = [c \in Conn |-> <<>>]
    /\ wire = [c \in Conn |-> <<>>]
    /\ step = [t \in Thread |-> "idle"]
    /\ msg = [t \in Thread |-> NoMessage]
    /\ into = [t \in Thread |-> NoStream]
    /\ crashed = FALSE
    /\ written = [c \in Conn |-> <<>>]
    /\ raced = {}
    /\ cut = FALSE

------------------------------------------------------------------------------
(* write() *)

Writing(t, c) == step[t] # "idle" /\ msg[t].to = c

\* Another thread than t is inside write() for c.
Meets(t, c) == \E u \in Thread \ {t} : Writing(u, c)

Queued(c) == {sending[c][i].stream : i \in DOMAIN sending[c]}

\* The streams something refers to; shared_ptr frees the others.
InUse ==
    {stream[c] : c \in Conn} \cup ToSet(pool)
        \cup UNION {Queued(c) \cup ToSet(sent[c]) : c \in Conn}

\* new asio::streambuf: one nothing refers to; which one makes no difference.
NewStream == CHOOSE s \in Stream : s \notin InUse

CallsMade == MapThenSumSet(LAMBDA c : Len(written[c]), Conn)

\* write() is called on an open connection and tests m_outputStream.
BeginWrite(t, c) ==
    /\ step[t] = "idle"
    /\ c \in open
    /\ CallsMade < MaxWrites
    /\ msg' = [msg EXCEPT ![t] = [to |-> c, n |-> Len(written[c]) + 1]]
    /\ written' = [written EXCEPT ![c] = Append(@, msg'[t])]
    /\ step' = [step EXCEPT ![t] = IF stream[c] = NoStream THEN "take" ELSE "read"]
    /\ raced' = IF Meets(t, c) THEN raced \cup {c} ELSE raced
    /\ UNCHANGED <<open, stream, content, pool, timerVars, opVars, into, crashed, cut>>

\* m_delayedWriteTimer.cancel(): the handler of a wait under way is queued with
\* operation_aborted; one that is queued already stays as it is.
Cancelled(c) == [aborted EXCEPT ![c] = IF c \in armed THEN @ + 1 ELSE @]

\* The timer is cancelled and started again.
StartTimer(c) ==
    /\ armed' = armed \cup {c}
    /\ aborted' = Cancelled(c)
    /\ UNCHANGED due

\* Mutant: the stream stays at the front of the pool.
TakeStream_NoPop(t) ==
    LET c == msg[t].to IN
    /\ step[t] = "take"
    /\ stream' = [stream EXCEPT ![c] = IF pool = <<>> THEN NewStream ELSE Head(pool)]
    /\ content' = IF pool = <<>> THEN [content EXCEPT ![NewStream] = <<>>] ELSE content
    /\ StartTimer(c)
    /\ step' = [step EXCEPT ![t] = "read"]
    /\ UNCHANGED <<open, pool, opVars, msg, into, crashed, histVars>>

\* The front of the pool, or a new stream, becomes m_outputStream; the timer
\* is started.
TakeStream(t) ==
    LET c == msg[t].to IN
    /\ step[t] = "take"
    /\ \/ /\ pool # <<>>
          /\ stream' = [stream EXCEPT ![c] = Head(pool)]
          /\ pool' = Tail(pool)
          /\ UNCHANGED content
       \/ /\ pool = <<>>
          /\ stream' = [stream EXCEPT ![c] = NewStream]
          /\ content' = [content EXCEPT ![NewStream] = <<>>]
          /\ UNCHANGED pool
    /\ StartTimer(c)
    /\ step' = [step EXCEPT ![t] = "read"]
    /\ UNCHANGED <<open, opVars, msg, into, crashed, histVars>>

\* std::ostream os(m_outputStream.get())
ReadPointer(t) ==
    /\ step[t] = "read"
    /\ into' = [into EXCEPT ![t] = stream[msg[t].to]]
    /\ step' = [step EXCEPT ![t] = "fill"]
    /\ UNCHANGED <<open, stream, content, pool, timerVars, opVars, msg, crashed,
                   histVars>>

\* os.write; an ostream without a buffer drops what it is given.
Fill(t) ==
    LET s == into[t] IN
    /\ step[t] = "fill"
    /\ content' = IF s = NoStream THEN content
                  ELSE [content EXCEPT ![s] = Append(@, msg[t])]
    /\ step' = [step EXCEPT ![t] = "idle"]
    /\ into' = [into EXCEPT ![t] = NoStream]
    /\ msg' = [msg EXCEPT ![t] = NoMessage]
    /\ UNCHANGED <<open, stream, pool, timerVars, opVars, crashed, histVars>>

------------------------------------------------------------------------------
(* The handlers, on the main thread *)

MainFree == step["main"] = "idle"

\* The worker is inside write() for the connection a handler is about to change.
MeetsWorker(c) == raced' = IF Writing("worker", c) THEN raced \cup {c} ELSE raced

TimerExpires(c) ==
    /\ c \in armed
    /\ armed' = armed \ {c}
    /\ due' = [due EXCEPT ![c] = @ + 1]
    /\ UNCHANGED aborted
    /\ UNCHANGED <<open, stream, content, pool, opVars, callVars, crashed, histVars>>

\* Mutant: m_outputStream is left in place.
InternalWrite_KeepsStream(c) ==
    /\ MainFree
    /\ due[c] > 0
    /\ due' = [due EXCEPT ![c] = @ - 1]
    /\ armed' = armed \ {c}
    /\ aborted' = Cancelled(c)
    /\ IF c \in open /\ stream[c] # NoStream
       THEN sending' = [sending EXCEPT ![c] =
                Append(@, [stream |-> stream[c], rest |-> content[stream[c]]])]
       ELSE UNCHANGED sending
    /\ MeetsWorker(c)
    /\ crashed' = (crashed \/ (c \in open /\ stream[c] = NoStream))
    /\ UNCHANGED <<open, stream, content, pool, sent, wire, callVars, written, cut>>

\* internalWrite hands the stream to async_write, which works with the bytes
\* it holds at this moment; without a stream it dereferences a null pointer.
InternalWrite(c) ==
    /\ MainFree
    /\ due[c] > 0
    /\ due' = [due EXCEPT ![c] = @ - 1]
    /\ armed' = armed \ {c}
    /\ aborted' = Cancelled(c)
    /\ IF c \in open /\ stream[c] # NoStream
       THEN /\ sending' = [sending EXCEPT ![c] =
                   Append(@, [stream |-> stream[c], rest |-> content[stream[c]]])]
            /\ stream' = [stream EXCEPT ![c] = NoStream]
       ELSE UNCHANGED <<sending, stream>>
    /\ MeetsWorker(c)
    /\ crashed' = (crashed \/ (c \in open /\ stream[c] = NoStream))
    /\ UNCHANGED <<open, content, pool, sent, wire, callVars, written, cut>>

\* An aborted handler returns at once, but not before it has cancelled the timer:
\* a wait begun since then is aborted in its turn.
InternalWriteAborted(c) ==
    /\ MainFree
    /\ aborted[c] > 0
    /\ armed' = armed \ {c}
    /\ aborted' = [aborted EXCEPT ![c] = IF c \in armed THEN @ ELSE @ - 1]
    /\ UNCHANGED <<open, stream, content, pool, due, opVars, callVars, crashed, histVars>>

(***************************************************************************)
(* The socket takes the first n messages of the operation at the head of   *)
(* its queue.  async_write asks again for what is left (it never offers    *)
(* more than 64 KiB at once), which puts the rest behind the others.       *)
(***************************************************************************)
SocketTakes(c, n) ==
    LET op == Head(sending[c])
        left == SubSeq(op.rest, n + 1, Len(op.rest))
    IN
    /\ sending[c] # <<>>
    /\ n \in 0 .. Len(op.rest) /\ (n > 0 \/ op.rest = <<>>)
    /\ wire' = [wire EXCEPT ![c] = @ \o SubSeq(op.rest, 1, n)]
    /\ IF left = <<>>
       THEN /\ sending' = [sending EXCEPT ![c] = Tail(@)]
            /\ sent' = [sent EXCEPT ![c] = Append(@, op.stream)]
            /\ UNCHANGED cut
       ELSE /\ sending' = [sending EXCEPT ![c] = Append(Tail(@), [op EXCEPT !.rest = left])]
            /\ cut' = (cut \/ Len(sending[c]) > 1)
            /\ UNCHANGED sent
    /\ UNCHANGED <<open, stream, content, pool, timerVars, callVars, crashed, written,
                   raced>>

\* Mutant: what the stream holds is not consumed.
HandleWrite_NoConsume(c) ==
    /\ MainFree
    /\ sent[c] # <<>>
    /\ pool' = Append(pool, Head(sent[c]))
    /\ sent' = [sent EXCEPT ![c] = Tail(@)]
    /\ UNCHANGED <<open, stream, content, timerVars, sending, wire, callVars, crashed,
                   histVars>>

\* handleWrite empties the stream and returns it to the pool.
HandleWrite(c) ==
    /\ MainFree
    /\ sent[c] # <<>>
    /\ content' = [content EXCEPT ![Head(sent[c])] = <<>>]
    /\ pool' = Append(pool, Head(sent[c]))
    /\ sent' = [sent EXCEPT ![c] = Tail(@)]
    /\ UNCHANGED <<open, stream, timerVars, sending, wire, callVars, crashed, histVars>>

\* close(): timers are cancelled, and the operations under way end with
\* operation_aborted, so that handleWrite returns without doing anything.
CloseSocket(c) ==
    /\ open' = open \ {c}
    /\ armed' = armed \ {c}
    /\ aborted' = Cancelled(c)
    /\ sending' = [sending EXCEPT ![c] = <<>>]

Close(c) ==
    /\ MainFree
    /\ c \in open
    /\ CloseSocket(c)
    /\ MeetsWorker(c)
    /\ UNCHANGED <<stream, content, pool, due, sent, wire, callVars, crashed, written, cut>>

\* The other end breaks the connection: handleWrite gets an error, returns the
\* stream and tells the peer, which closes.
WriteFails(c) ==
    /\ MainFree
    /\ sending[c] # <<>>
    /\ LET s == Head(sending[c]).stream IN
       /\ content' = [content EXCEPT ![s] = <<>>]
       /\ pool' = Append(pool, s)
    /\ CloseSocket(c)
    /\ MeetsWorker(c)
    /\ UNCHANGED <<stream, due, sent, wire, callVars, crashed, written, cut>>

Write(t) == TakeStream(t) \/ ReadPointer(t) \/ Fill(t)

\* Nothing happens any more after a crash.
ConnectionNext ==
    /\ ~crashed
    /\ \/ \E t \in Thread : Write(t) \/ \E c \in Conn : BeginWrite(t, c)
       \/ \E c \in Conn :
            \/ TimerExpires(c) \/ InternalWrite(c) \/ InternalWriteAborted(c)
            \/ HandleWrite(c)
            \/ Close(c) \/ WriteFails(c)
            \/ \E n \in 0 .. MaxWrites : SocketTakes(c, n)

ConnectionSpec == ConnectionInit /\ [][ConnectionNext]_coVars

\* Both threads go on with a write() they have begun, the timer expires and
\* the main loop polls.  The socket need not take anything.
ConnectionFairness ==
    /\ \A t \in Thread : WF_coVars(~crashed /\ Write(t))
    /\ \A c \in Conn : /\ WF_coVars(~crashed /\ TimerExpires(c))
                       /\ WF_coVars(~crashed /\ InternalWrite(c))
                       /\ WF_coVars(~crashed /\ InternalWriteAborted(c))

ConnectionFairSpec == ConnectionSpec /\ ConnectionFairness

------------------------------------------------------------------------------
(* Properties *)

\* What the messages of a connection have come to, in order: on the wire, in
\* operations under way, in the open stream, or about to be put there.
Held(s) == IF s = NoStream THEN <<>> ELSE content[s]
InHand(c) ==
    LET writers == {t \in Thread : Writing(t, c)} IN
    IF writers = {} THEN <<>> ELSE <<msg[CHOOSE t \in writers : TRUE]>>
Accounted(c) ==
    wire[c] \o FlattenSeq([i \in DOMAIN sending[c] |-> sending[c][i].rest])
            \o Held(stream[c]) \o InHand(c)

\* As long as the threads never meet on a connection and no async_write is cut
\* short while another waits, an open connection's messages are all accounted
\* for, each once and in the order they were written; streams are shared by all
\* connections, so this also says that none sends another's bytes
\* (Connection::write, internalWrite, handleWrite).
NothingLost ==
    raced = {} /\ ~cut => \A c \in open : Accounted(c) = written[c]

\* Even when the threads meet, a stream is in one place at a time: it is the
\* output stream of one connection, in one write under way, or in the pool, once
\* (the pool, m_outputStream and handleWrite's bound stream).
StreamsApart ==
    /\ \A c, d \in Conn : c # d =>
         /\ stream[c] = stream[d] => stream[c] = NoStream
         /\ (Queued(c) \cup ToSet(sent[c])) \cap (Queued(d) \cup ToSet(sent[d])) = {}
    /\ \A c, d \in Conn :
         stream[c] \notin Queued(d) \cup ToSet(sent[d]) \cup ToSet(pool)
    /\ \A c \in Conn : (Queued(c) \cup ToSet(sent[c])) \cap ToSet(pool) = {}
    /\ IsInjective(pool)

\* Bytes given to an open connection do not stay in its stream: the timer hands
\* it to the socket (the 10 ms delay of write()).  Where the threads have met on
\* the connection this may fail: internalWrite cancels the timer before it looks
\* at the error, so the aborted handler of one thread's wait aborts the other's.
Flushed ==
    \A c \in Conn :
      stream[c] # NoStream ~>
        (stream[c] = NoStream \/ c \notin open \/ c \in raced \/ crashed)
==============================================================================
