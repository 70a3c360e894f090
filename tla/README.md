# ctorrent in TLA+

A verification project for ctorrent, a BitTorrent client in C++11: modules that
model its parts, TLC configurations that check them on small instances, and
theorems TLAPS has checked for every value of the constants. Paths below are
relative to the repository's root; `tfm.cpp` is short for
`ctorrent/torrentfilemanager.cpp`.

## The system

| Part | State | Operations | Talks to |
|---|---|---|---|
| File manager (`tfm.cpp`) | `m_completedBits`, `m_pendingBits`, the pieces' `pri`, a write queue, a read queue, `m_stopped`, the files | `registerFiles` (scan), `writePieceBlock`, `requestPieceBlock`, `getPieceforRequest`, the destructor; the worker's `thread`, `process_write`, `process_read` | called by the main thread; its worker calls back `onPieceWriteComplete`, `onPieceReadComplete` |
| Peer, downloading (`ctorrent/peer.cpp`) | `m_bitset`, `m_queue`, `PS_PeerChoked` | handlers of Choke, UnChoke, Have, Bitfield, PieceBlock; `sendPieceRequest`, `cancelPiece` | Torrent and the file manager by calls, the remote peer by messages |
| Peer, uploading (`ctorrent/peer.cpp`) | `m_requestedBlocks`, `PS_AmChoked`, `PS_PeerInterested` | handlers of Interested, NotInterested, Request, Cancel; `sendHave`, `sendPieceBlock` | the same |
| Torrent, peer table (`ctorrent/torrent.cpp`) | `m_peers`, `m_blacklisted` | `rawConnectPeers`, `addPeer`, `removePeer`, `handleNewPeer`, accepting | Connection's and Server's completion handlers |
| Torrent, lifecycle, and `main.cpp` | `completed`, `errors`, `eseed`, `m_activeTrackers` | `open`, `prepare`, `finish`, the two main loops | trackers; everything else through `Connection::poll` |
| Tracker (`ctorrent/tracker.cpp`) | `m_timeToNextRequest` | `query` over HTTP or UDP | `connectToPeers` |
| Connection (`net/connection.cpp`) | the output stream, two timers, the pool of streams | `write`, `internalWrite`, `handleWrite`, `read`, `connect`, `close` | called from both threads |
| Torrent metadata and bencode (`ctorrent/torrentmeta.cpp`, `bencode/`) | the buffer and the position in it; then the layout of files and pieces and the info hash | `decode`, `encode`, `internalParse`, `parseFile` | called by `Torrent::open`; HTTP answers are decoded too |
| Bitset (`util/bitset.h`) | the bytes of a set | `set`, `clear`, `test`, `count` | the file manager's and the peers' bitsets |
| Buffers, messages, utilities | none that outlives a call | printing, byte order, paths | |

Two threads run per torrent. The main thread runs `main`'s loop and, inside
`Connection::poll`, every network handler. The file manager's worker drains the
queues; its callbacks into Torrent run on a `std::async` thread whose discarded
future the worker joins at once, so they run inside the worker's step, with
`m_mutex` held. The mutex protects the queues; the bitsets are also read without it.

What is hard: the main thread's unlocked reads of bits the worker changes; a worker
that waits on a condition variable without a predicate and must be stopped; disks
that fill; peers that race for one piece, choke, repeat themselves and leave;
requests that are withdrawn while they wait for the disk; connections found by an
address that disappears with the connection; two loops that wait for work done
elsewhere; two threads that fill one output stream; datagrams that are lost, late or
repeated; offsets into the torrent, a piece and a file at once; and a dictionary that
is hashed after it was decoded and written again. `PROJECT.json` lists each of these
hazards at its line, with the properties that would catch it; where none does, a note
says why.

What makes each part correct, in a sentence each:

- file manager: a piece goes from missing to writing to have and never back; it
  is had only when its bytes were verified and stored; what is queued gets done;
- downloading: the blocks we wait for have been requested, they are put together
  right, and with a seeder the download finishes;
- uploading: what is sent was verified, what is announced is served, and new
  pieces are announced;
- peer table: one attempt and one link per address, and active peers are found;
- lifecycle: every torrent is waited for, gets one verdict, and tells its
  tracker once;
- tracker: peers come from answers to our own query, every tracker is tried before
  the torrent fails, and the one that answered is asked again;
- connection: what is written is sent once, in order, on its own connection;
- metadata and storage: the info hash is that of the file's own bytes, and each
  piece is found, stored and read at its place, in however many files it lies;
- bitset: `count()` counts the bits of the set.

## The modules

| Module | Models | |
|---|---|---|
| `PieceLedger` | what the file manager promises of each piece: missing, writing, have | abstract |
| `FileManager` | `tfm.cpp`: the calls of the main thread and the worker thread | core |
| `Download` | the downloading half of `peer.cpp`, `requestPiece`, `handlePieceCompleted` | EXTENDS `FileManager` |
| `Upload` | the uploading half of `peer.cpp` and the two callbacks | EXTENDS `FileManager` |
| `PeerTable` | `m_peers`, `m_blacklisted`, connecting, accepting, the handshake | |
| `Client` | `main.cpp`, `prepare`, `finish`, `queryTrackers` | |
| `Tracker` | `tracker.cpp` and its callers in `torrent.cpp`: the UDP exchange, HTTP, who is queried when | |
| `Connection` | `write`, `internalWrite`, `handleWrite`, `close` and the pool of streams, under two threads | |
| `Bencode` | the reader and the writer, byte by byte | operators |
| `TorrentMeta` | `internalParse`, `parseFile` | EXTENDS `Bencode` |
| `Bitset` | `bitset::count` | operators |
| `Storage` | a torrent's pieces on disk: `registerFiles`, `scan_file`, `process_write`, `process_read`, `compute_downloaded` over several files | EXTENDS `Bitset` |
| `TorrentFile` | `Torrent::open`: from the bytes of a torrent file to what `Storage` begins with | EXTENDS `Storage`, `TorrentMeta` |
| `MCDownload`, `MCUpload` | fix the files on disk at the start, for TLC | |
| `MCStorage` | the torrent files `TorrentFile` is given, the layouts they must come out as, and what is on disk | EXTENDS `TorrentFile` |
| `FileManagerProofs`, `TrackerProofs`, `PeerTableProofs`, `ClientProofs`, `ConnectionProofs`, `StorageProofs` | theorems and proofs | each EXTENDS its component |
| `DownloadProofs`, `UploadProofs` | theorems and proofs | EXTEND theirs and `FileManagerProofs` |

Names follow the code. Next to a definition some modules keep mutants, such as
`ClearPending_Never`: the definition with a plausible bug, which no specification
uses. Each property has one that violates it.

### FileManager

`completedBits`, `pendingBits`, `pri`, `writeRequests`, `readRequests` and
`stopped` are the members of those names; `disk` says what the file holds for
each piece; `worker` is the worker's program counter and `WorkerHolds` the part
of it where it owns the mutex; `main` and `staged` hold the main thread between
`writePieceBlock`'s unlocked test and its push. Each action of the worker is one
point of `thread`: the test of `m_stopped`, the wait, the two loops, the `fwrite`,
the clearing of the pending bit, the setting of the completed bit, the callback
with the pop, the read, the unlock. `notify_all` wakes the worker only if it
waits; a wakeup may also be spurious.

Data is abstract. What is received for a piece is genuine, a lookalike (other
bytes that agree in the 5 bytes of the digest `memcmp` compares) or corrupt; on
disk a piece may also be absent or torn by a short write.

Bounds: `MaxReads` queued reads, `MaxPri` hand-outs of a piece.

Simplifications. The torrent has one file, and its files are scanned sequentially:
the Makefile does not pass `-fopenmp`, so the pragma in `scan_file` has no effect.
`process_read` takes `std::max` where the smaller size is meant, so it asks for the
whole rest of the file: this module keeps that a read succeeds only when the file has
its full length; the surplus behind the block's end and the `int` the bytes are
counted in are in `Storage`. Here the file is smaller than 2 GiB and what lies behind
the block is not used. `isFinished` counts exactly. Request ids grow, so the priority
queue is a FIFO (their wrap at 2^32 is left out).

### Download

One action per message, as far as it changes state. `queue[p]` is `m_queue`, an entry
with the blocks that have come (`got`) and `current` (`currentBlocks`), which differ
when a block comes twice. `wire[p]` holds the requests the peer has not answered; a
peer answers in order. `cont` says where the main thread is in a handler that the
worker can overtake: between the last block and `writePieceBlock`, and before
`requestPiece` takes the mutex. A remote peer drops unanswered requests when it
chokes us, and the ones before our cancel arrives are still answered. Peers are
seeders, liars (whose data is never right and who send what they like) or neither. A
peer that is not a seeder may send UnChoke and Bitfield again at any time, and the
blocks still missing are then requested again, as the handlers do; `MaxQueue` and
`MaxWire` bound how much that may pile up. Malformed messages are one action,
`Leave`. The requests a cancel leaves on the wire are a recursive function (`Kept`,
`NotFor`), which can be reasoned about; `SelectSeq` cannot. `PS_AmInterested`, the
statistics and the bytes of blocks are left out.

### Upload

Requests enter the file manager's read queue; the callbacks are part of the
worker's `WriteComplete` and `ReadComplete`. Pieces come from `Sources`, through
`writePieceBlock`. `told` records the Haves sent. The bitfield sent after the
handshake is left out: `sendBitfield` fills only the bytes of pieces it has and
sends the others uninitialised. `MaxRequested` bounds `m_requestedBlocks`.

### PeerTable

A `Conn` is a Peer with its Connection; `stage` says how far its chain of
handlers has come. `IP` is `Connection::getIP`: 0 unless the socket is open and
its other end still there (`gone`). `overdue` holds connections whose connect
timer has expired and whose handler is queued: connecting does not take it back.
Closed objects nobody refers to are used again, so a few stand for any number.

### Client

`completed`, `errors` and `eseed` are sets of bits; torrents that share a bit, past
the width of an int, share it here too. `finish` and `checkTrackers` query a tracker,
and over HTTP nothing makes that end: such a query is a phase of its own (`telling`,
`asking`), in which main waits, and it may also end the program. `finished` is
`isFinished()`, and changes at any moment of the download loop. The seeding loop is
not modelled, because it is never entered: `finish` has deleted the trackers by then,
and `main` gives up torrents without trackers.

### Tracker

`phase` is where the main thread is in a query, `event` what the query reports,
`cur` the tracker asked. A query blocks the main thread, also the one
`checkTrackers` starts, whose discarded future joins at once; so its steps are
interleaved only with the network and with `LastPiece`, the worker completing the
torrent. `buf` and `response` are the two receive buffers: `buf` starts as our own
request, which is what a query without an answer is checked against, and
`response` collects every datagram of the second loop, though only the first one's
header is checked. `net` is a set from which taking a datagram need not remove it:
datagrams may be lost, reordered, late and duplicated. Transaction ids are
`NumTx` numbers used in turn, and what is left of an id's last use is gone when it
comes again: ids are drawn from 2^32, so a stale answer with the same id is left out.
`due` holds the trackers for which `timeUp()` is true. `Throws` is a send that
throws: out of `prepare` and `finish` it ends `main`, in `checkTrackers` the
discarded future swallows it. HTTP is one request and an answer that may never
come (`read_until` has no timeout), decoded or not; a body that is cut off inside a
number makes the decoder index past its end, and the assertion ends the program
(`GetAborts`).

### Connection

Each access to `m_outputStream` in `write` is a step of its thread; handlers run on
the main thread between its own calls. `content` is what each stream holds, in
messages; `pool` is `g_outputStreams`. `sending` holds the `async_write`s under way:
asio sends what the stream held when it was started, in pieces of at most 64 KiB, and
puts the rest behind the operations that wait. A `cancel()` does not end a wait
silently: its handler is queued with `operation_aborted` (`aborted`), and
`internalWrite` cancels the timer before it looks at that error
(`connection.cpp:127-129`), so the late handler of one wait cancels the next. Nothing
but the pop is locked, so the worker's `write` may meet the main thread's `write`,
`internalWrite` or `close`: `raced` records the connections on which it does, and a
null stream that is dereferenced ends the behaviour (`crashed`). Torn accesses, to
the pointer or the list, are left out.

### Bencode, TorrentMeta, Bitset

A buffer is a sequence of bytes and a position in it; the reader's functions return
the value and the new position, or `Aborts` where the code indexes the buffer past
its end (`readIntUntil`'s test after its loop) and the assertion there fails. A byte
is a string: those of the format are themselves, any other text, such as a key,
counts as one byte. Odd behaviour is kept: an empty dictionary is not read as one, a
string longer than the rest is the empty string, a vector ends with the buffer, and a
position plus a length wraps modulo 2^64 (`Word`). `TorrentMeta` translates the early
returns (`Parses`), both forms of `files`, and where `encode` puts the info
dictionary that is hashed (`Encode`, `BufferFrom`). `Bitset` follows `count()` by how
many bytes each of its steps takes.

### Storage, TorrentFile

`FileManager` has the threads and queues for a torrent of one file; `Storage` has the
bytes. A byte is a number, and `Matching(m, i)`, a parameter, is what
`is_write_eligible` takes for a piece: the sequences of bytes, of the piece's length,
whose digest agrees with the hash in the five bytes that are compared. `ScanFile`,
`ProcessWrite` and `ProcessRead` translate the three functions as functions of
layout, disk and request, `size_t` arithmetic included (`Plus`, `Less` are modulo
`AddressSpace`). A loop is a recursive function of its number of turns (`Loop`): the
turns of a loop over the files are indexed by file, those of `process_read`'s inner
loop are as many as it can take. Unlike a RECURSIVE operator such a function can be
reasoned about. `RegisterFiles` finds on disk what an earlier run may have left, and
scans; `Store` stores a verified piece; `ReadBlock` reads a block `is_read_eligible`
lets through. `huge` says whether an `fread` of more than the address space can hold
fails or gives what there is. Three things the code does not look at are kept:

- `scan_file` does not look at what `fread` gave for the last piece
  (`tfm.cpp:253`), and hashes what the buffer held before behind it (`ScanBuffer`);
- the result of `fread` is kept in an `int` (`tfm.cpp:322`), so that of 2 GiB or more
  becomes another number (`AsInt`, modulo `IntSpace`);
- the block's buffer has room for the block, and the rest of the file is read into it.
  `r.block` keeps all of it; after a read that went past the end the program either
  goes on or is `damaged`, and then nothing more is said of it.

No file is longer than the torrent says.

`Storage` starts from a layout: any one of `Torrents`, whose files follow each other
without a gap and whose pieces cover them (`WellFormed`). `TorrentFile` starts from
the bytes of a torrent file; its `Open` decodes and parses them (`Parses`, `Layout`,
`CheckSum`) and then does `RegisterFiles`, and everything afterwards is `Storage`'s
`Work`. `OpenImplementsStorage` says that each of its steps before the torrent is open is
one that `Storage` allows; so a torrent file that opens this way is used as `Storage`
says, and what is proved of `Storage` holds of it.

## What the runs check

| Run | Bounds | Shows |
|---|---|---|
| `file_manager` | 2 pieces of 2 blocks, 1 queued read, any files at the start, a disk that may fill | bitsets and queue agree (`PendingIsQueued`), no piece is queued twice (`OneWritePerPiece`), complete pieces are on disk as verified, short writes aside (`CompletedIsVerified`), reads stay within complete pieces (`ReadsAreServable`), `PieceLedger` is implemented (`LedgerSpec`), accepted pieces land (`WritesLand`), reads drain (`ReadsDrain`), the destructor returns (`JoinReturns`) |
| `file_manager_disk_full` | the same, no reads | violated: a complete piece need not be on disk (`CompletedIsOnDisk`) |
| `download_race` | 2 seeders and a liar, 2 pieces of 2 blocks | seeders' pieces are put together right, somebody is always being asked, the download finishes |
| `download_churn` | an ordinary peer and a liar, 1 piece of 3 blocks, up to 6 requests on their way when an unchoke is repeated | no block is waited for that has not been requested, through chokes, duplicates, repeated unchokes and bitfields |
| `download_refused` | 2 seeders | violated: an honest peer is never thrown out (`HonestNeverRefused`) |
| `upload_serve` | 2 peers, one of them a source, 2 pieces of 2 blocks | what is sent is verified, what is announced is eligible, pieces are announced |
| `upload_withdrawn` | the same with 2 reads | violated: withdrawn requests are not answered (`WithdrawnNotSent`) |
| `peer_table` | 3 connections, 2 addresses | one attempt per address; without a listener one link per address and active peers found; attempts end |
| `client` | 3 torrents, both options | none is left behind, one verdict each, trackers told once, the loop ends unless a tracker never answers |
| `tracker` | 4 URLs (UDP, HTTP, one without a host, UDP), 2 and 2 polls, 2 transaction ids | peers are dialled only after an answer to this query's announce (`AnswersAreOurs`), every usable tracker is tried before the torrent fails (`TrackersAreTried`), an active one is asked again (`KeepsAsking`), UDP queries end (`UdpQueryEnds`) |
| `connection` | 2 connections, 4 streams, 3 messages | bytes are sent once and in order (`NothingLost`), a stream is in one place (`StreamsApart`), what is written is handed to the socket (`Flushed`); where the threads do not meet, but for `StreamsApart` |
| `storage` | layouts of one and two files of 1, 3, 4 or 6 bytes, of three files of 1 or 4, and more of one to four files (14; 3, 3, 3; 6, 3, 1; 2, 4, 2; ...); pieces of 4 bytes; files that are new, a byte short or whole, one piece wrong; `int`s below 6 | the info hash is that of the file's bytes (`InfoHashIsOriginal`), what is opened is a layout `Storage` is about (`OpenImplementsStorage`), complete pieces are stored as far as a scan looks (`CompletedIsStored`), blocks served are what the disk holds (`ReadsAreExact`), counts (`CountsAreRight`), the scan (`ScanFindsWhatIsThere`) |

Why these bounds are enough: two pieces make a race between a piece being written and
the next one; two blocks make partial pieces, three make a hole that a duplicate
hides, and 6 requests are two unchokes' worth; two seeders make a lost race and the
liar a refused piece; three connections make a second link to one address beside a
third.

For the tracker, two polls instead of ten and fifteen make a loop that finds nothing,
then something, and one that collects two datagrams; two ids make an earlier query's
answer; the four URLs put one without a host and two that work behind the first. For
the connection, three messages put one in a stream under way, one in the next and one
in a thread's hands; four streams are as many as can then be in use. For storage,
lengths below, at and above the 4 bytes of a piece make pieces in one, two, three and
four files, and files that begin and end inside pieces and at their borders; `Word`
and `AddressSpace` only have to exceed what is added up, so 10000 stands for 2^64.
`IntSpace` is 12, so that what is left of the file of 14 bytes is counted too small
at its beginning, as nothing two bytes on, as less than nothing behind that, and
right from its last five bytes on. Of the layout 2, 4, 2 all bytes are equal, so that
a stale buffer can match the hash. The torrent files include every prefix of one of
them. Larger instances repeat these situations.

Deadlock is checked where the modelled system never stops (`Download`,
`Upload`). The file manager stops when it is destroyed, `main` ends, the peer
table can come to rest with every address blacklisted (an attempt that fails
leaves its address there for good), a torrent can fail at its trackers, a
connection can be closed, and a torrent file can be refused.

### The three violations

- A short `fwrite` only moves the offsets (`tfm.cpp:358`), and the piece is marked
  complete; the comment at `tfm.cpp:274` asks for the opposite.
- A peer that loses a race has its queue entry erased (`peer.cpp:234`); the blocks
  under way then count as ones "which we did not ask for" (`peer.cpp:227`).
- `onPieceReadComplete` sends without looking (`torrent.cpp:369`);
  `handlePieceBlockData` (`peer.cpp:300`), which would look, is never called.

Other divergences met on the way, which no run is about: with `--noseed` a torrent
that is complete on disk is reported as a failure (see `EachHasOneVerdict` below);
`finish` deletes the trackers and torrents without trackers are not seeded, so
nothing is; the last piece of a torrent can be marked complete while the file it goes
on in is empty, because the scan hashes it with the piece read before it (files of 2,
4 and 2 equal bytes, pieces of 4); a read of a block may be refused when 2 GiB or
more are left of its file; `removePeer` looks up an address that a reset has turned
into 0 (`torrent.cpp:303`), so the dead peer stays among the active ones;
`compute_downloaded` never counts the last piece (`tfm.cpp:412`); peer lists that are
not compact are never dialled, because ports are decoded as `uint64_t` and cast to
`int64_t` (`torrent.cpp:240`).

### Properties that are conditional, and why

- `JoinReturns` leaves out a stop that falls between the worker's test of
  `m_stopped` and its wait (`MissedStop`): then the join hangs until a spurious
  wakeup, which is not promised.
- `SeederPieceIsGenuine` is about peers that do not choke us again. After a choke,
  blocks are requested twice and `currentBlocks` counts both.
- `AnnouncedIsEligible` leaves out last blocks, which `is_read_eligible` never
  serves (`end < piece_length`).
- `NothingLost` and `Flushed` leave out connections on which the two threads met
  (`raced`), and `NothingLost` writes that were cut while another waited (`cut`).
  These can lose, repeat or mix bytes; and when both threads start a timer, the
  second `cancel()` (`connection.cpp:95`) queues the first wait's handler as aborted,
  which cancels the second wait: the stream then stays set with no timer, and later
  writes only append to it. The code does nothing about it. `StreamsApart` is not
  restricted.
- `LoopIsLeft` says what main does as long as it does not wait for a tracker for ever
  (`[]<>~InQuery`).
- `EachHasOneVerdict` says that verdicts exclude each other, and that what is called
  completed has finished; not that what is in error has not: with `--noseed`,
  `prepare` returns `AlreadyDownloaded` for a torrent that is complete, `main` only
  knows `Completed`, and reports it as a failure (`main.cpp:213-220`, `torrent.cpp:130`).
- `AnswersAreOurs` says that the announce was answered, not that all the bytes
  dialled are from that answer: later datagrams are appended unchecked
  (`tracker.cpp:227`).
- `KeepsAsking` is about UDP: a web server that accepts and stays silent stops the
  main thread.
- `CountsAreRight` is about an even number of pieces where it says `isFinished`: for an
  odd number `count()` reads a byte past the set.
- `CompletedIsStored` says of the last piece only that its bytes up to the end of the
  file before are there, where the scan reads that much of it into a buffer that holds
  the piece before (`Looked`).
- `ReadsAreExact` says unconditionally that a block served is what the disk holds at
  the place it was asked for, in one file. That it is served is promised only where
  less is left of the file than an `int` counts, and inside the last two files, not
  from a later file's first byte and not up to a file's end unless it is the last:
  elsewhere `process_read` may return false, and the request stays at the head of the
  queue. That reading past the end of the block's buffer does no harm is not promised
  (`damaged`).
- `ScanFindsWhatIsThere` leaves out pieces that end where a file ends: the loop stops
  before them (`tfm.cpp:236`), and the last piece is only looked at when the loop
  was to begin there.
- `InfoHashIsOriginal` is about info dictionaries in canonical form.
- `OneLink` and `ActiveIsFound` are about a client without a listener: two
  connections from one address share one entry, and take it from one another.

## Fairness

- `FairSpec`, `UploadFairSpec`: weak fairness of the worker thread, which the
  operating system schedules. Nothing is assumed of the main thread or of peers,
  and no spurious wakeup is promised.
- `DownloadFairSpec`: besides the worker, strong fairness of the rest of a running
  handler, since the mutex it waits for is released again and again, and strong
  fairness of the messages of seeders: they follow the protocol, and the
  `io_service` runs handlers that are ready in order, however many other peers
  keep it busy. Nothing is assumed of other peers.
- `TableFairSpec`: resolving ends, timers expire and their handlers run. Nobody
  need answer a connection attempt.
- `ClientFairSpec`: weak fairness of `main` where it does not wait for a tracker.
  Neither a query nor a download need end.
- `TrackerFairSpec`: weak fairness of the steps of a query, of `prepare`'s loop over
  the trackers and of `checkTrackers`, all of them the main thread's, and of time.
  No tracker need answer, and nothing is assumed of reading an HTTP answer.
- `ConnectionFairSpec`: both threads finish a `write` they have begun, the timer
  expires, and the main loop polls (`main.cpp:254`). The socket need not take a byte.
- `Storage` states safety only.

## What is proved

`FileManagerProofs`, for any number of pieces, blocks and peers, and whether or
not the disk may fill, from `FileManagerAssumption`:

- `TypeCorrect`, `PendingBitsAreTheQueue`, `WritesAreUnique`,
  `CompletedPiecesAreVerified`, `QueuedReadsAreServable`: the invariants of the run;
- `CompletedPiecesAreOnDisk`: the property the disk-full run refutes, for a disk
  on which `fwrite` is never short;
- `ImplementsLedger`: every step is a step of `PieceLedger` or a stutter.

The inductive invariant `IInv` adds to them what ties the worker's position to
the data: the request it works on is at the head (`HeadPresent`), every request
was verified (`RequestsVerified`), after the write its bytes are on disk
(`HeadOnDisk`), and after the second bit is set the piece is complete
(`HeadCompleted`). `OneWritePerPiece` is what makes clearing one pending bit
remove the only queued index, so it and `PendingIsQueued` are only inductive
together. `QuietStep` handles at once the actions that touch none of it.

`UploadProofs`, for any torrent, peers and disk. Every step of `Upload` is a step of
the file manager or leaves it alone (`UploadUsesFileManager`), so `IInv` holds of it
too, and with it:

- `UploadTypeCorrect` (no run repeats `UploadTypeOK`: what `Upload` adds to the file
  manager's types are sets and queues of blocks);
- `AnnouncedPiecesAreEligible`. The invariant is that a peer is told of complete
  pieces only (`ToldIsCompleted`): the piece is complete when the callback that
  sends the Haves runs (`HeadCompleted`), and a bit once set stays;
- `SentBlocksAreVerified`, for a disk on which `fwrite` is never short: a queued read
  is of a complete piece, and a complete piece's bytes are verified. (`upload_serve`
  has such a disk.)

`DownloadProofs`, for any torrent, peers and disk, and whatever peers send:

- `DownloadUsesFileManager`, `DownloadTypeCorrect`;
- `OwedBlocksAreRequested`. `NothingForgotten` alone is not inductive: a bitfield
  that comes twice queues a piece twice, and a block then answers the first entry's
  request while the second entry waits for the same block. The invariant (`QInv`) is that
  the requests of a queue entry are all behind those of the entries before it
  (`Promised`), and that an entry always misses a block (`Counted`): so the first
  request for a block is that of the first entry that wants it;
- `SeedersDeliver`. Of a seeder `SInv` says that it has at most one entry queued,
  whose unanswered requests are those of the blocks from `currentBlocks` on: blocks
  come in order and once, so counting them is right, which it is not for other peers;
- `SomeSeederIsAsked`, when there is a seeder and nobody else delivers a piece that
  passes the hash check (`OnlySeedersDeliver`, which the instance of `download_race`
  satisfies). It needs this hypothesis: when an ordinary peer wins the race for a
  piece and leaves before it is asked again, no seeder need be asked. The invariant
  (`WInv`) is that while a piece is missing, a missing piece is queued at some
  seeder, or the handler that will ask that seeder is running: a piece that is
  completed may leave several seeders with nothing missing in their queues, and the
  one that delivered it is asked next.

`PeerTableProofs`, for any addresses and connections:

- `OneAttemptAtATime`. An address being connected to is blacklisted
  (`PendingIsBlacklisted`); `addPeer` takes an address out, and by `OneAttempt` itself
  no other attempt needed it;
- `TableTypeCorrect`;
- `OneLinkEach`, `ActivePeersAreFound`, for a client that does not listen. `LinkInv`
  says that every connection is one we made, that an address being connected to has
  no entry yet (`PendingIsUnlisted`), and that an active peer has its entry unless it
  was gone when it was entered, in which case its address stays blacklisted.

`ClientProofs`: `ClientTypeCorrect` for any torrents, and, for any number of torrents
an int has bits for (`Fits`), `NothingIsLeftBehind`, `OneVerdictEach`,
`TrackersAreToldOnce`. The invariant says that torrents passed are marked until one
is started, that what is marked complete is finished, and what each torrent's
tracker has heard.

`TrackerProofs`, for any list of trackers, any number of polls and any number of
transaction ids from `TrackerAssumption`: `OnlyAnswersAreDialled`,
`EveryTrackerIsTried`. The first rests on `NoneUnanswered`: while a query runs, no
announce answer with its id is in the network or in `response` unless a tracker has
sent it, because `SendConnect` starts with a new id and empty buffers; and on the
only active tracker being the one asked last (`OneActive`), so that a later query
never looks at another's answer. The second rests on `TriedInOrder`: every URL
before the current one has been tried. `ReturnStep` handles the end of a query once
for all that can end it.

`ConnectionProofs`, for any finite number of connections and any number of messages,
when `new` always finds memory for one more stream (`MemoryIsUnbounded`; a finite
`Stream` is only needed by TLC, where four are enough):

- `StreamsHaveOneOwner`, however the threads meet. Beside `StreamsApart` the
  invariant says that a stream is in one write of its connection, under way or
  finished (`OnceEach`). One lemma for each way a stream can go (taken, handed over,
  finished, returned, aborted) says that the places stay apart; the steps only have to show
  which way they move one;
- `MessagesAreSentOnce`. While the threads have not met, a connection has one writer,
  which works on the connection's own stream (`OneWriter`), and what is in the pool is
  empty (`PoolIsEmpty`); every step then moves bytes between neighbouring parts of
  `Accounted`, or a new message enters at its end.

`StorageProofs`, for any set of torrents of any number of files of any length, empty
ones included, and any number of pieces of any length, whatever is on disk when they are
opened, from `StorageAssumption`: layouts are well formed, files on disk are not longer
than the torrent says, what matches a piece's hash has the piece's length, and twice
the torrent's size and a piece stay below 2^64. Files may be longer than an `int` counts.

- `CompletedStaysStored`, `ReadsStayExact`, `CountsStayRight`, `ScanAlwaysFinds`: all
  that the run checks of `Storage`;
- `CountReadsOneTooMany`, that `count()` reads the bytes of the set and one more when
  their number is odd, for every size, and `CountIsExact`, that for an even size the
  result does not depend on what memory follows.

The argument goes through intervals. `PieceLies`, `PiecesApart` and the lemmas before
them settle the arithmetic of products: each piece begins where the one before ends,
and the last one ends with the torrent. From there on a piece is an interval `first`
.. `first + n - 1`. `Covered(m, k, first, n)` is how many of its bytes lie in the
first k files; after k turns of any of the loops, what has been gathered or written
is that much of the interval (`GatheredIs`, `WrittenIs`). Hence what is read of a
piece from several files is given bytes (`val`, by offset; `ContentOf` of what
matches a hash) exactly when each of them is at its place (`GatheredRight`, `There`),
storing a piece puts its bytes there and moves no other (`WriteStores`,
`PiecesApart`), and the scan marks a piece only if its bytes are there as far as it
looks (`ScanIsSound`) and marks it when all are (`ScanIsComplete`). For reads, what
has been read stays (`Keeps`), and what is new is what the file holds if `writePos`
has gone on by as much as was read (`Reads`), which it has where the `int` counts
right. `ReadOnceGives` says this of one turn of the inner loop and `ReadUpToGives` of
all: every turn reads a byte or fails, so `Len(data) + 1` turns suffice; the first
file that is not over where the block begins gives all of it or the read fails
(`ReadFileBegins`), later files only append (`ReadFileKeeps`), so what is served is
right (`Serves`, `ServesGives`), and in the last two files nothing fails
(`ReadIsServed`). `MissingIs` adds up the pieces that are missing. The inductive
invariant (`StorageInv`) then is short: what is open is well formed, what is marked
is stored as far as a scan looks, and the last reply was right. (`HeldIsThere` is the
bridge from the properties to the intervals.)

Loops are recursive functions. That there is a function with the recursive equation
(`LoopTurns`), and that a function with that equation is the one (`LoopIs`), is proved
once for all of them, over `UpTo`: what holds of 0, and of a number if it holds of the
one before, holds of all.

Where a proof needs to know what a recursive function computes (`Kept`, `FlattenSeq`),
it looks for the least place at which the claim fails; that there is a least one
(`LeastPosition`, `LeastNumber`; `UpTo` rests on it) follows from finite sets being
well-founded under inclusion.

Only model-checked, and why:

- `WritesLand`, `ReadsDrain`, `JoinReturns`, `Finishes`, `PieceAnnounced`, `AttemptEnds`,
  `LoopIsLeft`, `KeepsAsking`, `UdpQueryEnds`, `Flushed`: liveness needs fairness and
  ENABLED, which are out of the prover's reach;
- `CompletedIsOnDisk`, `HonestNeverRefused` and `WithdrawnNotSent` are violated;
- `InfoHashIsOriginal` and `OpenImplementsStorage` of `TorrentFile`: the reader and the
  writer of bencode are RECURSIVE operators (a dictionary is in a dictionary), and a
  module that reaches one cannot be proved about. `Storage` was separated from them so
  that it can.

## What is not modelled, and what comes next

Not modelled: message buffers, string and path helpers (no state), statistics, the
text of HTTP requests and answers, the addresses in a tracker's answer (they are
`PeerTable`'s), bencode's signed integers (nothing writes them), the bitfield sent
after the handshake, destruction of a Torrent, reading from a socket other than as
the messages it delivers, and the outcomes of the data races on `m_peers`, on the
pool's list and on a connection's pointer and timer.

`Storage` is not composed with `FileManager`: the threads and queues of the one
and the byte ranges of the other share only the request that is processed, and
`FileManager` keeps the rest of `process_read` in `FileWhole`. A `process_read` that
fails for ever in a torrent of several files therefore shows in `ReadsAreExact`, and
`ReadsDrain` is about one file.

What comes next is to prove more:

1. What still holds of the peer table with a listener.
2. The weak form of `SomeoneAsked` for ordinary peers that deliver and stay.
3. `Storage` composed with `FileManager`, with the read that is never served at the head
   of the queue.

## Running

    tlc -workers 2 -config FileManager_all.cfg FileManager
    tlapm FileManagerProofs.tla

`PROJECT.json` names the module and configuration of each run, the mutant for each
property, and the lines of code each definition stands for.
