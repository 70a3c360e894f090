-------------------------------- MODULE Storage --------------------------------
(***************************************************************************)
(* The pieces of a torrent on disk: they are found by scan_file, stored by *)
(* process_write and read by process_read (ctorrent/                       *)
(* torrentfilemanager.cpp).  Module FileManager has the threads and queues *)
(* around these for a torrent of one file; here there are several, and     *)
(* what matters is where each byte comes from and goes to.  What the       *)
(* torrent is comes out of a torrent file: see module TorrentFile.         *)
(*                                                                         *)
(* A hash is the set of what is_write_eligible takes for the piece: of a   *)
(* digest it compares five bytes, so that may be more than one sequence of *)
(* bytes.  All have the piece's length: that blocks of other sizes were    *)
(* put together to one of another length that agrees in five bytes is left *)
(* out.  No file is longer than the torrent says.                          *)
(***************************************************************************)
EXTENDS Bitset, Sequences

CONSTANTS
    Torrents,       \* the layouts a torrent may have: m_meta, as far as used here
    OnDisk(_),      \* what may be found of a torrent's files when it is opened
    Matching(_, _), \* is_write_eligible: what matches the hash of a torrent's piece
    AddressSpace,   \* 2^64, the values of a size_t
    IntSpace        \* 2^32, the values of an int

Hole == 0           \* a byte of a file that was never written

VARIABLES
    stage,      \* of Torrent::open: given, open, failed or aborted; or damaged,
                \* when a read has destroyed what is behind its block
    meta,       \* m_meta
    disk,       \* external: the bytes of each file
    bits,       \* m_completedBits
    slack,      \* bits set in the byte behind m_completedBits
    reply       \* the last request process_read tried, and its result

storageVars == <<stage, meta, disk, bits, slack, reply>>

\* The loops: what there is after each of n turns, each a function of its number
\* and of what there was before.
Loop(turn, start, n) ==
    LET after[k \in 0 .. n] == IF k = 0 THEN start ELSE turn[k][after[k - 1]]
    IN  after

NoMeta  == [pieceLength |-> 1, numPieces |-> 0, totalSize |-> 0, files |-> <<>>]
NoReply == [index |-> 0, begin |-> 0, size |-> 0, ok |-> FALSE, block |-> <<>>]

Piece == 0 .. meta.numPieces - 1
End(file) == file.begin + file.length
Smaller(a, b) == IF a < b THEN a ELSE b
Larger(a, b)  == IF a < b THEN b ELSE a

\* The files of a torrent follow each other without a gap, it has as many pieces
\* as cover them, and sizes are far from overflowing.
WellFormed(m) ==
    /\ m.pieceLength \in Nat \ {0} /\ m.numPieces \in Nat \ {0}
    /\ Len(m.files) \in Nat \ {0} /\ DOMAIN m.files = 1 .. Len(m.files)
    /\ \A f \in DOMAIN m.files :
           /\ m.files[f].begin \in Nat /\ m.files[f].length \in Nat
           /\ m.files[f].begin = IF f = 1 THEN 0 ELSE End(m.files[f - 1])
    /\ m.totalSize = End(m.files[Len(m.files)])
    /\ (m.numPieces - 1) * m.pieceLength < m.totalSize
    /\ m.totalSize <= m.numPieces * m.pieceLength
    /\ 2 * (m.totalSize + m.pieceLength) < AddressSpace

IsDisk(m, d) ==
    /\ d \in [DOMAIN m.files -> Seq(Int)]
    /\ \A f \in DOMAIN m.files : Len(d[f]) <= m.files[f].length

\* piece_length and last_piece_length
PieceLength(m, i) ==
    LET rest == m.totalSize % m.pieceLength IN
    IF i = m.numPieces - 1 /\ rest # 0 THEN rest ELSE m.pieceLength

PieceBegin(m, i) == i * m.pieceLength
PieceEnd(m, i)   == PieceBegin(m, i) + PieceLength(m, i)

ASSUME StorageAssumption ==
    /\ AddressSpace \in Nat /\ IntSpace \in Nat \ {0}
    /\ \A m \in Torrents :
           /\ WellFormed(m)
           /\ \A d \in OnDisk(m) : IsDisk(m, d)
           /\ \A i \in 0 .. m.numPieces - 1 : \A b \in Matching(m, i) :
                  b \in Seq(Int) /\ Len(b) = PieceLength(m, i)

\* What n bytes from position p of a file give; fewer at its end.
Fread(data, p, n) == SubSeq(data, p + 1, Smaller(p + n, Len(data)))

\* fseek and fwrite; the file grows with a hole if it has to.  (Also of a buffer.)
Fwrite(data, p, new) ==
    LET After(k) == CASE k - p \in DOMAIN new -> new[k - p]
                      [] k \in DOMAIN data /\ k - p \notin DOMAIN new -> data[k]
                      [] OTHER -> Hole
    IN  IF new = <<>> THEN data ELSE [k \in 1 .. Larger(Len(data), p + Len(new)) |-> After(k)]

\* What a file, and then what the files one after the other, hold of the n bytes
\* from `first' on.
Part(file, data, first, n) ==
    LET from == Larger(file.begin, first) IN
    Fread(data, from - file.begin, Smaller(End(file), first + n) - from)

Gathered(m, d, first, n) ==
    Loop([k \in DOMAIN m.files |-> [b \in Seq(Int) |-> b \o Part(m.files[k], d[k], first, n)]],
         <<>>, Len(m.files))

Held(m, d, first, n) == Gathered(m, d, first, n)[Len(m.files)]

\* What the files hold of piece i.
Stored(m, d, i) == Held(m, d, PieceBegin(m, i), PieceLength(m, i))

------------------------------------------------------------------------------
(* scan_file *)

\* The piece the file begins in, and whether it begins before the file.
FirstPiece(m, f) == m.files[f].begin \div m.pieceLength
Split(m, f) == PieceBegin(m, FirstPiece(m, f)) < m.files[f].begin

\* Mutant: a file that has its length is not scanned.
NotScanned_Equal(m, d, f) ==
    \/ m.files[f].length >= Len(d[f])
    \/ PieceEnd(m, FirstPiece(m, f)) > End(m.files[f])
    \/ Split(m, f) /\ Len(Stored(m, d, FirstPiece(m, f))) # m.pieceLength

(***************************************************************************)
(* The early returns: the file is too short, its first piece goes on into  *)
(* the next file, or the part of that piece in the files before cannot be  *)
(* read (no fseek comes before one of the reads, of a file that is all in  *)
(* the piece: its own scan has left it at its start).                      *)
(***************************************************************************)
NotScanned(m, d, f) ==
    \/ m.files[f].length > Len(d[f])
    \/ PieceEnd(m, FirstPiece(m, f)) > End(m.files[f])
    \/ Split(m, f) /\ Len(Stored(m, d, FirstPiece(m, f))) # m.pieceLength

(***************************************************************************)
(* The pieces looked at: one that begins before the file; those the loop   *)
(* reads, which end before the file does; the last piece if the loop was   *)
(* to begin there (it stops before the last piece, and `real' is where it  *)
(* stopped or, if it did not stop early, where it began).                  *)
(***************************************************************************)
LookedAt(m, f) ==
    LET first == FirstPiece(m, f)
        start == IF Split(m, f) THEN first + 1 ELSE first
        last  == m.numPieces - 1
    IN  {i \in {first} : Split(m, f)}
        \cup {i \in start .. last - 1 : PieceBegin(m, i + 1) < End(m.files[f])}
        \cup {i \in {last} : i = start}

(***************************************************************************)
(* What is_write_eligible is given for piece i.  The other pieces are read *)
(* over the first one, and nobody looks how much was read: of the last     *)
(* piece, where it goes on in the next file, buf has only what is in this  *)
(* one, and behind it what was there before.                               *)
(***************************************************************************)
ScanBuffer(m, d, f, i) ==
    LET first == Stored(m, d, FirstPiece(m, f))
        got   == Fread(d[f], PieceBegin(m, i) - m.files[f].begin, PieceLength(m, i))
    IN  IF ~Split(m, f) THEN got
        ELSE IF i = FirstPiece(m, f) THEN first
        ELSE SubSeq(Fwrite(first, 0, got), 1, PieceLength(m, i))

ScanFile(m, d, f) ==
    IF NotScanned(m, d, f) THEN {}
    ELSE {i \in LookedAt(m, f) : ScanBuffer(m, d, f, i) \in Matching(m, i)}

\* scan_pieces
ScanPieces(m, d) == UNION {ScanFile(m, d, f) : f \in DOMAIN m.files}

------------------------------------------------------------------------------
(* process_write *)

\* Mutant: fwrite gets buf and not buf + off.
WriteFile_NoOffset(m, data, f, w) ==
    LET file   == m.files[f]
        amount == Smaller(End(file) - w.pos, w.length)
    IN  IF w.pos < file.begin \/ w.pos >= End(file) THEN w
        ELSE [disk |-> [w.disk EXCEPT ![f] =
                           Fwrite(@, w.pos - file.begin, SubSeq(data, 1, amount))],
              off  |-> w.off + amount, pos |-> w.pos + amount, length |-> w.length - amount]

\* The turn of file f in the loop of process_write.
WriteFile(m, data, f, w) ==
    LET file   == m.files[f]
        amount == Smaller(End(file) - w.pos, w.length)
    IN  IF w.pos < file.begin \/ w.pos >= End(file) THEN w
        ELSE [disk |-> [w.disk EXCEPT ![f] =
                           Fwrite(@, w.pos - file.begin, SubSeq(data, w.off + 1, w.off + amount))],
              off  |-> w.off + amount, pos |-> w.pos + amount, length |-> w.length - amount]

\* The loop; pos is beginPos, which is `first' at the start.
Progress(m) == [disk : [DOMAIN m.files -> Seq(Int)], off : Nat, pos : Nat, length : Nat]
Written(m, d, first, data) ==
    Loop([f \in DOMAIN m.files |-> [w \in Progress(m) |-> WriteFile(m, data, f, w)]],
         [disk |-> d, off |-> 0, pos |-> first, length |-> Len(data)],
         Len(m.files))

ProcessWrite(m, d, i, data) == Written(m, d, PieceBegin(m, i), data)[Len(m.files)].disk

------------------------------------------------------------------------------
(* process_read *)

\* a + b and a - b of two size_t
Plus(a, b) == (a + b) % AddressSpace
Less(a, b) == (a - b + AddressSpace) % AddressSpace

\* Mutant: std::min
ReadSize_Min(toEnd, toGo) == Smaller(toEnd, toGo)
ReadSize(toEnd, toGo) == Larger(toEnd, toGo)

\* The int a size_t is converted to.
AsInt(n) == LET w == n % IntSpace IN IF 2 * w < IntSpace THEN w ELSE w - IntSpace

(***************************************************************************)
(* The inner loop: fread until writePos, r.pos, is at maxRead; r.at is the *)
(* file's position.  An fread of more than the address space holds may     *)
(* fail (~huge) or give what there is.  Its result is kept in an int, and  *)
(* writePos goes on by that.  r.block is what has been read, behind the    *)
(* end of the block too.  A turn that goes on has read a byte, so the loop *)
(* is over after as many turns as the file has bytes, and one.             *)
(***************************************************************************)
ReadOnce(data, readSize, maxRead, huge, r) ==
    LET ask  == Less(readSize, r.pos)
        got  == IF ask > AddressSpace \div 2 /\ ~huge THEN <<>> ELSE Fread(data, r.at, ask)
        read == AsInt(Len(got))
    IN  IF ~r.ok \/ r.pos >= maxRead THEN r
        ELSE [ok    |-> read > 0,
              pos   |-> r.pos + Larger(read, 0),
              at    |-> r.at + Len(got),
              block |-> Fwrite(r.block, r.pos, got)]

Result == [ok : BOOLEAN, pos : Nat, at : Nat, block : Seq(Int)]
ReadTurns(data, readSize, maxRead, huge, r) ==
    Loop([k \in 1 .. Len(data) + 1 |->
             [x \in Result |-> ReadOnce(data, readSize, maxRead, huge, x)]],
         r, Len(data) + 1)

ReadUpTo(data, readSize, maxRead, huge, r) ==
    ReadTurns(data, readSize, maxRead, huge, r)[Len(data) + 1]

\* The turn of file f in the loop of process_read; r.ok until it returns false.
ReadFile(m, d, f, from, size, huge, r) ==
    LET file     == m.files[f]
        filePos  == from + r.pos
        readSize == ReadSize(End(file) - filePos, Less(size, r.pos))
    IN  IF ~r.ok \/ filePos < file.begin THEN [r EXCEPT !.ok = FALSE]
        ELSE IF filePos > End(file) THEN r
        ELSE ReadUpTo(d[f], readSize, Plus(r.pos, readSize), huge,
                      [r EXCEPT !.at = filePos - file.begin])

NothingRead == [ok |-> TRUE, pos |-> 0, at |-> 0, block |-> <<>>]
ReadFiles(m, d, from, size, huge) ==
    Loop([f \in DOMAIN m.files |-> [r \in Result |-> ReadFile(m, d, f, from, size, huge, r)]],
         NothingRead, Len(m.files))

ProcessRead(m, d, from, size, huge) == ReadFiles(m, d, from, size, huge)[Len(m.files)]

------------------------------------------------------------------------------
StorageInit ==
    /\ stage = "given"
    /\ meta = NoMeta
    /\ disk = <<>> /\ bits = {} /\ slack = 0
    /\ reply = NoReply

\* registerFiles, which scans.
RegisterFiles(m) ==
    /\ stage = "given"
    /\ stage' = "open"
    /\ meta' = m
    /\ disk' \in OnDisk(m)
    /\ bits' = ScanPieces(m, disk')
    /\ slack' \in {0, 1}
    /\ UNCHANGED reply

\* Torrent::open returns false before, or the program ends.
Refuse ==
    /\ stage = "given"
    /\ stage' \in {"failed", "aborted"}
    /\ UNCHANGED <<meta, disk, bits, slack, reply>>

\* A piece that has passed its hash check is stored.
Store(i, data) ==
    /\ stage = "open"
    /\ disk' = ProcessWrite(meta, disk, i, data)
    /\ bits' = bits \cup {i}
    /\ reply' = NoReply
    /\ UNCHANGED <<stage, meta, slack>>

(***************************************************************************)
(* A block of a piece we have, if it passed is_read_eligible, is tried;    *)
(* one that process_read cannot serve stays queued.  What was read behind  *)
(* the block's end may have destroyed something: that may do no harm, or   *)
(* the program is not what it was.                                         *)
(***************************************************************************)
ReadBlock(i, begin, size, huge) ==
    LET read == ProcessRead(meta, disk, begin + PieceBegin(meta, i), size, huge) IN
    /\ stage = "open"
    /\ i \in bits
    /\ begin + size < PieceLength(meta, i)
    /\ \/ /\ reply' = [index |-> i, begin |-> begin, size |-> size, ok |-> read.ok,
                       block |-> SubSeq(read.block, 1, Smaller(size, Len(read.block)))]
          /\ UNCHANGED stage
       \/ /\ Len(read.block) > size
          /\ stage' = "damaged"
          /\ reply' = NoReply
    /\ UNCHANGED <<meta, disk, bits, slack>>

\* What the main thread and the worker do once a torrent is open.
Work ==
    \/ \E i \in Piece : \E data \in Matching(meta, i) : Store(i, data)
    \/ \E i \in bits, begin \in 0 .. meta.pieceLength - 1, size \in 1 .. meta.pieceLength,
          huge \in BOOLEAN : ReadBlock(i, begin, size, huge)

StorageNext ==
    \/ \E m \in Torrents : RegisterFiles(m)
    \/ Refuse
    \/ Work

StorageSpec == StorageInit /\ [][StorageNext]_storageVars

\* isFinished
Finished == BitCount(bits, meta.numPieces, slack) = meta.numPieces

\* compute_downloaded; for the last piece it tests the bit after the piece's own.
ComputeDownloaded ==
    LET last == meta.numPieces - 1 IN
    meta.pieceLength * Cardinality({i \in bits : i < last})
        + (IF last + 1 \in bits THEN PieceLength(meta, last) ELSE 0)

\* makeTrackerQuery
Remaining == meta.totalSize - ComputeDownloaded

------------------------------------------------------------------------------
(* Properties *)

(***************************************************************************)
(* How many of the first bytes of piece i a scan looks at: all, unless it  *)
(* is the last one, and a file that begins within the piece before ends    *)
(* within it.                                                              *)
(***************************************************************************)
Looked(m, i) ==
    {PieceLength(m, i)}
    \cup {End(m.files[f]) - PieceBegin(m, i) :
              f \in {g \in DOMAIN m.files :
                        /\ i = m.numPieces - 1
                        /\ Split(m, g) /\ FirstPiece(m, g) + 1 = i
                        /\ PieceBegin(m, i) <= End(m.files[g])
                        /\ End(m.files[g]) < PieceEnd(m, i)}}

\* Every piece marked complete is on disk at its place, in however many files
\* that is, as far as a scan looks, with bytes that match its hash; whether it was
\* found or stored, and whatever was stored after it (scan_file, process_write).
CompletedIsStored ==
    \A i \in bits : \E b \in Matching(meta, i), n \in Looked(meta, i) :
        Held(meta, disk, PieceBegin(meta, i), n) = SubSeq(b, 1, n)

\* When every file has its length the scan finds each piece that is there, except
\* that it may miss one that ends where a file ends (scan_file).
Whole(m, d) == \A f \in DOMAIN m.files : Len(d[f]) = m.files[f].length
ScanFindsWhatIsThere ==
    [][stage' = "open" /\ stage # "open" /\ Whole(meta', disk')
       => \A i \in 0 .. meta'.numPieces - 1 :
              \/ i \in bits'
              \/ Stored(meta', disk', i) \notin Matching(meta', i)
              \/ \E f \in DOMAIN meta'.files : PieceEnd(meta', i) = End(meta'.files[f])
      ]_storageVars

(***************************************************************************)
(* A block that is served is what the disk holds where it was asked for,   *)
(* and lies in one file.  When every file has its length, and less is left *)
(* of the file than an int can count, it is served if it lies inside one   *)
(* of the last two files and touches neither the file's beginning, unless  *)
(* it is the first, nor its end, unless it is the last (process_read).     *)
(***************************************************************************)
ReadsAreExact ==
    LET from  == PieceBegin(meta, reply.index) + reply.begin
        to    == from + reply.size
        count == Len(meta.files)
        In(f) == meta.files[f].begin <= from /\ to <= End(meta.files[f])
    IN  reply.size > 0 =>
            /\ reply.ok => /\ Len(reply.block) = reply.size
                           /\ reply.block = Held(meta, disk, from, reply.size)
                           /\ \E f \in DOMAIN meta.files : In(f)
            /\ Whole(meta, disk)
               /\ (\E f \in {count - 1, count} \cap DOMAIN meta.files :
                       /\ In(f)
                       /\ 2 * (End(meta.files[f]) - from) < IntSpace
                       /\ f > 1 => from > meta.files[f].begin
                       /\ f < count => to < End(meta.files[f]))
               => reply.ok

\* The bytes that are missing of the first n pieces.
Missing(m, have) ==
    Loop([n \in 1 .. m.numPieces |->
             [sum \in Nat |-> IF n - 1 \in have THEN sum ELSE sum + PieceLength(m, n - 1)]],
         0, m.numPieces)

\* Of an even number of pieces, isFinished holds exactly when all are complete; what
\* trackers are told is left is never less than is missing, and more by no more
\* than the last piece (bitset::count, compute_downloaded).
CountsAreRight ==
    stage = "open" =>
        /\ meta.numPieces % 2 = 0 => (Finished <=> bits = Piece)
        /\ Remaining - Missing(meta, bits)[meta.numPieces]
               \in 0 .. PieceLength(meta, meta.numPieces - 1)
==============================================================================
