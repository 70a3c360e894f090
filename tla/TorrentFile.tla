------------------------------ MODULE TorrentFile ------------------------------
(***************************************************************************)
(* Torrent::open (ctorrent/torrent.cpp) on a given torrent file: it is     *)
(* decoded and parsed, the info dictionary is hashed, and what comes out   *)
(* is the layout with which Storage goes on.                               *)
(***************************************************************************)
EXTENDS Storage, TorrentMeta

CONSTANT Inputs     \* torrent files: their bytes, and the info dictionary's

VARIABLES
    input,      \* the torrent file
    checkSum    \* m_checkSum: the bytes it is of

fileVars == <<input, checkSum, storageVars>>

FileInit == StorageInit /\ input \in Inputs /\ checkSum = <<>>

\* Parse, then registerFiles.
Open ==
    LET read == Decode(input.bytes) IN
    /\ stage = "given"
    /\ read.pos # Aborts
    /\ Parses(read.val)
    /\ RegisterFiles(Layout(read.val))
    /\ checkSum' = CheckSum(read.val, Buffered(input.bytes), read.pos)
    /\ UNCHANGED input

OpenFails ==
    LET read == Decode(input.bytes) IN
    /\ stage = "given"
    /\ read.pos = Aborts \/ ~Parses(read.val)
    /\ Refuse
    /\ stage' = IF read.pos = Aborts THEN "aborted" ELSE "failed"
    /\ UNCHANGED <<input, checkSum>>

FileNext == Open \/ OpenFails \/ (Work /\ UNCHANGED <<input, checkSum>>)

FileSpec == FileInit /\ [][FileNext]_fileVars

------------------------------------------------------------------------------
(* Properties *)

\* The info hash is taken of the very bytes the info dictionary has in the
\* file, although it is decoded and written again, if these are in canonical
\* form (internalParse).
InfoHashIsOriginal ==
    stage = "open" /\ input.canonical => checkSum = input.info

\* What is opened is one of the torrents Storage is about: its files follow each
\* other without a gap and its pieces cover them (internalParse, parseFile).  What is
\* done with it then is Work in both, so FileSpec implements StorageSpec.
OpenImplementsStorage ==
    [][stage # "open" => (\E m \in Torrents : RegisterFiles(m)) \/ Refuse]_storageVars
==============================================================================
