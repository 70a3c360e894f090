------------------------------ MODULE TorrentMeta ------------------------------
(***************************************************************************)
(* TorrentMeta::internalParse and parseFile (ctorrent/torrentmeta.cpp):    *)
(* from the decoded dictionary of a torrent file to the layout the file    *)
(* manager works with, and to the bytes the info hash is taken of.         *)
(***************************************************************************)
EXTENDS Bencode

CONSTANT SumLength      \* bytes of a hash in "pieces": 20

ASSUME TorrentMetaAssumption == SumLength \in Nat \ {0}

\* dict[key], which is an empty boost::any where the key is missing, and
\* Bencode::cast of it: T() if it does not hold a T.
Holds(d, key, kind) == <<key>> \in DOMAIN d /\ d[<<key>>].kind = kind
Count(d, key) == <<key>> \in DOMAIN d
CastUint(d, key) == IF Holds(d, key, "uint") THEN d[<<key>>].val ELSE 0
CastStr(d, key)  == IF Holds(d, key, "str") THEN d[<<key>>].val ELSE <<>>
CastList(d, key) == IF Holds(d, key, "list") THEN d[<<key>>].val ELSE <<>>
CastDict(any)    == IF any.kind = "dict" THEN any.val ELSE NoKeys

\* The files, in the order their bytes follow each other in the pieces.
FileInfo(path, begin, length) == [path |-> path, begin |-> begin, length |-> length]

TotalSize(files) == FoldLeft(LAMBDA sum, f : sum + f.length, 0, files)

\* Mutant: `begin' is not moved on.
ParseFile_SameBegin(files, v) ==
    Append(files, FileInfo(CastList(v, "path"), 0, CastUint(v, "length")))

\* parseFile; index is the place in the sequence, begin the sum so far.
ParseFile(files, v) ==
    Append(files, FileInfo(CastList(v, "path"), TotalSize(files), CastUint(v, "length")))

\* The entries of "files", a list or a dictionary in the order of its keys.
FileEntries(info) ==
    IF Holds(info, "files", "list") THEN CastList(info, "files")
    ELSE LET d == info[<<"files">>].val IN [k \in DOMAIN Keys(d) |-> d[Keys(d)[k]]]

Files(info) ==
    IF Count(info, "files")
    THEN FoldLeft(LAMBDA files, any : ParseFile(files, CastDict(any)), <<>>, FileEntries(info))
    ELSE <<FileInfo(<<Str(CastStr(info, "name"))>>, 0, CastUint(info, "length"))>>

\* The conditions of internalParse's early returns, in their order.
Parses(dict) ==
    LET info == IF Count(dict, "info") THEN CastDict(dict[<<"info">>]) ELSE NoKeys IN
    /\ Count(dict, "announce")
    /\ DOMAIN info # {}
    /\ Count(info, "pieces") /\ Count(info, "piece length")
    /\ IF Count(info, "files")
       THEN Holds(info, "files", "list") \/ Holds(info, "files", "dict")
       ELSE CastUint(info, "length") # 0

\* What internalParse keeps of the dictionary `dict', read from b up to p: the
\* info dictionary is written behind it and that is hashed.
CheckSum(dict, b, p) == BufferFrom(Encode(b, p, CastDict(dict[<<"info">>])), p)

Layout(dict) ==
    LET info == CastDict(dict[<<"info">>])
        sums == Len(CastStr(info, "pieces"))
    IN  [pieceLength |-> CastUint(info, "piece length"),
         numPieces   |-> (sums + SumLength - 1) \div SumLength,
         totalSize   |-> TotalSize(Files(info)),
         files       |-> Files(info)]
==============================================================================
