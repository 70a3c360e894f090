------------------------------ MODULE MCStorage ------------------------------
(***************************************************************************)
(* Torrent files for TorrentFile, written out byte by byte: every layout   *)
(* in Layouts as a list of files, and some of them in other forms; and the *)
(* layouts they must come out as.                                          *)
(***************************************************************************)
EXTENDS TorrentFile

CONSTANTS Layouts, PieceBytes

MCAlphabet ==
    <<"-">> \o Digit \o
    <<":", "announce", "announce-list", "d", "e", "files", "h", "i", "info", "l", "length",
      "n", "name", "path", "piece length", "pieces", "u">>

Key(k) == <<"1", ":", k>>
Num(n) == <<"i">> \o DecimalText(n) \o <<"e">>
Text(s) == DecimalText(Len(s)) \o <<":">> \o s

Sum(lengths) == FoldLeft(LAMBDA a, b : a + b, 0, lengths)
Hashes(lengths) ==
    [k \in 1 .. SumLength * ((Sum(lengths) + PieceBytes - 1) \div PieceBytes) |-> "h"]

FileEntry(n) ==
    <<"d">> \o Key("length") \o Num(n) \o Key("path") \o <<"l">> \o Text(<<"n">>) \o <<"e", "e">>

Tail3(lengths) ==
    Key("name") \o Text(<<"n">>) \o Key("piece length") \o Num(PieceBytes)
        \o Key("pieces") \o Text(Hashes(lengths)) \o <<"e">>

ListInfo(lengths) ==
    <<"d">> \o Key("files") \o <<"l">>
        \o FlattenSeq([k \in DOMAIN lengths |-> FileEntry(lengths[k])]) \o <<"e">> \o Tail3(lengths)
DictInfo(lengths) ==
    <<"d">> \o Key("files") \o <<"d">>
        \o FlattenSeq([k \in DOMAIN lengths |-> Key(Digit[k]) \o FileEntry(lengths[k])])
        \o <<"e">> \o Tail3(lengths)
OneInfo(n) == <<"d">> \o Key("length") \o Num(n) \o Tail3(<<n>>)

\* The same with the keys out of order, a leading zero, an empty dictionary, or a
\* name whose length takes the sum past 2^64.
UnsortedInfo(n) ==
    <<"d">> \o Key("name") \o Text(<<"n">>) \o Key("length") \o Num(n)
        \o Key("piece length") \o Num(PieceBytes) \o Key("pieces") \o Text(Hashes(<<n>>)) \o <<"e">>
ZeroInfo(n) == <<"d">> \o Key("length") \o <<"i", "0">> \o DecimalText(n) \o <<"e">> \o Tail3(<<n>>)
EmptyInfo(n) ==
    <<"d">> \o Key("files") \o <<"d", "e">> \o Key("length") \o Num(n) \o Tail3(<<n>>)
HugeInfo(n) ==
    <<"d">> \o Key("length") \o Num(n) \o Key("name") \o DecimalText(Word - 1) \o <<":", "n">>
        \o Key("piece length") \o Num(PieceBytes) \o Key("pieces") \o Text(Hashes(<<n>>)) \o <<"e">>

Torrent(info, canonical) ==
    [bytes |-> <<"d">> \o Key("announce") \o Text(<<"u">>)
                  \o Key("announce-list") \o <<"l", "l">> \o Text(<<"u">>) \o <<"e", "e">>
                  \o Key("info") \o info \o <<"e">>,
     info |-> info, canonical |-> canonical]

\* Cut off after some bytes, as a download that broke off leaves it.
Cut(t, n) == [t EXCEPT !.bytes = SubSeq(@, 1, n), !.canonical = FALSE]

MCInputs ==
    LET whole == {Torrent(ListInfo(l), TRUE) : l \in Layouts}
                     \cup {Torrent(DictInfo(<<5, 4>>), TRUE)}
                     \cup {Torrent(OneInfo(n), TRUE) : n \in {4, 7, 14}}
        one == Torrent(OneInfo(7), TRUE)
    IN  whole
        \cup {Torrent(f, FALSE) : f \in {UnsortedInfo(7), ZeroInfo(7), EmptyInfo(7), HugeInfo(7)}}
        \cup {Cut(one, n) : n \in 1 .. Len(one.bytes) - 1}

MCLayouts ==
    UNION {[1 .. n -> {1, 3, 4, 6}] : n \in 1 .. 2} \cup [1 .. 3 -> {1, 4}]
        \cup {<<3, 3, 3>>, <<6, 3, 1>>, <<6, 5, 1, 2>>, <<3, 5, 2, 6>>, <<2, 4, 2>>}

\* Files of these lengths, one behind the other.
InOrder(lengths) ==
    [pieceLength |-> PieceBytes,
     numPieces   |-> (Sum(lengths) + PieceBytes - 1) \div PieceBytes,
     totalSize   |-> Sum(lengths),
     files       |-> [k \in DOMAIN lengths |->
                         FileInfo(<<Str(<<"n">>)>>, Sum(SubSeq(lengths, 1, k - 1)), lengths[k])]]
MCTorrents == {InOrder(l) : l \in Layouts \cup {<<5, 4>>, <<4>>, <<7>>, <<14>>}}

\* What the torrent has at each offset: of one layout the same everywhere.
Byte(m, o) == IF m = InOrder(<<2, 4, 2>>) THEN 0 ELSE o + 1
Wrong == 255

\* The bytes of the piece; of the first one also others agree in five bytes of the
\* digest.
MCMatching(m, i) ==
    LET genuine == [k \in 1 .. PieceLength(m, i) |-> Byte(m, PieceBegin(m, i) + k - 1)] IN
    {genuine} \cup {[genuine EXCEPT ![1] = Wrong - 1] : j \in {0} \cap {i}}

\* What earlier runs may have left of the files: each may be new, a byte short
\* or whole, and the bytes of one piece may be wrong.
Left(file, kept, wrong, m) ==
    [k \in 1 .. kept |-> LET o == file.begin + k - 1 IN
                         IF o \div m.pieceLength = wrong THEN Wrong ELSE Byte(m, o)]
MCOnDisk(m) ==
    LET kept(f) == {0, m.files[f].length - 1, m.files[f].length}
        lengths == {l \in [DOMAIN m.files -> 0 .. m.totalSize] :
                        \A f \in DOMAIN l : l[f] \in kept(f)}
    IN  {[f \in DOMAIN m.files |-> Left(m.files[f], l[f], wrong, m)] :
            l \in lengths, wrong \in -1 .. m.numPieces - 1}
==============================================================================
