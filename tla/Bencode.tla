-------------------------------- MODULE Bencode --------------------------------
(***************************************************************************)
(* Bencode (bencode/decoder.cpp, encoder.cpp, bencode.h): the reader of    *)
(* torrent files, and the writer whose output is hashed into the info      *)
(* hash.  A buffer is a sequence of bytes; a position is the index of the  *)
(* next byte (m_pos + 1).  A byte is a string: the letters and digits of   *)
(* the format are themselves, any other text the program does not look     *)
(* into (a key, a name) is one byte.                                       *)
(***************************************************************************)
EXTENDS Integers, Sequences, SequencesExt

CONSTANTS
    Alphabet,   \* the bytes, as a sequence in the order of char
    Word        \* 2^64

ASSUME BencodeAssumption == Word \in Nat /\ Word > 10

Digit == <<"0", "1", "2", "3", "4", "5", "6", "7", "8", "9">>

\* A boost::any and the type of what it holds: uint, str, list or dict.
Str(s)  == [kind |-> "str", val |-> s]
Dict(d) == [kind |-> "dict", val |-> d]

NoKeys == <<>>      \* the dictionary without an entry

\* What a reader returns, and the position it leaves.  At position 0 it has not
\* returned: it indexed the buffer past its end and the assertion there failed, or
\* it copied more than there is memory.
Read(v, pos) == [val |-> v, pos |-> pos]
Aborts == 0

------------------------------------------------------------------------------
(* The reader *)

(***************************************************************************)
(* operator>> on a uint64_t: the digits up to the first other byte, none   *)
(* counting as 0 and a minus sign negating modulo 2^64.                    *)
(***************************************************************************)
Number(text) ==
    LET negative == text # <<>> /\ Head(text) = "-"
        rest     == IF negative THEN Tail(text) ELSE text
        IsDigit(c) == \E k \in DOMAIN Digit : Digit[k] = c
        after    == {k \in DOMAIN rest : ~IsDigit(rest[k])}
        digits   == IF after = {} THEN rest ELSE SubSeq(rest, 1, Min(after) - 1)
        Next(n, c) == 10 * n + (CHOOSE k \in DOMAIN Digit : Digit[k] = c) - 1
        n        == FoldLeft(Next, 0, digits)
    IN  IF n >= Word THEN Word - 1 ELSE IF negative THEN (Word - n) % Word ELSE n

\* readIntUntil: without the byte anywhere ahead the test m_buffer[pos] != byte
\* is made at the buffer's end.
ReadIntUntil(b, p, byte) ==
    LET found == {q \in p .. Len(b) : b[q] = byte} IN
    IF found = {}
    THEN Read(0, Aborts)
    ELSE Read(Number(SubSeq(b, p, Min(found) - 1)), Min(found) + 1)

(***************************************************************************)
(* readString.  A text longer than what is left is read as the empty one,  *)
(* with the position after its length.  The sum len + m_pos wraps: a       *)
(* length near 2^64 passes the test, and the memcpy of that many bytes     *)
(* ends the program.  So does &m_buffer[m_pos] at the end of the buffer.   *)
(***************************************************************************)
ReadString(b, p) ==
    LET len == ReadIntUntil(b, p, ":")
        end == (len.val + len.pos - 1) % Word
    IN  IF len.pos = Aborts \/ end > Len(b) THEN Read(<<>>, len.pos)
        ELSE IF end < len.pos - 1 \/ len.pos > Len(b) THEN Read(<<>>, Aborts)
        ELSE Read(SubSeq(b, len.pos, end), end + 1)

RECURSIVE ReadVector(_, _, _), ReadDictionary(_, _, _)

\* The switch on the first byte of a value.
Tagged(kind, r) == Read([kind |-> kind, val |-> r.val], r.pos)
ReadValue(b, p) ==
    CASE b[p] = "i" -> Tagged("uint", ReadIntUntil(b, p + 1, "e"))
      [] b[p] = "l" -> Tagged("list", ReadVector(b, p + 1, <<>>))
      [] b[p] = "d" -> Tagged("dict", ReadDictionary(b, p + 1, NoKeys))
      [] OTHER      -> Tagged("str", ReadString(b, p))

\* readVector from position p, `v' being read; it also ends with the buffer.
AfterItem(b, v, item) == ReadVector(b, item.pos, Append(v, item.val))
ReadVector(b, p, v) ==
    IF p = Aborts \/ p > Len(b) THEN Read(v, p)
    ELSE IF b[p] = "e" THEN Read(v, p + 1)
    ELSE AfterItem(b, v, ReadValue(b, p))

(***************************************************************************)
(* readDictionary from position p, `d' being read.  It looks for the end   *)
(* only after an entry: the `e' of an empty dictionary is taken for the    *)
(* length of a key, and a key that cannot be read, or is empty, empties    *)
(* what was read so far.                                                   *)
(***************************************************************************)
Put(d, key, value) ==
    [k \in DOMAIN d \cup {key} |-> IF k = key THEN value ELSE d[k]]
AfterValue(b, d, key, item) ==
    IF item.pos = Aborts \/ item.pos > Len(b) THEN Read(NoKeys, item.pos)
    ELSE IF b[item.pos] = "e" THEN Read(Put(d, key, item.val), item.pos + 1)
    ELSE ReadDictionary(b, item.pos, Put(d, key, item.val))
AfterKey(b, d, key) ==
    IF key.pos = Aborts \/ key.val = <<>> \/ key.pos > Len(b)
    THEN Read(NoKeys, key.pos)
    ELSE AfterValue(b, d, key.val, ReadValue(b, key.pos))
ReadDictionary(b, p, d) == AfterKey(b, d, ReadString(b, p))

\* decode: the leading `d' is not part of the buffer.
Buffered(file) == Tail(file)
Decode(file) ==
    IF Head(file) # "d" THEN Read(NoKeys, 1)
    ELSE ReadDictionary(Buffered(file), 1, NoKeys)

------------------------------------------------------------------------------
(* The writer *)

\* std::to_string
RECURSIVE DecimalText(_)
DecimalText(n) ==
    IF n < 10 THEN <<Digit[n + 1]>> ELSE DecimalText(n \div 10) \o <<Digit[(n % 10) + 1]>>

WriteString(s) == DecimalText(Len(s)) \o <<":">> \o s

\* The order of std::map's keys.
Rank(c) == CHOOSE k \in DOMAIN Alphabet : Alphabet[k] = c
Before(s, t) ==
    \/ IsStrictPrefix(s, t)
    \/ \E k \in DOMAIN s \cap DOMAIN t :
           /\ SubSeq(s, 1, k - 1) = SubSeq(t, 1, k - 1)
           /\ Rank(s[k]) < Rank(t[k])
Keys(d) == SetToSortSeq(DOMAIN d, Before)

\* writeType
RECURSIVE WriteType(_)
WriteType(any) ==
    CASE any.kind = "uint" -> <<"i">> \o DecimalText(any.val) \o <<"e">>
      [] any.kind = "str"  -> WriteString(any.val)
      [] any.kind = "list" ->
            <<"l">> \o FlattenSeq([k \in DOMAIN any.val |-> WriteType(any.val[k])]) \o <<"e">>
      [] any.kind = "dict" ->
            LET entry(key) == WriteString(key) \o WriteType(any.val[key])
            IN  <<"d">> \o FlattenSeq([k \in DOMAIN Keys(any.val) |-> entry(Keys(any.val)[k])])
                        \o <<"e">>

\* encode appends to what was read, and buffer(pos) is what stands from there on.
Encode(b, p, d) == SubSeq(b, 1, p - 1) \o WriteType(Dict(d))

\* Mutant: the whole buffer, whatever the position.
BufferFrom_All(b, p) == b
BufferFrom(b, p) == SubSeq(b, p, Len(b))
==============================================================================
