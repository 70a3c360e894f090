-------------------------------- MODULE Bitset --------------------------------
(***************************************************************************)
(* bitset::count (util/bitset.h).  A set of m_size bits has m_size BYTES,  *)
(* of which the bits take the first eighth; count() goes over them eight,  *)
(* four, two and one at a time.                                            *)
(***************************************************************************)
EXTENDS Integers, FiniteSets

\* The bytes left after the loop and after each `if'; -1 is one too many read.
AfterEights(size) == size - 8 * ((size + 1) \div 8)
AfterFour(size) == IF AfterEights(size) >= 3 THEN AfterEights(size) - 4 ELSE AfterEights(size)
AfterTwo(size)  == IF AfterFour(size) >= 1 THEN AfterFour(size) - 2 ELSE AfterFour(size)

\* Mutant: src <= dst
AfterOne_Off(size) == IF AfterTwo(size) >= 0 THEN AfterTwo(size) - 1 ELSE AfterTwo(size)
AfterOne(size) == IF AfterTwo(size) > 0 THEN AfterTwo(size) - 1 ELSE AfterTwo(size)

BytesRead(size) == size - AfterOne(size)

\* count(): the bits set in the bytes read, `slack' of them in the byte past the
\* end, which belongs to no one.
BitCount(bits, size, slack) ==
    Cardinality({i \in bits : i \div 8 < BytesRead(size)})
        + (IF BytesRead(size) > size THEN slack ELSE 0)
==============================================================================
