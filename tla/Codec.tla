------------------------------- MODULE Codec --------------------------------
(***************************************************************************)
(* The byte formats of the store: the keys under which raft's state is     *)
(* kept (raftstore/meta/key.go), and the list of pairs that a snapshot     *)
(* carries (storage/pair.go).  A byte string is a sequence of numbers      *)
(* below Base.  An index takes IndexWidth bytes and a length SizeWidth     *)
(* bytes (256, 8 and 4 in the code), the least significant byte first.     *)
(***************************************************************************)
EXTENDS Integers, Sequences, SequencesExt

CONSTANTS Base, IndexWidth, SizeWidth

ASSUME CodecAssumption ==
    /\ Base \in Nat /\ Base > 4
    /\ IndexWidth \in Nat \ {0}
    /\ SizeWidth \in Nat \ {0}

\* n, and n shifted right by one byte after the other.
Shifts(n, w) == LET s[d \in 0..w] == IF d = 0 THEN n ELSE s[d - 1] \div Base IN s

\* PutUint64 and PutUint32: what does not fit into w bytes is cut off.
LittleEndian(n, w) == [d \in 1..w |-> Shifts(n, w)[d - 1] % Base]

Fits(n, w) == Shifts(n, w)[w] = 0

\* Uint32: the number in the first w bytes of s.
FromLittleEndian(s, w) ==
    LET v[d \in 0..w] == IF d = 0 THEN 0 ELSE s[w - d + 1] + Base * v[d - 1] IN v[w]
-----------------------------------------------------------------------------
(* raftstore/meta/key.go *)

buildMetaKey(kind) == <<kind>>

\* Mutant: one byte for the index.
ShortKey(index) == buildMetaKey(1) \o LittleEndian(index, 1)

RaftLogEntryKey(index) == buildMetaKey(1) \o LittleEndian(index, IndexWidth)

RaftLocalStateKey == buildMetaKey(2)

RaftApplyStateKey == buildMetaKey(3)

RaftConfStateKey == buildMetaKey(4)
-----------------------------------------------------------------------------
(* storage/pair.go *)

Header == 2 * SizeWidth

encode(p) ==
    LET ksize == Len(p.key)
        vsize == Len(p.val)
    IN LittleEndian(ksize + vsize + Header, SizeWidth)
         \o LittleEndian(ksize, SizeWidth) \o p.key \o p.val

Encode(pairs) ==
    LET buf[i \in 0..Len(pairs)] == IF i = 0 THEN <<>> ELSE buf[i - 1] \o encode(pairs[i])
    IN buf[Len(pairs)]

decode(enc) ==
    LET ksize == FromLittleEndian(SubSeq(enc, SizeWidth + 1, Header), SizeWidth)
    IN [key |-> SubSeq(enc, Header + 1, Header + ksize),
        val |-> SubSeq(enc, Header + ksize + 1, Len(enc))]

\* One pass of the loop of Decode.
DecodeNext(encs, st) ==
    IF st.offset < Len(encs)
    THEN LET i == FromLittleEndian(SubSeq(encs, st.offset + 1, Len(encs)), SizeWidth)
         IN [offset |-> st.offset + i,
             pairs |-> Append(st.pairs, decode(SubSeq(encs, st.offset + 1, st.offset + i)))]
    ELSE st

\* A pass takes a byte at least: after as many passes as there are bytes it has ended.
Decode(encs) ==
    LET loop[n \in 0..Len(encs)] == IF n = 0 THEN [offset |-> 0, pairs |-> <<>>]
                                    ELSE DecodeNext(encs, loop[n - 1])
    IN loop[Len(encs)].pairs
=============================================================================
