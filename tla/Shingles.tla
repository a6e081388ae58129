------------------------------ MODULE Shingles -------------------------------
(***************************************************************************)
(* How native/src/lib.rs turns code into shingles: `disassemble' walks the *)
(* instructions of each section, `Shingles' packs every three consecutive  *)
(* roots of a run into a key, drops duplicates now and then, and           *)
(* `digest_of' decides whether there is a digest and sketches the keys.    *)
(*                                                                         *)
(* The decoder is external: it yields an instruction, of which only the    *)
(* mnemonic and whether control leaves the run matter, or finds none at a  *)
(* byte and resumes at the next.  `keys' is kept as its length and the set *)
(* of its elements, as the order of the keys never matters.                *)
(***************************************************************************)
EXTENDS Integers, FiniteSets, SequencesExt, Sketch

CONSTANTS
    Mnemonics,     \* mnemonics of the decoder, positive integers
    Root,          \* the vocabulary: the root id of each mnemonic
    COMPACT_FLOOR, \* keys held before the first compaction
    h64(_),        \* the hash of the names of the three roots of a key
    Length         \* bound: what the decoder yields, before the last section ends

NGRAM == 3
ROOTS == 128       \* 1 << ROOT_BITS
KEYS == ROOTS * ROOTS * ROOTS

ASSUME ShinglesAssumption ==
    /\ Mnemonics \subseteq Nat \ {0}
    /\ Root \in [Mnemonics -> 0 .. ROOTS - 1]
    /\ COMPACT_FLOOR \in Nat \ {0} /\ Length \in Nat
    /\ \A k \in 0 .. KEYS - 1 : h64(k) \in Nat

None == 0
Symbols == [kind : {"code"}, op : Mnemonics, ends : BOOLEAN]
NoCode == [kind |-> "invalid", op |-> None, ends |-> TRUE]
SectionEnd == [kind |-> "section", op |-> None, ends |-> TRUE]

VARIABLES
    input,               \* history: what the decoder yielded
    key, filled,         \* the roots of the run, the last three packed
    previous, repeated,  \* locals of disassemble
    stored, distinct,    \* keys.len() and its elements
    compactAt,           \* compact_at
    result               \* what digest_of returns

decoding == <<previous, repeated>>
keys == <<stored, distinct, compactAt>>
vars == <<input, key, filled, decoding, keys, result>>

Decoding == [some |-> "decoding", cardinality |-> 0, body |-> 0]
NoDigest == [Decoding EXCEPT !.some = "none"]
Digest(n, body) == [some |-> "digest", cardinality |-> n, body |-> body]

Init ==
    /\ input = <<>> /\ key = 0 /\ filled = 0
    /\ previous = None /\ repeated = 0
    /\ stored = 0 /\ distinct = {} /\ compactAt = COMPACT_FLOOR
    /\ result = Decoding

Larger(a, b) == IF a >= b THEN a ELSE b

\* Mutant: the key is not cut to three roots.
ShiftUnmasked(root) == key * ROOTS + root

Shift(root) == (key * ROOTS + root) % KEYS

\* Mutant: the next limit is taken from the list before it is compacted.
StoreThenLimit(k) ==
    /\ distinct' = distinct \cup {k}
    /\ IF stored + 1 >= compactAt
       THEN /\ stored' = Cardinality(distinct')
            /\ compactAt' = Larger(2 * (stored + 1), COMPACT_FLOOR)
       ELSE stored' = stored + 1 /\ compactAt' = compactAt

\* A full window is stored, and the list compacted when it reached its limit.
Store(k) ==
    /\ distinct' = distinct \cup {k}
    /\ IF stored + 1 >= compactAt
       THEN /\ stored' = Cardinality(distinct')
            /\ compactAt' = Larger(2 * stored', COMPACT_FLOOR)
       ELSE stored' = stored + 1 /\ compactAt' = compactAt

\* push, then end_run when `ends'.
Push(root, ends) ==
    /\ key' = Shift(root)
    /\ filled' = IF ends THEN 0 ELSE filled + 1
    /\ IF filled + 1 >= NGRAM THEN Store(key') ELSE UNCHANGED keys

Read(symbol) ==
    /\ result = Decoding
    /\ Len(input) < Length + (IF symbol = SectionEnd THEN 1 ELSE 0)
    /\ input' = Append(input, symbol)
    /\ UNCHANGED result

\* An instruction: a mnemonic counts three times in a row at most.
Decode(op, ends) ==
    /\ Read([kind |-> "code", op |-> op, ends |-> ends])
    /\ repeated' = IF previous = op THEN repeated + 1 ELSE 1
    /\ previous' = IF ends THEN None ELSE op
    /\ IF repeated' <= NGRAM THEN Push(Root[op], ends)
       ELSE /\ filled' = IF ends THEN 0 ELSE filled
            /\ UNCHANGED <<key, keys>>

\* Mutant: end_run forgets to empty the window.
KeepRun == UNCHANGED <<key, filled, keys>>

\* end_run; the packed roots stay behind in key.
EndRun == filled' = 0 /\ UNCHANGED <<key, keys>>

\* A byte where no instruction starts.
Resume ==
    /\ Read(NoCode)
    /\ previous' = None
    /\ EndRun
    /\ UNCHANGED repeated

\* The section ends; the next call of disassemble starts with new locals.
EndSection ==
    /\ Read(SectionEnd)
    /\ previous' = None /\ repeated' = 0
    /\ EndRun

\* root_ids
RootIds(k) == {k \div (ROOTS * ROOTS), (k \div ROOTS) % ROOTS, k % ROOTS}

SectionsRead == result = Decoding /\ (input # <<>> => Last(input) = SectionEnd)

\* Mutant: finish does not compact.
FinishUncompacted ==
    /\ SectionsRead
    /\ result' = IF Cardinality(UNION {RootIds(k) : k \in distinct}) < 2 THEN NoDigest
                 ELSE Digest(stored, SketchOf({h64(k) % MODULUS : k \in distinct}))
    /\ UNCHANGED <<input, key, filled, decoding, keys>>

\* finish, and one root alone is too little to tell programs apart.
Finish ==
    /\ SectionsRead
    /\ stored' = Cardinality(distinct)
    /\ result' = IF Cardinality(UNION {RootIds(k) : k \in distinct}) < 2 THEN NoDigest
                 ELSE Digest(stored', SketchOf({h64(k) % MODULUS : k \in distinct}))
    /\ UNCHANGED <<input, key, filled, decoding, distinct, compactAt>>

Next ==
    \/ \E op \in Mnemonics, ends \in BOOLEAN : Decode(op, ends)
    \/ Resume \/ EndSection \/ Finish

Spec == Init /\ [][Next]_vars
-----------------------------------------------------------------------------
(* What the shingles of an input are, said of the input as a whole.        *)

IsCode(i) == input[i].kind = "code"

\* Positions i and j lie in one run: nothing from i up to j ends it.
OneRun(i, j) ==
    /\ i <= j
    /\ \A m \in i .. j : IsCode(m)
    /\ \A m \in i .. j - 1 : ~input[m].ends

\* The instruction is not the fourth or later of one mnemonic in a row.
Kept(i) ==
    /\ IsCode(i)
    /\ ~ /\ i > NGRAM /\ OneRun(i - NGRAM, i)
         /\ \A m \in i - NGRAM .. i : input[m].op = input[i].op

\* j is the next kept instruction after i in its run.
Follows(i, j) ==
    /\ i < j /\ OneRun(i, j) /\ Kept(i) /\ Kept(j)
    /\ \A m \in i + 1 .. j - 1 : ~Kept(m)

RootAt(i) == Root[input[i].op]

Successors(i) == {j \in i + 1 .. Len(input) : Follows(i, j)}

Windows ==
    UNION {UNION {{<<RootAt(i), RootAt(j), RootAt(k)>> :
        k \in Successors(j)} : j \in Successors(i)} : i \in 1 .. Len(input)}

Pack(w) == (w[1] * ROOTS + w[2]) * ROOTS + w[3]
-----------------------------------------------------------------------------
(* Properties                                                              *)

TypeOK ==
    /\ input \in Seq(Symbols \cup {NoCode, SectionEnd})
    /\ key \in 0 .. KEYS - 1 /\ filled \in 0 .. Length
    /\ previous \in Mnemonics \cup {None} /\ repeated \in 0 .. Length
    /\ stored \in Nat /\ distinct \subseteq 0 .. KEYS - 1 /\ compactAt \in Nat
    /\ result.some \in {"decoding", "none", "digest"} /\ result.cardinality \in Nat

\* The keys are the windows of three kept roots of one run, no more and no
\* fewer: what key keeps of an earlier run or section never enters a shingle,
\* and a compaction in between loses none.
ShinglesExact == distinct = {Pack(w) : w \in Windows}

\* The list of keys never holds more than twice what it must, beyond the
\* floor, and always stays below the length that compacts it.
KeysBounded ==
    /\ Cardinality(distinct) <= stored
    /\ stored <= Larger(COMPACT_FLOOR, 2 * Cardinality(distinct))
    /\ stored < compactAt

\* The cardinality in the digest is the number of different windows, counted
\* before packing, and there is no digest exactly when they are all made of
\* one root.
DigestFaithful ==
    result # Decoding =>
        LET used == UNION {{w[1], w[2], w[3]} : w \in Windows} IN
        IF Cardinality(used) < 2 THEN result = NoDigest
        ELSE result.some = "digest" /\ result.cardinality = Cardinality(Windows)

\* What digest.py reads back from a digest are, slot for slot, the low bits of
\* the least a * h + b modulo MODULUS over all windows of the input: no
\* reduction, packing or number of the text comes in between (lib.rs:181-219,
\* digest.py:66-75).
SketchFaithful ==
    result.some = "digest" =>
        \A i \in 1 .. PERMUTATIONS :
            LET values == {(Coefficients[i][1] * h64(Pack(w)) + Coefficients[i][2]) % MODULUS :
                              w \in Windows}
            IN  \E least \in values : /\ \A v \in values : least <= v
                                      /\ Unpack(result.body)[i] = least % SLOTS
=============================================================================
