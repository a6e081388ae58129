--------------------------- MODULE ShinglesProofs ----------------------------
(***************************************************************************)
(* Proofs about Shingles, for inputs of any length over any vocabulary.    *)
(* The invariant ties the few numbers that the code keeps to the input as  *)
(* a whole: `repeated' to the instructions before, `filled' and `key' to   *)
(* the last ones kept of the run that is still open.                       *)
(***************************************************************************)
EXTENDS Shingles, Induction, FunctionTheorems

AllSymbols == Symbols \cup {NoCode, SectionEnd}
-----------------------------------------------------------------------------
(* The input grows at its end only.                                        *)

\* What is said of instructions read before does not change.
LEMMA Before ==
    ASSUME input \in Seq(AllSymbols), NEW s \in AllSymbols, input' = Append(input, s),
           NEW i \in 1 .. Len(input), NEW j \in 1 .. Len(input)
    PROVE  /\ OneRun(i, j)' = OneRun(i, j)
           /\ Kept(i)' = Kept(i)
           /\ Follows(i, j)' = Follows(i, j)
           /\ RootAt(i)' = RootAt(i)
<1>1. /\ Len(input) \in Nat /\ Len(input') = Len(input) + 1
      /\ \A k \in 1 .. Len(input) : input'[k] = input[k]
    OBVIOUS
<1>2. ASSUME NEW a \in 1 .. Len(input), NEW b \in 1 .. Len(input)
      PROVE  OneRun(a, b)' = OneRun(a, b)
    <2>1. (\A m \in a .. b : IsCode(m))' = (\A m \in a .. b : IsCode(m))
        BY <1>1, <1>2 DEF IsCode
    <2>2. (\A m \in a .. b - 1 : ~input[m].ends)' = (\A m \in a .. b - 1 : ~input[m].ends)
        BY <1>1, <1>2
    <2> QED
        BY <2>1, <2>2 DEF OneRun
<1>3. ASSUME NEW a \in 1 .. Len(input) PROVE Kept(a)' = Kept(a)
    <2>1. CASE a > NGRAM
        <3>1. a - NGRAM \in 1 .. Len(input)
            BY <1>1, <1>3, <2>1 DEF NGRAM
        <3>2. OneRun(a - NGRAM, a)' = OneRun(a - NGRAM, a)
            BY <1>2, <1>3, <3>1
        <3>3. (\A m \in a - NGRAM .. a : input[m].op = input[a].op)'
                 = (\A m \in a - NGRAM .. a : input[m].op = input[a].op)
            BY <1>1, <1>3, <3>1
        <3> QED
            BY <1>1, <1>3, <3>2, <3>3 DEF Kept, IsCode
    <2>2. CASE ~(a > NGRAM)
        BY <1>1, <1>3, <2>2 DEF Kept, IsCode
    <2> QED
        BY <2>1, <2>2
<1>4. (\A m \in i + 1 .. j - 1 : ~Kept(m))' = (\A m \in i + 1 .. j - 1 : ~Kept(m))
    <2>1. \A m \in i + 1 .. j - 1 : m \in 1 .. Len(input)
        BY <1>1
    <2> QED
        BY <1>3, <2>1
<1>5. Follows(i, j)' = Follows(i, j)
    BY <1>2, <1>3, <1>4 DEF Follows
<1> QED
    BY <1>1, <1>2, <1>3, <1>5 DEF RootAt
-----------------------------------------------------------------------------
(* Types, and the list of keys.                                            *)

\* How far the counts can get: no further than the input.
Counts ==
    /\ Len(input) \in 0 .. Length + 1
    /\ filled <= Len(input) /\ repeated <= Len(input)
    /\ Len(input) = Length + 1 => filled = 0 /\ repeated = 0
    /\ previous # None => repeated >= 1

\* The limit was set from as many keys as there still are, or fewer.
Limited ==
    /\ Cardinality(distinct) <= stored /\ stored < compactAt
    /\ compactAt >= COMPACT_FLOOR
    /\ compactAt = COMPACT_FLOOR \/ compactAt <= 2 * Cardinality(distinct)

\* Three roots of seven bits make a key of twenty-one.
LEMMA Widths ==
    /\ ROOTS \in Nat /\ ROOTS >= 2 /\ ROOTS * ROOTS \in Nat
    /\ KEYS \in Nat \ {0} /\ KEYS = ROOTS * ROOTS * ROOTS
BY SMT DEF KEYS, ROOTS

\* A set of keys is finite.
LEMMA KeysFinite ==
    ASSUME NEW K \in SUBSET (0 .. KEYS - 1)
    PROVE  IsFiniteSet(K) /\ Cardinality(K) \in Nat
<1>1. KEYS - 1 \in Int
    BY Widths
<1>2. IsFiniteSet(0 .. KEYS - 1)
    BY <1>1, FS_Interval
<1> QED
    BY <1>2, FS_Subset, FS_CardinalityType

\* The limits hold for the empty list.
LEMMA ListInit == Init => TypeOK /\ Counts /\ Limited
<1> SUFFICES ASSUME Init PROVE TypeOK /\ Counts /\ Limited
    OBVIOUS
<1>1. Cardinality(distinct) = 0
    BY FS_EmptySet DEF Init
<1>2. 0 \in 0 .. KEYS - 1
    BY Widths
<1>3. TypeOK
    BY <1>2, ShinglesAssumption DEF Init, TypeOK, Decoding
<1> QED
    BY <1>1, <1>3, ShinglesAssumption DEF Init, Counts, Limited

\* A key is stored, and the list compacted when it reached its limit.
LEMMA StoreKeeps ==
    ASSUME TypeOK, Limited, NEW k \in 0 .. KEYS - 1, Store(k)
    PROVE  /\ Limited' /\ distinct' \subseteq 0 .. KEYS - 1
           /\ stored' \in Nat /\ compactAt' \in Nat
<1> DEFINE c == Cardinality(distinct)
           d == Cardinality(distinct')
<1>1. distinct' = distinct \cup {k} /\ distinct' \subseteq 0 .. KEYS - 1
    BY DEF Store, TypeOK
<1>2. c \in Nat /\ d \in Nat /\ IsFiniteSet(distinct)
    BY <1>1, KeysFinite DEF TypeOK
<1>3. d \in {c, c + 1} /\ d >= 1
    <2>1. d = IF k \in distinct THEN c ELSE c + 1
        BY <1>1, <1>2, FS_AddElement
    <2>2. d # 0
        BY <1>1, KeysFinite, FS_EmptySet
    <2> QED
        BY <1>2, <2>1, <2>2
<1>4. stored \in Nat /\ compactAt \in Nat /\ COMPACT_FLOOR \in Nat \ {0}
    BY ShinglesAssumption DEF TypeOK
<1>5. CASE stored + 1 >= compactAt
    <2>1. stored' = d /\ compactAt' = Larger(2 * stored', COMPACT_FLOOR)
        BY <1>5 DEF Store
    <2> QED
        BY <1>1, <1>2, <1>3, <1>4, <2>1 DEF Limited, Larger
<1>6. CASE ~(stored + 1 >= compactAt)
    <2>1. stored' = stored + 1 /\ compactAt' = compactAt
        BY <1>6 DEF Store
    <2> QED
        BY <1>1, <1>2, <1>3, <1>4, <1>6, <2>1 DEF Limited
<1> QED
    BY <1>5, <1>6

\* An instruction read and its root pushed.
LEMMA PushedKey ==
    ASSUME TypeOK, NEW root \in 0 .. ROOTS - 1
    PROVE  Shift(root) \in 0 .. KEYS - 1
<1> DEFINE shifted == key * ROOTS + root
<1>1. key \in Nat /\ root \in Nat
    <2>1. key \in 0 .. KEYS - 1
        BY DEF TypeOK
    <2> QED
        BY <2>1, Widths
<1>2. shifted \in Nat
    BY <1>1, Widths
<1>3. KEYS \in Nat \ {0}
    BY Widths
<1> HIDE DEF shifted
<1>4. shifted % KEYS \in 0 .. KEYS - 1
    BY <1>2, <1>3
<1> QED
    BY <1>4 DEF Shift, shifted

\* What a new symbol does to the input.
LEMMA ReadGrows ==
    ASSUME TypeOK, NEW s \in AllSymbols, Read(s)
    PROVE  /\ input' = Append(input, s) /\ input' \in Seq(AllSymbols)
           /\ Len(input) \in Nat /\ Len(input') = Len(input) + 1
           /\ input'[Len(input) + 1] = s
           /\ \A i \in 1 .. Len(input) : input'[i] = input[i]
           /\ result = Decoding /\ result' = result
           /\ s # SectionEnd => Len(input) < Length
           /\ s = SectionEnd => Len(input) < Length + 1
<1>1. input \in Seq(AllSymbols) /\ input' = Append(input, s)
    BY DEF TypeOK, AllSymbols, Read
<1> QED
    BY <1>1, ShinglesAssumption DEF Read

\* The kinds of symbol differ.
LEMMA KindsDiffer ==
    /\ \A op \in Mnemonics, ends \in BOOLEAN :
          /\ [kind |-> "code", op |-> op, ends |-> ends] \in Symbols
          /\ [kind |-> "code", op |-> op, ends |-> ends] # SectionEnd
    /\ NoCode # SectionEnd /\ NoCode.kind # "code" /\ SectionEnd.kind # "code"
BY DEF Symbols, NoCode, SectionEnd

\* Types and limits are kept by every step.
LEMMA ListKeeps ==
    ASSUME TypeOK, Counts, Limited, [Next]_vars
    PROVE  TypeOK' /\ Counts' /\ Limited'
<1> USE DEF keys, decoding
<1>1. ASSUME NEW op \in Mnemonics, NEW ends \in BOOLEAN, Decode(op, ends)
      PROVE  TypeOK' /\ Counts' /\ Limited'
    <2> DEFINE s == [kind |-> "code", op |-> op, ends |-> ends]
    <2>1. s \in AllSymbols /\ s # SectionEnd /\ Read(s)
        BY <1>1, KindsDiffer DEF Decode, AllSymbols
    <2> HIDE DEF s
    <2>2. /\ input' \in Seq(AllSymbols) /\ Len(input) \in Nat /\ Len(input') = Len(input) + 1
          /\ Len(input) < Length /\ result' = result
        BY <2>1, ReadGrows
    <2>3. /\ repeated' = (IF previous = op THEN repeated + 1 ELSE 1)
          /\ previous' = (IF ends THEN None ELSE op)
          /\ op \in Nat \ {0} /\ Root[op] \in 0 .. ROOTS - 1
        BY <1>1, ShinglesAssumption DEF Decode
    <2>4. repeated' \in 1 .. Len(input')
        BY <2>2, <2>3 DEF Counts, TypeOK
    <2>5. /\ key' \in 0 .. KEYS - 1 /\ filled' \in 0 .. Len(input')
          /\ stored' \in Nat /\ compactAt' \in Nat /\ distinct' \subseteq 0 .. KEYS - 1
          /\ Limited'
        <3>1. CASE repeated' <= NGRAM
            <4>1. Push(Root[op], ends)
                BY <1>1, <3>1 DEF Decode
            <4>2. key' \in 0 .. KEYS - 1 /\ filled' \in 0 .. Len(input')
                BY <2>2, <2>3, <4>1, PushedKey DEF Push, Counts, TypeOK
            <4>3. CASE Store(key')
                BY <4>2, <4>3, StoreKeeps
            <4>4. CASE UNCHANGED <<stored, distinct, compactAt>>
                BY <4>2, <4>4 DEF TypeOK, Limited
            <4> QED
                BY <4>1, <4>2, <4>3, <4>4 DEF Push
        <3>2. CASE ~(repeated' <= NGRAM)
            <4>1. /\ filled' = (IF ends THEN 0 ELSE filled)
                  /\ UNCHANGED <<key, stored, distinct, compactAt>>
                BY <1>1, <3>2 DEF Decode
            <4> QED
                BY <2>2, <4>1 DEF TypeOK, Counts, Limited
        <3> QED
            BY <3>1, <3>2
    <2>6. Counts'
        BY <2>2, <2>4, <2>5, ShinglesAssumption DEF Counts
    <2>7. TypeOK'
        BY <2>2, <2>3, <2>4, <2>5, ShinglesAssumption DEF TypeOK, AllSymbols
    <2> QED
        BY <2>5, <2>6, <2>7
<1>2. CASE Resume
    <2>1. NoCode \in AllSymbols /\ NoCode # SectionEnd /\ Read(NoCode)
        BY <1>2, KindsDiffer DEF Resume, AllSymbols
    <2>2. /\ input' \in Seq(AllSymbols) /\ Len(input) \in Nat /\ Len(input') = Len(input) + 1
          /\ Len(input) < Length /\ result' = result
        BY <2>1, ReadGrows
    <2> QED
        BY <1>2, <2>2, ShinglesAssumption
           DEF Resume, EndRun, TypeOK, Counts, Limited, None, AllSymbols
<1>3. CASE EndSection
    <2>1. SectionEnd \in AllSymbols /\ Read(SectionEnd)
        BY <1>3 DEF EndSection, AllSymbols
    <2>2. /\ input' \in Seq(AllSymbols) /\ Len(input) \in Nat /\ Len(input') = Len(input) + 1
          /\ Len(input) < Length + 1 /\ result' = result
        BY <2>1, ReadGrows
    <2> QED
        BY <1>3, <2>2, ShinglesAssumption
           DEF EndSection, EndRun, TypeOK, Counts, Limited, None, AllSymbols
<1>4. CASE Finish
    <2>1. /\ UNCHANGED <<input, key, filled, previous, repeated, distinct, compactAt>>
          /\ stored' = Cardinality(distinct)
        BY <1>4 DEF Finish
    <2>2. Cardinality(distinct) \in Nat
        BY KeysFinite DEF TypeOK
    <2>3. result'.some \in {"decoding", "none", "digest"} /\ result'.cardinality \in Nat
        BY <1>4, <2>1, <2>2 DEF Finish, NoDigest, Digest, Decoding
    <2> QED
        BY <2>1, <2>2, <2>3 DEF TypeOK, Counts, Limited
<1>5. CASE UNCHANGED vars
    BY <1>5 DEF vars, TypeOK, Counts, Limited
<1> QED
    BY <1>1, <1>2, <1>3, <1>4, <1>5 DEF Next

\* The limit always follows from the keys there are.
LEMMA LimitBounds == TypeOK /\ Limited => KeysBounded
<1>1. TypeOK => Cardinality(distinct) \in Nat
    BY KeysFinite DEF TypeOK
<1> QED
    BY <1>1, ShinglesAssumption DEF TypeOK, Limited, KeysBounded, Larger
-----------------------------------------------------------------------------
(* What the counts say of the input.                                       *)

\* The last k + 1 instructions are of one mnemonic, and of the open run.
Streak(k) ==
    /\ k < Len(input) /\ OneRun(Len(input) - k, Len(input))
    /\ \A m \in Len(input) - k .. Len(input) : input[m].op = input[Len(input)].op

\* `previous' is the mnemonic of an open run, `repeated' how long it lasts.
Repeats ==
    /\ previous = None =>
          \/ Len(input) = 0 \/ ~IsCode(Len(input)) \/ input[Len(input)].ends
    /\ previous # None =>
          /\ Len(input) >= 1 /\ IsCode(Len(input)) /\ ~input[Len(input)].ends
          /\ previous = input[Len(input)].op
          /\ \A k \in Nat : Streak(k) <=> k < repeated

\* j is the last instruction kept of the open run.
Newest(j) ==
    /\ Kept(j) /\ OneRun(j, Len(input)) /\ ~input[Len(input)].ends
    /\ \A m \in j + 1 .. Len(input) : ~Kept(m)

\* `filled' and the roots in `key' belong to the open run.
Filled ==
    /\ filled = 0 => \A j \in 1 .. Len(input) : ~Newest(j)
    /\ filled >= 1 => \E j \in 1 .. Len(input) :
          /\ Newest(j) /\ key % ROOTS = RootAt(j)
          /\ filled >= 2 <=> \E i \in 1 .. Len(input) : Follows(i, j)
          /\ \A i \in 1 .. Len(input) : Follows(i, j) => (key \div ROOTS) % ROOTS = RootAt(i)

\* The runs that reach a new instruction are those open before it.
LEMMA RunGrows ==
    ASSUME input \in Seq(AllSymbols), NEW n \in Nat, n = Len(input),
           NEW s \in AllSymbols, input' = Append(input, s), s.kind = "code"
    PROVE  /\ OneRun(n + 1, n + 1)'
           /\ \A i \in 1 .. n :
                 OneRun(i, n + 1)' <=> OneRun(i, n) /\ ~input[n].ends
<1>1. /\ Len(input') = n + 1 /\ input'[n + 1] = s
      /\ \A k \in 1 .. n : input'[k] = input[k]
    OBVIOUS
<1>2. OneRun(n + 1, n + 1)'
    BY <1>1 DEF OneRun, IsCode
<1>3. ASSUME NEW i \in 1 .. n
      PROVE  OneRun(i, n + 1)' <=> OneRun(i, n) /\ ~input[n].ends
    <2>1. (\A m \in i .. n + 1 : input'[m].kind = "code")
             <=> (\A m \in i .. n : input[m].kind = "code")
        BY <1>1
    <2>2. (\A m \in i .. (n + 1) - 1 : ~input'[m].ends)
             <=> (\A m \in i .. n - 1 : ~input[m].ends) /\ ~input[n].ends
        BY <1>1
    <2> QED
        BY <1>1, <2>1, <2>2 DEF OneRun, IsCode
<1> QED
    BY <1>2, <1>3

\* A streak grows by an instruction that goes on with its mnemonic.
LEMMA StreakGrows ==
    ASSUME input \in Seq(AllSymbols), NEW n \in Nat, n = Len(input),
           NEW s \in AllSymbols, input' = Append(input, s), s.kind = "code"
    PROVE  /\ Streak(0)'
           /\ \A k \in Nat : Streak(k + 1)' <=>
                 Streak(k) /\ ~input[n].ends /\ input[n].op = s.op
<1>1. /\ Len(input') = n + 1 /\ input'[n + 1] = s
      /\ \A k \in 1 .. n : input'[k] = input[k]
    OBVIOUS
<1>2. Streak(0)'
    BY <1>1, RunGrows DEF Streak
<1>3. ASSUME NEW k \in Nat
      PROVE  Streak(k + 1)' <=> Streak(k) /\ ~input[n].ends /\ input[n].op = s.op
    <2>1. Streak(k + 1)' <=>
            /\ k + 1 < n + 1 /\ OneRun(n - k, n + 1)'
            /\ \A m \in n - k .. n + 1 : input'[m].op = s.op
        <3>1. (n + 1) - (k + 1) = n - k
            BY <1>1
        <3> QED
            BY <1>1, <3>1 DEF Streak
    <2>2. CASE k < n
        <3>1. n - k \in 1 .. n
            BY <1>1, <2>2
        <3>2. OneRun(n - k, n + 1)' <=> OneRun(n - k, n) /\ ~input[n].ends
            BY <3>1, RunGrows
        <3>3. (\A m \in n - k .. n + 1 : input'[m].op = s.op)
                 <=> (\A m \in n - k .. n : input[m].op = input[n].op) /\ input[n].op = s.op
            BY <1>1, <3>1
        <3> QED
            BY <1>1, <2>1, <2>2, <3>2, <3>3 DEF Streak
    <2>3. CASE ~(k < n)
        BY <1>1, <2>1, <2>3 DEF Streak
    <2> QED
        BY <2>2, <2>3
<1> QED
    BY <1>2, <1>3

\* The code keeps an instruction exactly when it is not the fourth of a streak.
LEMMA RepeatsDecode ==
    ASSUME TypeOK, Repeats, NEW n \in Nat, n = Len(input),
           NEW op \in Mnemonics, NEW ends \in BOOLEAN, Decode(op, ends)
    PROVE  /\ Kept(n + 1)' <=> repeated' <= NGRAM
           /\ Repeats'
<1> DEFINE s == [kind |-> "code", op |-> op, ends |-> ends]
<1>1. s \in AllSymbols /\ Read(s) /\ s.kind = "code" /\ s.op = op /\ s.ends = ends
    BY KindsDiffer DEF Decode, AllSymbols
<1> HIDE DEF s
<1>2. /\ input \in Seq(AllSymbols) /\ input' = Append(input, s)
      /\ n \in Nat /\ Len(input') = n + 1 /\ input'[n + 1] = s
    BY <1>1, ReadGrows DEF TypeOK, AllSymbols
<1>3. /\ repeated \in Nat /\ op # None
      /\ repeated' = (IF previous = op THEN repeated + 1 ELSE 1)
      /\ previous' = (IF ends THEN None ELSE op)
    BY ShinglesAssumption DEF TypeOK, Decode, None
<1>4. ASSUME NEW k \in Nat PROVE Streak(k)' <=> k < repeated'
    <2>1. CASE k = 0
        BY <1>1, <1>2, <1>3, <2>1, StreakGrows
    <2>2. CASE k # 0
        <3>1. k - 1 \in Nat /\ k = (k - 1) + 1
            BY <2>2
        <3>2. Streak(k)' <=> Streak(k - 1) /\ ~input[n].ends /\ input[n].op = op
            <4>1. PICK j \in Nat : j = k - 1 /\ k = j + 1
                BY <3>1
            <4>2. Streak(j + 1)' <=> Streak(j) /\ ~input[n].ends /\ input[n].op = s.op
                BY <1>1, <1>2, StreakGrows
            <4> QED
                BY <1>1, <4>1, <4>2
        <3>3. CASE previous = op
            BY <1>3, <3>1, <3>2, <3>3 DEF Repeats
        <3>4. CASE previous # op
            <4>1. ASSUME Streak(k - 1), ~input[n].ends, input[n].op = op PROVE FALSE
                <5>1. n >= 1 /\ IsCode(n)
                    BY <1>2, <3>1, <4>1 DEF Streak, OneRun
                <5> QED
                    BY <3>4, <4>1, <5>1 DEF Repeats
            <4> QED
                BY <1>3, <2>2, <3>2, <3>4, <4>1
        <3> QED
            BY <3>3, <3>4
    <2> QED
        BY <2>1, <2>2
<1>5. Kept(n + 1)' <=> ~Streak(3)'
    <2>1. IsCode(n + 1)'
        BY <1>1, <1>2 DEF IsCode
    <2> QED
        BY <1>2, <2>1 DEF Kept, Streak, NGRAM
<1>6. Repeats'
    BY <1>1, <1>2, <1>3, <1>4 DEF Repeats, IsCode
<1> QED
    BY <1>3, <1>4, <1>5, <1>6 DEF NGRAM
-----------------------------------------------------------------------------
(* The windows of the input, and the roots that `key' holds.               *)

\* The window of i, j and k, which follow each other.
Triple(i, j, k) == <<RootAt(i), RootAt(j), RootAt(k)>>

\* A window is made of three kept instructions that follow each other.
LEMMA WindowOf ==
    ASSUME NEW n \in Nat, n = Len(input), NEW w
    PROVE  w \in Windows <=> \E i, j, k \in 1 .. n :
               Follows(i, j) /\ Follows(j, k) /\ w = Triple(i, j, k)
<1>1. \A i, j \in 1 .. n : j \in Successors(i) <=> Follows(i, j)
    BY DEF Successors, Follows
<1>2. \A i \in 1 .. n : \A j \in Successors(i) : j \in 1 .. n
    BY DEF Successors
<1> QED
    BY <1>1, <1>2 DEF Windows, Triple

\* The same of the input that has grown.
LEMMA WindowOfGrown ==
    ASSUME NEW n \in Nat, Len(input') = n, NEW w
    PROVE  w \in Windows' <=> \E i, j, k \in 1 .. n :
               Follows(i, j)' /\ Follows(j, k)' /\ w = Triple(i, j, k)'
<1>1. \A i, j \in 1 .. n : j \in Successors(i)' <=> Follows(i, j)'
    BY DEF Successors, Follows
<1>2. \A i \in 1 .. n : \A j \in Successors(i)' : j \in 1 .. n
    BY DEF Successors
<1> QED
    BY <1>1, <1>2 DEF Windows, Triple

\* A run has one last instruction.
LEMMA OneTail ==
    ASSUME NEW n \in Nat, n = Len(input), NEW i \in 1 .. n, NEW j \in 1 .. n, Newest(i), Newest(j)
    PROVE  i = j
BY DEF Newest

\* A symbol that is not kept makes no window, one that is kept closes those
\* that the open run had begun.
LEMMA WindowsGrow ==
    ASSUME input \in Seq(AllSymbols), NEW n \in Nat, n = Len(input),
           NEW s \in AllSymbols, input' = Append(input, s)
    PROVE  /\ ~Kept(n + 1)' => Windows' = Windows
           /\ Kept(n + 1)' => \A w : w \in Windows' <=>
                 \/ w \in Windows
                 \/ \E i, j \in 1 .. n :
                       Follows(i, j) /\ Newest(j) /\ w = <<RootAt(i), RootAt(j), Root[s.op]>>
           /\ Kept(n + 1)' => \A j \in 1 .. n : Follows(j, n + 1)' <=> Newest(j)
<1>1. /\ Len(input') = n + 1 /\ input'[n + 1] = s
      /\ \A k \in 1 .. n : input'[k] = input[k]
    OBVIOUS
<1>2. \A i, j \in 1 .. n : /\ Kept(i)' = Kept(i) /\ OneRun(i, j)' = OneRun(i, j)
                           /\ Follows(i, j)' = Follows(i, j) /\ RootAt(i)' = RootAt(i)
    BY Before
<1>3. \A j \in 1 .. n + 1 : ~Follows(n + 1, j)'
    BY DEF Follows
<1>4. ASSUME ~Kept(n + 1)' PROVE Windows' = Windows
    <2>1. \A i \in 1 .. n + 1 : ~Follows(i, n + 1)'
        BY <1>4 DEF Follows
    <2>2. ASSUME NEW w PROVE w \in Windows' <=> w \in Windows
        <3>1. w \in Windows' <=> \E i, j, k \in 1 .. n + 1 :
                  Follows(i, j)' /\ Follows(j, k)' /\ w = Triple(i, j, k)'
            BY <1>1, WindowOfGrown
        <3>2. w \in Windows <=> \E i, j, k \in 1 .. n :
                  Follows(i, j) /\ Follows(j, k) /\ w = Triple(i, j, k)
            BY WindowOf
        <3>3. \A i, j, k \in 1 .. n : Triple(i, j, k)' = Triple(i, j, k)
            BY <1>2 DEF Triple
        <3>4. \A i, j \in 1 .. n + 1 : Follows(i, j)' => i \in 1 .. n /\ j \in 1 .. n
            BY <1>3, <2>1
        <3>5. 1 .. n \subseteq 1 .. n + 1
            OBVIOUS
        <3> QED
            BY <1>2, <3>1, <3>2, <3>3, <3>4, <3>5
    <2> QED
        BY <2>2
<1>5. ASSUME Kept(n + 1)', NEW j \in 1 .. n PROVE Follows(j, n + 1)' <=> Newest(j)
    <2>1. s.kind = "code"
        BY <1>1, <1>5 DEF Kept, IsCode
    <2>2. OneRun(j, n + 1)' <=> OneRun(j, n) /\ ~input[n].ends
        BY <2>1, RunGrows
    <2>3. (\A m \in j + 1 .. (n + 1) - 1 : ~Kept(m)') <=> (\A m \in j + 1 .. n : ~Kept(m))
        BY <1>2
    <2> QED
        BY <1>2, <1>5, <2>2, <2>3 DEF Follows, Newest
<1>6. ASSUME Kept(n + 1)', NEW w
      PROVE  w \in Windows' <=>
                 \/ w \in Windows
                 \/ \E i, j \in 1 .. n :
                       Follows(i, j) /\ Newest(j) /\ w = <<RootAt(i), RootAt(j), Root[s.op]>>
    <2>1. w \in Windows' <=> \E i, j, k \in 1 .. n + 1 :
              Follows(i, j)' /\ Follows(j, k)' /\ w = Triple(i, j, k)'
        BY <1>1, WindowOfGrown
    <2>2. w \in Windows <=> \E i, j, k \in 1 .. n :
              Follows(i, j) /\ Follows(j, k) /\ w = Triple(i, j, k)
        BY WindowOf
    <2>3. \A i, j \in 1 .. n :
             /\ \A k \in 1 .. n : Triple(i, j, k)' = Triple(i, j, k)
             /\ Triple(i, j, n + 1)' = <<RootAt(i), RootAt(j), Root[s.op]>>
        BY <1>1, <1>2 DEF Triple, RootAt
    <2>4. \A i, j, k \in 1 .. n + 1 : Follows(i, j)' /\ Follows(j, k)' =>
             i \in 1 .. n /\ j \in 1 .. n /\ (k \in 1 .. n \/ k = n + 1)
        BY <1>3
    <2>5. /\ 1 .. n \subseteq 1 .. n + 1 /\ n + 1 \in 1 .. n + 1
        OBVIOUS
    <2>6. ASSUME w \in Windows'
          PROVE  \/ w \in Windows
                 \/ \E i, j \in 1 .. n :
                       Follows(i, j) /\ Newest(j) /\ w = <<RootAt(i), RootAt(j), Root[s.op]>>
        <3>1. PICK i, j, k \in 1 .. n + 1 :
                 Follows(i, j)' /\ Follows(j, k)' /\ w = Triple(i, j, k)'
            BY <2>1, <2>6
        <3>2. i \in 1 .. n /\ j \in 1 .. n
            BY <2>4, <3>1
        <3>3. CASE k \in 1 .. n
            <4>1. Follows(i, j) /\ Follows(j, k) /\ w = Triple(i, j, k)
                BY <1>2, <2>3, <3>1, <3>2, <3>3
            <4> QED
                BY <2>2, <3>2, <3>3, <4>1
        <3>4. CASE k = n + 1
            <4>1. Follows(i, j) /\ Newest(j)
                BY <1>2, <1>5, <1>6, <3>1, <3>2, <3>4
            <4>2. w = <<RootAt(i), RootAt(j), Root[s.op]>>
                BY <2>3, <3>1, <3>2, <3>4
            <4> QED
                BY <3>2, <4>1, <4>2
        <3> QED
            BY <2>4, <3>1, <3>3, <3>4
    <2>7. ASSUME w \in Windows PROVE w \in Windows'
        <3>1. PICK i, j, k \in 1 .. n : Follows(i, j) /\ Follows(j, k) /\ w = Triple(i, j, k)
            BY <2>2, <2>7
        <3>2. Follows(i, j)' /\ Follows(j, k)' /\ w = Triple(i, j, k)'
            BY <1>2, <2>3, <3>1
        <3> QED
            BY <2>1, <2>5, <3>2
    <2>8. ASSUME NEW i \in 1 .. n, NEW j \in 1 .. n, Follows(i, j), Newest(j),
                 w = <<RootAt(i), RootAt(j), Root[s.op]>>
          PROVE  w \in Windows'
        <3>1. Follows(i, j)' /\ Follows(j, n + 1)'
            BY <1>2, <1>5, <1>6, <2>8
        <3>2. w = Triple(i, j, n + 1)'
            BY <2>3, <2>8
        <3> QED
            BY <2>1, <2>5, <3>1, <3>2
    <2> QED
        BY <2>6, <2>7, <2>8
<1> QED
    BY <1>4, <1>5, <1>6
-----------------------------------------------------------------------------
(* The keys are the windows.                                               *)

\* There is one quotient and one remainder only.
LEMMA Divide ==
    ASSUME NEW n \in Nat \ {0}, NEW x \in Nat, NEW c \in 0 .. n - 1
    PROVE  (x * n + c) % n = c /\ (x * n + c) \div n = x
BY SMT

\* A number is its quotient and remainder.
LEMMA Split ==
    ASSUME NEW n \in Nat \ {0}, NEW x \in Nat
    PROVE  x % n \in 0 .. n - 1 /\ x \div n \in Nat /\ x = (x \div n) * n + (x % n)
BY SMT

\* Two digits make a number below the product of their bases.
LEMMA Digits ==
    ASSUME NEW m \in Nat, NEW n \in Nat, NEW a \in 0 .. m - 1, NEW b \in 0 .. n - 1
    PROVE  a * n + b \in 0 .. m * n - 1
<1>1. (a + 1) * n <= m * n
    BY SMT
<1>2. (a + 1) * n = a * n + n /\ a * n \in Nat /\ m * n \in Nat
    BY SMT
<1> QED
    BY <1>1, <1>2

\* The three roots of a packed window are read back.
LEMMA PackExact ==
    ASSUME NEW a \in 0 .. ROOTS - 1, NEW b \in 0 .. ROOTS - 1, NEW c \in 0 .. ROOTS - 1
    PROVE  /\ Pack(<<a, b, c>>) \in 0 .. KEYS - 1
           /\ Pack(<<a, b, c>>) % ROOTS = c
           /\ (Pack(<<a, b, c>>) \div ROOTS) % ROOTS = b
           /\ Pack(<<a, b, c>>) \div (ROOTS * ROOTS) = a
<1> DEFINE high == a * ROOTS + b
           low == b * ROOTS + c
<1>1. /\ ROOTS \in Nat \ {0} /\ ROOTS * ROOTS \in Nat \ {0}
      /\ a \in Nat /\ b \in Nat /\ c \in Nat
    BY Widths, SMT
<1>2. high \in 0 .. ROOTS * ROOTS - 1 /\ low \in 0 .. ROOTS * ROOTS - 1
    BY <1>1, Digits
<1>3. high * ROOTS + c \in 0 .. KEYS - 1
    <2> HIDE DEF high
    <2>1. high * ROOTS + c \in 0 .. (ROOTS * ROOTS) * ROOTS - 1
        BY <1>1, <1>2, Digits
    <2> QED
        BY <2>1, Widths
<1>4. Pack(<<a, b, c>>) = high * ROOTS + c
    BY DEF Pack
<1>5. Pack(<<a, b, c>>) = a * (ROOTS * ROOTS) + low
    BY <1>1, <1>4, SMT
<1>6. high % ROOTS = b
    BY <1>1, Divide
<1> HIDE DEF high, low
<1>7. (high * ROOTS + c) % ROOTS = c /\ (high * ROOTS + c) \div ROOTS = high
    BY <1>1, <1>2, Divide
<1>8. (a * (ROOTS * ROOTS) + low) \div (ROOTS * ROOTS) = a
    BY <1>1, <1>2, Divide
<1> QED
    BY <1>3, <1>4, <1>5, <1>6, <1>7, <1>8

\* Shifting a root in leaves the two before it.
LEMMA ShiftExact ==
    ASSUME key \in 0 .. KEYS - 1, NEW root \in 0 .. ROOTS - 1
    PROVE  /\ Shift(root) = Pack(<<(key \div ROOTS) % ROOTS, key % ROOTS, root>>)
           /\ (key \div ROOTS) % ROOTS \in 0 .. ROOTS - 1 /\ key % ROOTS \in 0 .. ROOTS - 1
<1> DEFINE q == key \div ROOTS
           r == key % ROOTS
           p == q \div ROOTS
           t == q % ROOTS
           kept == (t * ROOTS + r) * ROOTS + root
<1>1. ROOTS \in Nat \ {0} /\ KEYS \in Nat \ {0} /\ key \in Nat /\ root \in Nat
    BY Widths
<1>2. q \in Nat /\ r \in 0 .. ROOTS - 1 /\ key = q * ROOTS + r
    BY <1>1, Split
<1>3. p \in Nat /\ t \in 0 .. ROOTS - 1 /\ q = p * ROOTS + t
    <2> HIDE DEF q
    <2> QED
        BY <1>1, <1>2, Split
<1> HIDE DEF q, r, p, t
<1>4. kept = Pack(<<t, r, root>>)
    BY DEF Pack
<1>5. kept \in 0 .. KEYS - 1
    BY <1>2, <1>3, <1>4, PackExact
<1>6. key * ROOTS + root = p * KEYS + kept
    <2>1. KEYS = (ROOTS * ROOTS) * ROOTS
        BY Widths
    <2>2. t \in Nat /\ r \in Nat
        BY <1>1, <1>2, <1>3
    <2> QED
        BY <1>1, <1>2, <1>3, <2>1, <2>2, SMT
<1> HIDE DEF kept
<1>7. (p * KEYS + kept) % KEYS = kept
    BY <1>1, <1>3, <1>5, Divide
<1> QED
    BY <1>2, <1>3, <1>4, <1>6, <1>7 DEF Shift, q, r, t

\* A root pushed.
LEMMA PushExact ==
    ASSUME TypeOK, Filled, ShinglesExact,
           input \in Seq(AllSymbols), NEW n \in Nat, n = Len(input),
           NEW s \in AllSymbols, input' = Append(input, s), s.kind = "code",
           Kept(n + 1)', Push(Root[s.op], s.ends)
    PROVE  Filled' /\ ShinglesExact'
<1> DEFINE root == Root[s.op]
<1>1. /\ Len(input') = n + 1 /\ input'[n + 1] = s
      /\ \A k \in 1 .. n : input'[k] = input[k]
    OBVIOUS
<1>2. root \in 0 .. ROOTS - 1 /\ s.ends \in BOOLEAN
    <2>1. s \in Symbols
        BY KindsDiffer DEF AllSymbols
    <2> QED
        BY <2>1, ShinglesAssumption DEF Symbols
<1> DEFINE older == (key \div ROOTS) % ROOTS
           old == key % ROOTS
<1>3. /\ key' = Pack(<<older, old, root>>)
      /\ older \in 0 .. ROOTS - 1 /\ old \in 0 .. ROOTS - 1
    BY <1>2, ShiftExact DEF Push, TypeOK
<1>4. key' % ROOTS = root /\ (key' \div ROOTS) % ROOTS = old
    BY <1>2, <1>3, PackExact
<1> HIDE DEF root, older, old
<1>5. /\ filled' = (IF s.ends THEN 0 ELSE filled + 1) /\ filled \in Nat
      /\ IF filled + 1 >= NGRAM THEN distinct' = distinct \cup {key'} ELSE distinct' = distinct
    BY DEF Push, Store, keys, TypeOK
<1>6. /\ \A w : w \in Windows' <=>
            \/ w \in Windows
            \/ \E i, j \in 1 .. n : Follows(i, j) /\ Newest(j) /\ w = <<RootAt(i), RootAt(j), root>>
      /\ \A j \in 1 .. n : Follows(j, n + 1)' <=> Newest(j)
    BY WindowsGrow DEF root
<1>7. ShinglesExact'
    <2>1. CASE filled >= 2
        <3>1. PICK i, j \in 1 .. n : /\ Newest(j) /\ Follows(i, j)
                                    /\ old = RootAt(j)
            BY <1>5, <2>1 DEF Filled, old
        <3>2. \A g, h \in 1 .. n : Follows(g, h) /\ Newest(h) => older = RootAt(g) /\ old = RootAt(h)
            BY <2>1, <1>5, OneTail DEF Filled, older, old
        <3>3. \A w : w \in Windows' <=> w \in Windows \/ w = <<older, old, root>>
            BY <1>6, <3>1, <3>2
        <3>4. distinct' = distinct \cup {key'}
            BY <1>5, <2>1 DEF NGRAM
        <3> QED
            BY <1>3, <3>3, <3>4 DEF ShinglesExact
    <2>2. CASE ~(filled >= 2)
        <3>1. ~ \E i, j \in 1 .. n : Follows(i, j) /\ Newest(j)
            <4>1. CASE filled = 0
                BY <4>1 DEF Filled
            <4>2. CASE filled = 1
                BY <4>2, OneTail DEF Filled
            <4> QED
                BY <1>5, <2>2, <4>1, <4>2
        <3>2. Windows' = Windows
            BY <1>6, <3>1
        <3>3. distinct' = distinct
            BY <1>5, <2>2 DEF NGRAM
        <3> QED
            BY <3>2, <3>3 DEF ShinglesExact
    <2> QED
        BY <2>1, <2>2
<1>8. Filled'
    <2>1. CASE s.ends
        <3>1. filled' = 0 /\ input'[Len(input')].ends
            BY <1>1, <1>5, <2>1
        <3> QED
            BY <3>1 DEF Filled, Newest
    <2>2. CASE ~s.ends
        <3>1. Newest(n + 1)'
            BY <1>1, <2>2, RunGrows DEF Newest
        <3>2. key' % ROOTS = RootAt(n + 1)'
            BY <1>1, <1>4 DEF RootAt, root
        <3>3. \A i \in 1 .. n + 1 : Follows(i, n + 1)' => i \in 1 .. n /\ Newest(i)
            BY <1>6 DEF Follows
        <3>4. \A i \in 1 .. n : RootAt(i)' = RootAt(i)
            BY <1>1 DEF RootAt
        <3>5. \A i \in 1 .. n + 1 : Follows(i, n + 1)' => (key' \div ROOTS) % ROOTS = RootAt(i)'
            <4>1. \A i \in 1 .. n : Newest(i) => old = RootAt(i)
                BY <1>5, OneTail DEF Filled, old
            <4> QED
                BY <1>4, <3>3, <3>4, <4>1
        <3>6. filled >= 1 <=> \E i \in 1 .. n + 1 : Follows(i, n + 1)'
            <4>1. filled >= 1 <=> \E i \in 1 .. n : Newest(i)
                BY <1>5 DEF Filled
            <4>2. 1 .. n \subseteq 1 .. n + 1
                OBVIOUS
            <4> QED
                BY <1>6, <3>3, <4>1, <4>2
        <3>7. filled' = filled + 1 /\ filled' # 0 /\ (filled' >= 2 <=> filled >= 1)
            BY <1>5, <2>2
        <3>8. n + 1 \in 1 .. n + 1
            OBVIOUS
        <3> QED
            BY <1>1, <3>1, <3>2, <3>5, <3>6, <3>7, <3>8 DEF Filled
    <2> QED
        BY <1>2, <2>1, <2>2
<1> QED
    BY <1>7, <1>8

\* A symbol that is not pushed leaves the keys, and the run unless it ends.
LEMMA SkipExact ==
    ASSUME TypeOK, Filled, ShinglesExact,
           input \in Seq(AllSymbols), NEW n \in Nat, n = Len(input),
           NEW s \in AllSymbols, input' = Append(input, s), ~Kept(n + 1)',
           filled' = IF s.ends THEN 0 ELSE filled, s.ends \/ s.kind = "code",
           UNCHANGED <<key, distinct>>
    PROVE  Filled' /\ ShinglesExact'
<1>1. /\ Len(input') = n + 1 /\ input'[n + 1] = s
      /\ \A k \in 1 .. n : input'[k] = input[k]
    OBVIOUS
<1>2. ShinglesExact'
    BY WindowsGrow DEF ShinglesExact
<1>3. Filled'
    <2>1. CASE s.ends
        <3>1. filled' = 0 /\ input'[Len(input')].ends
            BY <1>1, <2>1
        <3> QED
            BY <3>1 DEF Filled, Newest
    <2>2. CASE ~s.ends
        <3>1. \A i, j \in 1 .. n : /\ Kept(i)' = Kept(i) /\ Follows(i, j)' = Follows(i, j)
                                   /\ RootAt(i)' = RootAt(i)
            BY Before
        <3>2. ASSUME NEW j \in 1 .. n PROVE Newest(j)' <=> Newest(j)
            <4>1. OneRun(j, n + 1)' <=> OneRun(j, n) /\ ~input[n].ends
                BY <2>2, RunGrows
            <4>2. (\A m \in j + 1 .. n + 1 : ~Kept(m)') <=> (\A m \in j + 1 .. n : ~Kept(m))
                BY <3>1
            <4> QED
                BY <1>1, <2>2, <3>1, <4>1, <4>2 DEF Newest
        <3>3. ~Newest(n + 1)' /\ \A j \in 1 .. n + 1 : ~Follows(n + 1, j)'
            BY <1>1 DEF Newest, Follows
        <3>4. filled' = filled /\ filled \in Nat
            BY <2>2 DEF TypeOK
        <3>5. \A j \in 1 .. n + 1 : j \in 1 .. n \/ j = n + 1
            OBVIOUS
        <3>6. CASE filled = 0
            <4>1. \A j \in 1 .. n + 1 : ~Newest(j)'
                BY <3>2, <3>3, <3>5, <3>6 DEF Filled
            <4> QED
                BY <1>1, <3>4, <3>6, <4>1 DEF Filled
        <3>7. CASE filled >= 1
            <4>1. PICK j \in 1 .. n :
                     /\ Newest(j) /\ key % ROOTS = RootAt(j)
                     /\ filled >= 2 <=> \E i \in 1 .. n : Follows(i, j)
                     /\ \A i \in 1 .. n : Follows(i, j) => (key \div ROOTS) % ROOTS = RootAt(i)
                BY <3>7 DEF Filled
            <4>2. Newest(j)' /\ key' % ROOTS = RootAt(j)'
                BY <3>1, <3>2, <4>1
            <4>3. \A i \in 1 .. n + 1 : Follows(i, j)' <=> i \in 1 .. n /\ Follows(i, j)
                BY <3>1, <3>3, <3>5
            <4>4. filled' >= 2 <=> \E i \in 1 .. n + 1 : Follows(i, j)'
                <5>1. 1 .. n \subseteq 1 .. n + 1
                    OBVIOUS
                <5> QED
                    BY <3>4, <4>1, <4>3, <5>1
            <4>5. \A i \in 1 .. n + 1 : Follows(i, j)' => (key' \div ROOTS) % ROOTS = RootAt(i)'
                BY <3>1, <4>1, <4>3
            <4>6. j \in 1 .. n + 1 /\ filled' # 0
                BY <3>4, <3>7
            <4> QED
                BY <1>1, <4>2, <4>4, <4>5, <4>6 DEF Filled
        <3> QED
            BY <3>4, <3>6, <3>7
    <2> QED
        BY <2>1, <2>2
<1> QED
    BY <1>2, <1>3
-----------------------------------------------------------------------------
(* The invariant.                                                          *)

SInv == TypeOK /\ Counts /\ Limited /\ Repeats /\ Filled /\ ShinglesExact

\* Nothing is read and nothing is stored.
LEMMA SInvInit == Init => SInv
<1> SUFFICES ASSUME Init PROVE SInv
    OBVIOUS
<1>1. TypeOK /\ Counts /\ Limited
    BY ListInit
<1>2. Len(input) = 0 /\ input = <<>>
    BY DEF Init
<1>3. Repeats /\ Filled
    BY <1>2 DEF Init, Repeats, Filled
<1>4. Windows = {}
    BY <1>2, WindowOf
<1>5. ShinglesExact
    BY <1>4 DEF Init, ShinglesExact
<1> QED
    BY <1>1, <1>3, <1>5 DEF SInv

\* A symbol that ends the run, whatever it is.
LEMMA EndsRun ==
    ASSUME TypeOK, Repeats, Filled, ShinglesExact,
           NEW s \in {NoCode, SectionEnd}, Read(s), EndRun, previous' = None
    PROVE  Repeats' /\ Filled' /\ ShinglesExact'
<1>1. s \in AllSymbols /\ s.kind # "code" /\ s.ends
    BY KindsDiffer DEF AllSymbols, NoCode, SectionEnd
<1>2. PICK n \in Nat : n = Len(input)
    BY <1>1, ReadGrows
<1>3. /\ input \in Seq(AllSymbols) /\ input' = Append(input, s)
      /\ Len(input') = n + 1 /\ input'[n + 1] = s
    BY <1>1, <1>2, ReadGrows DEF TypeOK, AllSymbols
<1>4. Repeats'
    BY <1>1, <1>3 DEF Repeats
<1>5. ~Kept(n + 1)'
    BY <1>1, <1>3 DEF Kept, IsCode
<1>6. filled' = 0 /\ UNCHANGED <<key, distinct>>
    BY DEF EndRun, keys
<1> QED
    BY <1>1, <1>2, <1>3, <1>4, <1>5, <1>6, SkipExact

\* What is said of the input changes with it only.
LEMMA SameInput ==
    ASSUME UNCHANGED input
    PROVE  /\ \A k : Streak(k)' = Streak(k) /\ Newest(k)' = Newest(k)
           /\ \A k : RootAt(k)' = RootAt(k) /\ IsCode(k)' = IsCode(k)
           /\ \A i, j : Follows(i, j)' = Follows(i, j)
           /\ Windows' = Windows
<1>1. \A k : RootAt(k)' = RootAt(k) /\ IsCode(k)' = IsCode(k)
    BY DEF RootAt, IsCode
<1>2. \A i, j : OneRun(i, j)' = OneRun(i, j)
    BY DEF OneRun, IsCode
<1>3. \A k : Kept(k)' = Kept(k)
    BY <1>1, <1>2 DEF Kept
<1>4. \A i, j : Follows(i, j)' = Follows(i, j)
    BY <1>2, <1>3 DEF Follows
<1>5. \A k : Streak(k)' = Streak(k) /\ Newest(k)' = Newest(k)
    BY <1>2, <1>3 DEF Streak, Newest
<1>6. Windows' = Windows
    BY <1>1, <1>4 DEF Windows, Successors
<1> QED
    BY <1>1, <1>4, <1>5, <1>6

\* Every step keeps the invariant.
LEMMA SInvNext == SInv /\ [Next]_vars => SInv'
<1> SUFFICES ASSUME SInv, [Next]_vars PROVE SInv'
    OBVIOUS
<1>0. TypeOK /\ Counts /\ Limited /\ Repeats /\ Filled /\ ShinglesExact
    BY DEF SInv
<1>1. TypeOK' /\ Counts' /\ Limited'
    BY <1>0, ListKeeps
<1>2. ASSUME NEW op \in Mnemonics, NEW ends \in BOOLEAN, Decode(op, ends)
      PROVE  Repeats' /\ Filled' /\ ShinglesExact'
    <2> DEFINE s == [kind |-> "code", op |-> op, ends |-> ends]
    <2>1. s \in AllSymbols /\ Read(s) /\ s.kind = "code" /\ s.op = op /\ s.ends = ends
        BY <1>2, KindsDiffer DEF Decode, AllSymbols
    <2> HIDE DEF s
    <2>2. PICK n \in Nat : n = Len(input)
        BY <1>0, <2>1, ReadGrows
    <2>3. input \in Seq(AllSymbols) /\ input' = Append(input, s)
        BY <1>0, <2>1, ReadGrows DEF TypeOK, AllSymbols
    <2>4. Repeats' /\ (Kept(n + 1)' <=> repeated' <= NGRAM)
        BY <1>0, <1>2, <2>2, RepeatsDecode
    <2>5. CASE repeated' <= NGRAM
        <3>1. Push(Root[s.op], s.ends)
            BY <1>2, <2>1, <2>5 DEF Decode
        <3> QED
            BY <1>0, <2>1, <2>2, <2>3, <2>4, <2>5, <3>1, PushExact
    <2>6. CASE ~(repeated' <= NGRAM)
        <3>1. filled' = (IF s.ends THEN 0 ELSE filled) /\ UNCHANGED <<key, distinct>>
            BY <1>2, <2>1, <2>6 DEF Decode, keys
        <3> QED
            BY <1>0, <2>1, <2>2, <2>3, <2>4, <2>6, <3>1, SkipExact
    <2> QED
        BY <2>4, <2>5, <2>6
<1>3. Resume => Repeats' /\ Filled' /\ ShinglesExact'
    BY <1>0, EndsRun DEF Resume
<1>4. EndSection => Repeats' /\ Filled' /\ ShinglesExact'
    BY <1>0, EndsRun DEF EndSection
<1>5. ASSUME UNCHANGED <<input, key, filled, previous, repeated, distinct>>
      PROVE  Repeats' /\ Filled' /\ ShinglesExact'
    BY <1>0, <1>5, SameInput DEF Repeats, Filled, ShinglesExact
<1>6. Finish => Repeats' /\ Filled' /\ ShinglesExact'
    BY <1>5 DEF Finish, decoding
<1>7. UNCHANGED vars => Repeats' /\ Filled' /\ ShinglesExact'
    BY <1>5 DEF vars, decoding, keys
<1> QED
    BY <1>1, <1>2, <1>3, <1>4, <1>5, <1>6, <1>7 DEF SInv, Next

\* The invariant holds of every run.
LEMMA SInvAlways == Spec => []SInv
BY SInvInit, SInvNext, PTL DEF Spec

\* The counts of the decoder and the keys stay within their types for code of
\* any length.
THEOREM ShinglesTypes == Spec => []TypeOK
<1>1. SInv => TypeOK
    BY DEF SInv
<1> QED
    BY <1>1, SInvAlways, PTL

\* The keys are the windows of three kept roots of one run, for every
\* vocabulary, every floor and every order of sections, gaps and repetitions
\* (lib.rs: Shingles and disassemble).
THEOREM KeysAreWindows == Spec => []ShinglesExact
<1>1. SInv => ShinglesExact
    BY DEF SInv
<1> QED
    BY <1>1, SInvAlways, PTL

\* The list of keys stays within twice the number of different keys, beyond
\* the floor.
THEOREM ListBounded == Spec => []KeysBounded
<1>1. SInv => KeysBounded
    BY LimitBounds DEF SInv
<1> QED
    BY <1>1, SInvAlways, PTL
-----------------------------------------------------------------------------
(* The digest.                                                             *)

\* The roots of a window are those of the vocabulary.
LEMMA WindowRoots ==
    ASSUME TypeOK, NEW w \in Windows
    PROVE  \E a, b, c \in 0 .. ROOTS - 1 : w = <<a, b, c>>
<1>1. PICK n \in Nat : n = Len(input)
    BY DEF TypeOK
<1>2. PICK i, j, k \in 1 .. n : Follows(i, j) /\ Follows(j, k) /\ w = Triple(i, j, k)
    BY <1>1, WindowOf
<1>3. ASSUME NEW m \in 1 .. n, Kept(m) PROVE RootAt(m) \in 0 .. ROOTS - 1
    <2>1. input[m] \in Symbols
        BY <1>1, <1>3, KindsDiffer DEF Kept, IsCode, TypeOK
    <2> QED
        BY <2>1, ShinglesAssumption DEF Symbols, RootAt
<1>4. Kept(i) /\ Kept(j) /\ Kept(k)
    BY <1>2 DEF Follows
<1> QED
    BY <1>2, <1>3, <1>4 DEF Triple

\* Packing loses nothing: there are as many keys as windows, and their roots
\* are those of the windows.
LEMMA PackedAlike ==
    ASSUME TypeOK, ShinglesExact
    PROVE  /\ Cardinality(distinct) = Cardinality(Windows)
           /\ UNION {RootIds(k) : k \in distinct} = UNION {{w[1], w[2], w[3]} : w \in Windows}
<1>1. \A w \in Windows : RootIds(Pack(w)) = {w[1], w[2], w[3]}
    <2> SUFFICES ASSUME NEW w \in Windows PROVE RootIds(Pack(w)) = {w[1], w[2], w[3]}
        OBVIOUS
    <2>1. PICK a, b, c \in 0 .. ROOTS - 1 : w = <<a, b, c>>
        BY WindowRoots
    <2>2. w[1] = a /\ w[2] = b /\ w[3] = c
        BY <2>1
    <2> QED
        BY <2>1, <2>2, PackExact DEF RootIds
<1>2. \A v, w \in Windows : Pack(v) = Pack(w) => v = w
    <2> SUFFICES ASSUME NEW v \in Windows, NEW w \in Windows, Pack(v) = Pack(w) PROVE v = w
        OBVIOUS
    <2>1. PICK a, b, c \in 0 .. ROOTS - 1 : v = <<a, b, c>>
        BY WindowRoots
    <2>2. PICK d, e, f \in 0 .. ROOTS - 1 : w = <<d, e, f>>
        BY WindowRoots
    <2> QED
        BY <2>1, <2>2, PackExact
<1>3. Cardinality(distinct) = Cardinality(Windows)
    <2> DEFINE P == [w \in Windows |-> Pack(w)]
    <2>1. P \in Bijection(Windows, distinct)
        <3>1. P \in [Windows -> distinct] /\ \A k \in distinct : \E w \in Windows : P[w] = k
            BY DEF ShinglesExact
        <3>2. \A v, w \in Windows : P[v] = P[w] => v = w
            BY <1>2
        <3> HIDE DEF P
        <3> QED
            BY <3>1, <3>2, Fun_IsBij
    <2>2. ExistsBijection(distinct, Windows)
        <3>1. ExistsBijection(Windows, distinct)
            BY <2>1, Fun_ExistsBij
        <3> QED
            BY <3>1, Fun_ExistsBijSymmetric
    <2>3. IsFiniteSet(distinct)
        BY KeysFinite DEF TypeOK
    <2> QED
        BY <2>2, <2>3, FS_Bijection
<1>4. UNION {RootIds(k) : k \in distinct} = UNION {{w[1], w[2], w[3]} : w \in Windows}
    <2>1. \A r : r \in UNION {RootIds(k) : k \in distinct}
                <=> \E w \in Windows : r \in RootIds(Pack(w))
        BY DEF ShinglesExact
    <2>2. \A r : r \in UNION {{w[1], w[2], w[3]} : w \in Windows}
                <=> \E w \in Windows : r \in {w[1], w[2], w[3]}
        OBVIOUS
    <2>3. \A r : r \in UNION {RootIds(k) : k \in distinct}
                <=> r \in UNION {{w[1], w[2], w[3]} : w \in Windows}
        BY <1>1, <2>1, <2>2
    <2> QED
        BY <2>3
<1> QED
    BY <1>3, <1>4

\* The digest is made of the keys as they are, and of nothing read later.
LEMMA DigestNext == SInv /\ DigestFaithful /\ [Next]_vars => DigestFaithful'
<1> SUFFICES ASSUME SInv, DigestFaithful, [Next]_vars PROVE DigestFaithful'
    OBVIOUS
<1>1. \A s : Read(s) => result' = Decoding
    BY DEF Read
<1>2. CASE Finish
    <2> DEFINE used == UNION {{w[1], w[2], w[3]} : w \in Windows}
    <2>1. UNCHANGED input /\ Windows' = Windows
        BY <1>2, SameInput DEF Finish
    <2>2. /\ Cardinality(distinct) = Cardinality(Windows)
          /\ UNION {RootIds(k) : k \in distinct} = used
        BY PackedAlike DEF SInv
    <2>3. IF Cardinality(used) < 2 THEN result' = NoDigest
          ELSE result'.some = "digest" /\ result'.cardinality = Cardinality(Windows)
        BY <1>2, <2>2 DEF Finish, Digest
    <2> QED
        BY <2>1, <2>3 DEF DigestFaithful
<1>3. CASE UNCHANGED vars
    BY <1>3, SameInput DEF vars, DigestFaithful
<1>4. ASSUME result' = Decoding PROVE DigestFaithful'
    BY <1>4 DEF DigestFaithful
<1> QED
    BY <1>1, <1>2, <1>3, <1>4 DEF Next, Decode, Resume, EndSection

\* The cardinality of a digest is the number of different windows of its input,
\* and a file without two roots has none (lib.rs: finish and digest_of).
THEOREM DigestIsFaithful == Spec => []DigestFaithful
<1>1. Init => DigestFaithful
    BY DEF Init, DigestFaithful
<1> QED
    BY <1>1, SInvAlways, DigestNext, PTL DEF Spec
-----------------------------------------------------------------------------
(* The arithmetic of the sketch: the reduction of lib.rs:181-190 is exact, *)
(* for every modulus of the form BASE - 1 and every word with room for one *)
(* bit more than BASE.                                                     *)

\* Quotient and remainder.
LEMMA Division ==
    ASSUME NEW x \in Nat, NEW b \in Nat \ {0}
    PROVE /\ x \div b \in Nat /\ x % b \in 0 .. b - 1
          /\ x = b * (x \div b) + (x % b)
BY Z3

\* There is one quotient and one remainder only.
LEMMA Unique ==
    ASSUME NEW x \in Nat, NEW b \in Nat \ {0}, NEW q \in Int, NEW r \in 0 .. b - 1,
           x = b * q + r
    PROVE x \div b = q /\ x % b = r
<1> DEFINE p == x \div b
<1>1. p \in Nat /\ x % b \in 0 .. b - 1 /\ x = b * p + (x % b)
    BY Division
<1>2. p = q
    <2>1. CASE p >= q + 1
        <3>1. b * p >= b * (q + 1)
            BY <1>1, <2>1, Z3
        <3>2. b * (q + 1) = b * q + b
            OBVIOUS
        <3> QED  BY <1>1, <3>1, <3>2
    <2>2. CASE q >= p + 1
        <3>1. b * q >= b * (p + 1)
            BY <1>1, <2>2, Z3
        <3>2. b * (p + 1) = b * p + b
            BY <1>1
        <3> QED  BY <1>1, <3>1, <3>2
    <2> QED  BY <1>1, <2>1, <2>2
<1> QED  BY <1>1, <1>2

\* A product grows with its second factor.
LEMMA Monotone ==
    ASSUME NEW a \in Nat, NEW b \in Nat, NEW c \in Nat, b <= c
    PROVE a * b <= a * c /\ a * b \in Nat /\ a * c \in Nat
<1>1. a * c = a * b + a * (c - b)
    BY Z3
<1>2. a * (c - b) >= 0 /\ a * b >= 0 /\ a * c >= 0
    BY Z3
<1> QED  BY <1>1, <1>2

\* Multiplication associates.
LEMMA Associative ==
    ASSUME NEW a \in Int, NEW b \in Int, NEW c \in Int
    PROVE (a * b) * c = a * (b * c)
BY Z3

\* Cutting a product to a word does not change its low bits.
LEMMA Cut ==
    ASSUME NEW x \in Nat
    PROVE (x % WORD) % BASE = x % BASE
<1>0. BASE \in Nat \ {0} /\ HEADROOM \in Nat /\ WORD \in Nat \ {0}
    BY SketchAssumption, Z3 DEF WORD
<1> DEFINE q == x \div WORD
           y == x % WORD
           p == y \div BASE
           r == y % BASE
<1>1. q \in Nat /\ y \in Nat /\ x = WORD * q + y
    BY <1>0, Division
<1>2. p \in Nat /\ r \in 0 .. BASE - 1 /\ y = BASE * p + r
    BY <1>0, <1>1, Division
<1>3. WORD * q = BASE * (HEADROOM * q)
    <2> HIDE DEF q
    <2> QED  BY <1>0, <1>1, Associative DEF WORD
<1>4. HEADROOM * q \in Nat
    BY <1>0, <1>1, Z3
<1> HIDE DEF q, y, p, r
<1>5. x = BASE * (HEADROOM * q + p) + r
    BY <1>0, <1>1, <1>2, <1>3, <1>4, Z3
<1>6. x % BASE = r
    BY <1>0, <1>2, <1>4, <1>5, Unique
<1> QED  BY <1>6 DEF r, y

\* The product is short of MODULUS squared, so its high part is two short of
\* MODULUS.
LEMMA ProductBound ==
    ASSUME NEW m \in Multipliers, NEW o \in Values, NEW v \in Values
    PROVE m * v + o \in Nat /\ (m * v + o) \div BASE <= MODULUS - 2
<1> DEFINE P == m * v + o
           hi == P \div BASE
<1>0. MODULUS \in Nat /\ MODULUS >= 3 /\ BASE = MODULUS + 1
    BY SketchAssumption DEF MODULUS
<1>1. m \in Nat /\ v \in Nat /\ o \in Nat /\ m <= MODULUS - 1 /\ v <= MODULUS - 1
      /\ o <= MODULUS - 1
    BY <1>0 DEF Multipliers, Values
<1>2. m * v <= (MODULUS - 1) * (MODULUS - 1) /\ m * v \in Nat
    <2>1. m * v <= m * (MODULUS - 1) /\ m * v \in Nat
        BY <1>0, <1>1, Monotone
    <2>2. (MODULUS - 1) * m <= (MODULUS - 1) * (MODULUS - 1)
        BY <1>0, <1>1, Monotone
    <2>3. m * (MODULUS - 1) = (MODULUS - 1) * m
        BY <1>0, <1>1, Z3
    <2> QED  BY <1>0, <1>1, <2>1, <2>2, <2>3
<1>3. P \in Nat /\ P <= (MODULUS - 1) * (MODULUS - 1) + (MODULUS - 1)
    BY <1>0, <1>1, <1>2, Z3
<1>4. hi \in Nat /\ P % BASE \in 0 .. BASE - 1 /\ P = BASE * hi + (P % BASE)
    <2>1. BASE \in Nat \ {0}
        BY <1>0
    <2> HIDE DEF P
    <2> QED  BY <1>3, <2>1, Division
<1>5. hi <= MODULUS - 2
    <2> SUFFICES ASSUME hi >= MODULUS - 1 PROVE FALSE
        BY <1>0, <1>4
    <2>1. BASE * hi >= BASE * (MODULUS - 1)
        <3>1. MODULUS - 1 \in Nat
            BY <1>0
        <3> HIDE DEF hi
        <3> QED  BY <1>0, <1>4, <3>1, Monotone
    <2>2. BASE * (MODULUS - 1) = (MODULUS - 1) * (MODULUS - 1) + 2 * (MODULUS - 1)
        BY <1>0, Z3
    <2> HIDE DEF hi
    <2> QED  BY <1>0, <1>3, <1>4, <2>1, <2>2, Z3
<1> QED  BY <1>3, <1>5

\* permute (lib.rs:181-190) is multiplication and addition modulo MODULUS.
THEOREM PermuteExact ==
    ASSUME NEW m \in Multipliers, NEW o \in Values, NEW v \in Values
    PROVE Permute(m, o, v) = (m * v + o) % MODULUS
<1> DEFINE P == m * v + o
           hi == P \div BASE
           lo == P % BASE
           folded == lo + hi
           final == IF folded >= MODULUS THEN folded - MODULUS ELSE folded
<1>0. MODULUS \in Nat \ {0} /\ MODULUS >= 3 /\ BASE = MODULUS + 1 /\ BASE \in Nat \ {0}
    BY SketchAssumption DEF MODULUS
<1>1. P \in Nat /\ hi <= MODULUS - 2
    BY ProductBound
<1>2. hi \in Nat /\ lo \in 0 .. BASE - 1 /\ P = BASE * hi + lo
    BY <1>0, <1>1, Division
<1>3. WORD \in Nat \ {0} /\ WORD >= 2 * BASE
    BY <1>0, SketchAssumption, Z3 DEF WORD
<1>4. \A x \in Nat : x < WORD => x % WORD = x
    <2> SUFFICES ASSUME NEW x \in Nat, x < WORD PROVE x % WORD = x
        OBVIOUS
    <2>1. x = WORD * 0 + x
        BY <1>3
    <2> QED  BY <1>3, <2>1, Unique
<1>5. Fold(P % WORD, P) = folded
    <2>1. (P % WORD) % BASE = lo
        BY <1>1, Cut
    <2>2. folded \in Nat /\ folded < WORD
        BY <1>0, <1>1, <1>2, <1>3
    <2> HIDE DEF P
    <2> QED  BY <1>4, <2>1, <2>2 DEF Fold, Low, High
<1>6. Fold(folded, folded) = IF folded < BASE THEN folded ELSE folded - MODULUS
    <2> HIDE DEF P, hi, lo
    <2>0. folded \in Nat /\ folded <= 2 * MODULUS - 2
        BY <1>0, <1>1, <1>2
    <2>1. CASE folded < BASE
        <3>1. folded \div BASE = 0 /\ folded % BASE = folded
            <4>1. folded = BASE * 0 + folded
                BY <1>0, <2>0
            <4> QED  BY <1>0, <2>0, <2>1, <4>1, Unique
        <3> HIDE DEF folded
        <3> QED  BY <1>0, <1>3, <1>4, <2>0, <2>1, <3>1 DEF Fold, Low, High
    <2>2. CASE folded >= BASE
        <3>1. folded \div BASE = 1 /\ folded % BASE = folded - BASE
            <4>1. folded = BASE * 1 + (folded - BASE) /\ folded - BASE \in 0 .. BASE - 1
                BY <1>0, <2>0, <2>2
            <4> QED  BY <1>0, <2>0, <4>1, Unique
        <3> HIDE DEF folded
        <3> QED  BY <1>0, <1>3, <1>4, <2>0, <2>2, <3>1 DEF Fold, Low, High
    <2> QED  BY <1>0, <2>0, <2>1, <2>2
<1>7. Permute(m, o, v) = final /\ final \in 0 .. MODULUS - 1
    <2>1. Permute(m, o, v) =
            LET reduced == Fold(folded, folded)
            IN  IF reduced >= MODULUS THEN reduced - MODULUS ELSE reduced
        BY <1>5 DEF Permute
    <2>2. folded \in Nat /\ folded <= 2 * MODULUS - 2
        BY <1>0, <1>1, <1>2
    <2> HIDE DEF folded
    <2> QED  BY <1>0, <1>6, <2>1, <2>2
<1>8. P % MODULUS = final
    <2> HIDE DEF P, hi, lo
    <2>1. BASE * hi + lo = MODULUS * hi + folded
        BY <1>0, <1>2, Z3
    <2>2. CASE folded >= MODULUS
        <3>1. P = MODULUS * (hi + 1) + final
            BY <1>0, <1>2, <2>1, <2>2, Z3
        <3>2. P \in Nat /\ MODULUS \in Nat \ {0} /\ hi + 1 \in Int
            BY <1>0, <1>1, <1>2
        <3> HIDE DEF final
        <3> QED  BY <1>7, <3>1, <3>2, Unique
    <2>3. CASE ~(folded >= MODULUS)
        <3>1. P = MODULUS * hi + final
            BY <1>0, <1>2, <2>1, <2>3
        <3>2. P \in Nat /\ MODULUS \in Nat \ {0} /\ hi \in Int
            BY <1>0, <1>1, <1>2
        <3> HIDE DEF final
        <3> QED  BY <1>7, <3>1, <3>2, Unique
    <2> QED  BY <2>2, <2>3
<1> QED  BY <1>7, <1>8
-----------------------------------------------------------------------------
(* What digest.py reads back from the text lib.rs writes.                  *)

\* A number is shifted digit by digit.
Shifts(rest, x, base, n) ==
    /\ rest[0] = x /\ \A k \in 1 .. n : rest[k] = rest[k - 1] \div base
    /\ \A k \in 0 .. n : rest[k] \in Nat
    /\ Shifted(x, base, n) = rest[n]

LEMMA ShiftedSteps ==
    ASSUME NEW x \in Nat, NEW base \in Nat \ {0}, NEW n \in Nat
    PROVE  \E rest : Shifts(rest, x, base, n)
<1> DEFINE step == [i \in 1 .. n |-> [v \in Nat |-> v \div base]]
           Solves(f) == f = [k \in 0 .. n |-> IF k = 0 THEN x ELSE f[k - 1] \div base]
<1>1. \A v \in Nat : v \div base \in Nat
    BY Division
<1>2. PICK f : Runs(f, n, Nat, x, step)
    <2>1. step \in [1 .. n -> [Nat -> Nat]]
        BY <1>1
    <2> HIDE DEF step
    <2> QED
        BY <2>1, Recursion
<1>3. Solves(f)
    <2>1. /\ f \in [0 .. n -> Nat] /\ f[0] = x
          /\ \A k \in 1 .. n : f[k] = step[k][f[k - 1]]
        BY <1>2 DEF Runs
    <2>2. ASSUME NEW k \in 1 .. n PROVE f[k] = f[k - 1] \div base
        <3>1. k - 1 \in 0 .. n /\ f[k - 1] \in Nat
            BY <2>1
        <3>2. step[k][f[k - 1]] = f[k - 1] \div base
            BY <3>1
        <3> QED
            BY <2>1, <3>2
    <2> QED
        BY <2>1, <2>2
<1>4. PICK g : Solves(g) /\ Shifted(x, base, n) = g[n]
    <2>1. Shifted(x, base, n) = (CHOOSE g : Solves(g))[n]
        BY DEF Shifted
    <2> HIDE DEF Solves
    <2> QED
        BY <1>3, <2>1
<1>5. g[0] = x /\ \A k \in 1 .. n : g[k] = g[k - 1] \div base
    BY <1>4
<1> DEFINE S == {k \in Nat : k <= n => g[k] \in Nat}
<1>6. 0 \in S
    BY <1>5
<1>7. ASSUME NEW k \in Nat, k \in S PROVE k + 1 \in S
    <2>1. SUFFICES ASSUME k + 1 <= n PROVE g[k + 1] \in Nat
        OBVIOUS
    <2>2. g[k] \in Nat /\ g[k + 1] = g[k] \div base
        BY <1>5, <1>7, <2>1
    <2> QED
        BY <1>1, <2>2
<1>8. Nat \subseteq S
    <2> HIDE DEF S
    <2> QED
        BY <1>6, <1>7, Induct
<1>9. \A k \in 0 .. n : g[k] \in Nat
    BY <1>8
<1> QED
    BY <1>4, <1>5, <1>9 DEF Shifts

\* The slots of a sketch, and the four of them that byte j holds.
Slots == [1 .. PERMUTATIONS -> Nat]
Slot(s, j, place) == s[PER_BYTE * (j - 1) + place] % SLOTS
Four(a, b, c, d) == ((a * SLOTS + b) * SLOTS + c) * SLOTS + d

\* The bytes and the places in them divide the slots.
LEMMA Places ==
    /\ SKETCH_BYTES \in Nat /\ PERMUTATIONS = 4 * SKETCH_BYTES
    /\ \A j \in 1 .. SKETCH_BYTES, place \in 1 .. 4 : 4 * (j - 1) + place \in 1 .. PERMUTATIONS
    /\ \A i \in 1 .. PERMUTATIONS :
          /\ ((i - 1) \div 4) + 1 \in 1 .. SKETCH_BYTES /\ ((i - 1) % 4) + 1 \in 1 .. 4
          /\ 4 * ((i - 1) \div 4) + (((i - 1) % 4) + 1) = i
<1>1. PERMUTATIONS \in Nat /\ PERMUTATIONS % 4 = 0 /\ SKETCH_BYTES = PERMUTATIONS \div 4
    BY SketchAssumption DEF PER_BYTE, SKETCH_BYTES
<1>2. SKETCH_BYTES \in Nat /\ PERMUTATIONS = 4 * SKETCH_BYTES
    BY <1>1, Z3
<1>3. \A j \in 1 .. SKETCH_BYTES, place \in 1 .. 4 : 4 * (j - 1) + place \in 1 .. PERMUTATIONS
    BY <1>2, Z3
<1>4. ASSUME NEW i \in 1 .. PERMUTATIONS
      PROVE  /\ ((i - 1) \div 4) + 1 \in 1 .. SKETCH_BYTES /\ ((i - 1) % 4) + 1 \in 1 .. 4
             /\ 4 * ((i - 1) \div 4) + (((i - 1) % 4) + 1) = i
    BY <1>2, Z3
<1> QED
    BY <1>2, <1>3, <1>4

\* A byte holds its four slots: none is lost at the upper end.
LEMMA PackedFour ==
    ASSUME NEW s \in Slots, NEW j \in 1 .. SKETCH_BYTES
    PROVE  /\ \A place \in 1 .. 4 : Slot(s, j, place) \in 0 .. 3
           /\ Packed(s, j) = Four(Slot(s, j, 1), Slot(s, j, 2), Slot(s, j, 3), Slot(s, j, 4))
           /\ Packed(s, j) \in 0 .. BYTE - 1
<1> DEFINE slot == [place \in 1 .. 4 |-> Slot(s, j, place)]
           step == [i \in 1 .. 4 |-> [v \in Nat |-> ((v * 4) % 256) + slot[i]]]
           Solves(f) == f = [k \in 0 .. PER_BYTE |->
                IF k = 0 THEN 0
                ELSE ((f[k - 1] * SLOTS) % BYTE) + (s[PER_BYTE * (j - 1) + k] % SLOTS)]
<1>1. \A place \in 1 .. 4 : slot[place] \in 0 .. 3
    <2> SUFFICES ASSUME NEW place \in 1 .. 4 PROVE Slot(s, j, place) \in 0 .. 3
        OBVIOUS
    <2>1. 4 * (j - 1) + place \in 1 .. PERMUTATIONS
        BY Places
    <2>2. s[4 * (j - 1) + place] \in Nat
        BY <2>1 DEF Slots
    <2> QED
        BY <2>2 DEF Slot, PER_BYTE, SLOTS
<1>2. PICK f : Runs(f, 4, Nat, 0, step)
    <2>1. ASSUME NEW i \in 1 .. 4, NEW v \in Nat PROVE ((v * 4) % 256) + slot[i] \in Nat
        <3> HIDE DEF slot
        <3> QED
            BY <1>1
    <2> HIDE DEF slot
    <2>2. step \in [1 .. 4 -> [Nat -> Nat]]
        BY <2>1
    <2> HIDE DEF step
    <2> QED
        BY <2>2, Recursion
<1>3. Solves(f)
    <2>1. /\ f \in [0 .. 4 -> Nat] /\ f[0] = 0
          /\ \A k \in 1 .. 4 : f[k] = step[k][f[k - 1]]
        BY <1>2 DEF Runs
    <2>2. ASSUME NEW k \in 1 .. 4
          PROVE  f[k] = ((f[k - 1] * SLOTS) % BYTE) + (s[PER_BYTE * (j - 1) + k] % SLOTS)
        BY <2>1 DEF Slot, PER_BYTE, SLOTS, BYTE
    <2> QED
        BY <2>1, <2>2 DEF PER_BYTE
<1>4. PICK g : Solves(g) /\ Packed(s, j) = g[4]
    <2>1. Packed(s, j) = (CHOOSE g : Solves(g))[4]
        BY DEF Packed, PER_BYTE
    <2> HIDE DEF Solves
    <2> QED
        BY <1>3, <2>1
<1>5. /\ g[0] = 0
      /\ g[1] = ((g[0] * 4) % 256) + slot[1] /\ g[2] = ((g[1] * 4) % 256) + slot[2]
      /\ g[3] = ((g[2] * 4) % 256) + slot[3] /\ g[4] = ((g[3] * 4) % 256) + slot[4]
    BY <1>4 DEF Slot, PER_BYTE, SLOTS, BYTE
<1>6. /\ slot[1] \in 0 .. 3 /\ slot[2] \in 0 .. 3 /\ slot[3] \in 0 .. 3 /\ slot[4] \in 0 .. 3
      /\ \A place \in 1 .. 4 : slot[place] = Slot(s, j, place)
    BY <1>1
<1> HIDE DEF slot, Solves
<1>7. \A x \in 0 .. 63 : (x * 4) % 256 = x * 4
    OBVIOUS
<1>8. g[1] = slot[1] /\ g[1] \in 0 .. 3
    BY <1>5, <1>6
<1>9. g[2] = g[1] * 4 + slot[2] /\ g[2] \in 0 .. 15
    BY <1>5, <1>6, <1>7, <1>8
<1>10. g[3] = g[2] * 4 + slot[3] /\ g[3] \in 0 .. 63
    BY <1>5, <1>6, <1>7, <1>9
<1>11. g[4] = g[3] * 4 + slot[4] /\ g[4] \in 0 .. 255
    <2>1. (g[3] * 4) % 256 = g[3] * 4
        BY <1>7, <1>10
    <2>2. PICK x \in 0 .. 63, c \in 0 .. 3 : x = g[3] /\ c = slot[4]
        BY <1>6, <1>10
    <2>3. g[4] = x * 4 + c
        BY <1>5, <2>1, <2>2
    <2>4. x * 4 + c \in 0 .. 255
        OBVIOUS
    <2> QED
        BY <2>2, <2>3, <2>4
<1>12. g[4] = Four(slot[1], slot[2], slot[3], slot[4])
    BY <1>8, <1>9, <1>10, <1>11 DEF Four, SLOTS
<1> QED
    BY <1>1, <1>4, <1>6, <1>11, <1>12 DEF BYTE

\* Each slot of a byte is read back at its place.
LEMMA ColumnOf ==
    ASSUME NEW slot \in [1 .. 4 -> 0 .. 3], NEW place \in 1 .. 4
    PROVE  Shifted(Four(slot[1], slot[2], slot[3], slot[4]), SLOTS, PER_BYTE - place) % SLOTS
              = slot[place]
<1>1. PICK a, b, c, d \in 0 .. 3 : slot[1] = a /\ slot[2] = b /\ slot[3] = c /\ slot[4] = d
    OBVIOUS
<1>2. PICK x : x = ((a * 4 + b) * 4 + c) * 4 + d
    OBVIOUS
<1>3. /\ x \in Nat /\ x % 4 = d /\ x \div 4 = (a * 4 + b) * 4 + c
      /\ ((a * 4 + b) * 4 + c) % 4 = c /\ ((a * 4 + b) * 4 + c) \div 4 = a * 4 + b
      /\ (a * 4 + b) % 4 = b /\ (a * 4 + b) \div 4 = a /\ a % 4 = a
    BY <1>2, Z3
<1>4. PICK rest : Shifts(rest, x, 4, 4 - place)
    BY <1>3, ShiftedSteps
<1>5. /\ rest[0] = x /\ \A k \in 1 .. 4 - place : rest[k] = rest[k - 1] \div 4
      /\ Shifted(x, 4, 4 - place) = rest[4 - place]
    BY <1>4 DEF Shifts
<1>6. rest[4 - place] % 4 = slot[place]
    <2>1. CASE place = 4
        BY <1>1, <1>3, <1>5, <2>1
    <2>2. CASE place = 3
        <3>1. rest[1] = x \div 4
            BY <1>5, <2>2
        <3> QED
            BY <1>1, <1>3, <2>2, <3>1
    <2>3. CASE place = 2
        <3>1. rest[1] = x \div 4 /\ rest[2] = rest[1] \div 4
            BY <1>5, <2>3
        <3> QED
            BY <1>1, <1>3, <2>3, <3>1
    <2>4. CASE place = 1
        <3>1. rest[1] = x \div 4 /\ rest[2] = rest[1] \div 4 /\ rest[3] = rest[2] \div 4
            BY <1>5, <2>4
        <3> QED
            BY <1>1, <1>3, <2>4, <3>1
    <2> QED
        BY <2>1, <2>2, <2>3, <2>4
<1> QED
    BY <1>1, <1>2, <1>5, <1>6 DEF Four, SLOTS, PER_BYTE

\* The text is read as a number byte by byte.
Reads(number, s) ==
    /\ number[0] = 0
    /\ \A j \in 1 .. SKETCH_BYTES : number[j] = number[j - 1] * BYTE + Packed(s, j)
    /\ \A j \in 0 .. SKETCH_BYTES : number[j] \in Nat
    /\ Body(s) = number[SKETCH_BYTES]

LEMMA BodySteps ==
    ASSUME NEW s \in Slots
    PROVE  \E number : Reads(number, s)
<1> DEFINE n == SKETCH_BYTES
           step == [j \in 1 .. n |-> [v \in Nat |-> v * BYTE + Packed(s, j)]]
           Solves(f) == f = [j \in 0 .. n |-> IF j = 0 THEN 0 ELSE f[j - 1] * BYTE + Packed(s, j)]
<1>1. n \in Nat /\ BYTE = 256 /\ \A j \in 1 .. n : Packed(s, j) \in Nat
    BY Places, PackedFour DEF BYTE
<1>2. ASSUME NEW v \in Nat, NEW j \in 1 .. n PROVE v * BYTE + Packed(s, j) \in Nat
    BY <1>1
<1>3. PICK f : Runs(f, n, Nat, 0, step)
    <2>1. step \in [1 .. n -> [Nat -> Nat]]
        BY <1>2
    <2> HIDE DEF step, n
    <2> QED
        BY <1>1, <2>1, Recursion
<1>4. Solves(f)
    <2>1. /\ f \in [0 .. n -> Nat] /\ f[0] = 0
          /\ \A k \in 1 .. n : f[k] = step[k][f[k - 1]]
        BY <1>3 DEF Runs
    <2>2. ASSUME NEW k \in 1 .. n PROVE f[k] = f[k - 1] * BYTE + Packed(s, k)
        <3>1. k - 1 \in 0 .. n /\ f[k - 1] \in Nat
            BY <1>1, <2>1
        <3>2. step[k][f[k - 1]] = f[k - 1] * BYTE + Packed(s, k)
            BY <3>1
        <3> QED
            BY <2>1, <3>2
    <2> QED
        BY <2>1, <2>2
<1>5. PICK g : Solves(g) /\ Body(s) = g[n]
    <2>1. Body(s) = (CHOOSE g : Solves(g))[n]
        BY DEF Body
    <2> HIDE DEF Solves
    <2> QED
        BY <1>4, <2>1
<1>6. g[0] = 0 /\ \A k \in 1 .. n : g[k] = g[k - 1] * BYTE + Packed(s, k)
    BY <1>1, <1>5
<1> DEFINE S == {k \in Nat : k <= n => g[k] \in Nat}
<1>7. 0 \in S
    BY <1>6
<1>8. ASSUME NEW k \in Nat, k \in S PROVE k + 1 \in S
    <2>1. SUFFICES ASSUME k + 1 <= n PROVE g[k + 1] \in Nat
        OBVIOUS
    <2>2. k + 1 \in 1 .. n /\ g[k] \in Nat
        BY <1>1, <1>8, <2>1
    <2>3. g[k + 1] = g[k] * BYTE + Packed(s, k + 1)
        BY <1>6, <2>2
    <2> QED
        BY <1>2, <2>2, <2>3
<1>9. Nat \subseteq S
    <2> HIDE DEF S
    <2> QED
        BY <1>7, <1>8, Induct
<1>10. \A k \in 0 .. n : g[k] \in Nat
    BY <1>9
<1> QED
    BY <1>5, <1>6, <1>10 DEF Reads

\* And each byte is read back from it.
LEMMA ByteOf ==
    ASSUME NEW s \in Slots, NEW j \in 1 .. SKETCH_BYTES
    PROVE  Shifted(Body(s), BYTE, SKETCH_BYTES - j) % BYTE = Packed(s, j)
<1>1. PICK n \in Nat : n = SKETCH_BYTES
    BY Places
<1>2. PICK number : Reads(number, s)
    BY BodySteps
<1>3. /\ number[0] = 0 /\ Body(s) = number[n]
      /\ \A i \in 1 .. n : number[i] = number[i - 1] * 256 + Packed(s, i)
      /\ \A i \in 0 .. n : number[i] \in Nat
    BY <1>1, <1>2 DEF Reads, BYTE
<1>4. ASSUME NEW i \in 1 .. n
      PROVE  number[i] \div 256 = number[i - 1] /\ number[i] % 256 = Packed(s, i)
    <2>1. PICK x \in Nat : x = number[i - 1]
        BY <1>3
    <2>2. PICK c \in 0 .. 255 : c = Packed(s, i)
        BY <1>1, PackedFour DEF BYTE
    <2>3. (x * 256 + c) \div 256 = x /\ (x * 256 + c) % 256 = c
        OBVIOUS
    <2> QED
        BY <1>3, <2>1, <2>2, <2>3
<1>5. PICK rest : Shifts(rest, Body(s), 256, n - j)
    <2>1. Body(s) \in Nat /\ n - j \in Nat
        BY <1>1, <1>3
    <2> QED
        BY <2>1, ShiftedSteps
<1>6. /\ rest[0] = number[n] /\ \A k \in 1 .. n - j : rest[k] = rest[k - 1] \div 256
      /\ Shifted(Body(s), 256, n - j) = rest[n - j]
    BY <1>3, <1>5 DEF Shifts
<1> DEFINE S == {k \in Nat : k <= n - j => rest[k] = number[n - k]}
<1>7. 0 \in S
    BY <1>1, <1>6
<1>8. ASSUME NEW k \in Nat, k \in S PROVE k + 1 \in S
    <2>1. SUFFICES ASSUME k + 1 <= n - j PROVE rest[k + 1] = number[n - (k + 1)]
        OBVIOUS
    <2>2. rest[k] = number[n - k] /\ n - k \in 1 .. n /\ k + 1 \in 1 .. n - j
        BY <1>1, <1>8, <2>1
    <2>3. rest[k + 1] = number[n - k] \div 256
        BY <1>6, <2>2
    <2>4. (n - k) - 1 = n - (k + 1)
        OBVIOUS
    <2> QED
        BY <1>4, <2>2, <2>3, <2>4
<1>9. n - j \in Nat /\ n - j \in S
    <2>1. n - j \in Nat
        BY <1>1
    <2> HIDE DEF S
    <2> QED
        BY <1>7, <1>8, <2>1, Induct
<1>10. rest[n - j] = number[j]
    <2>1. n - (n - j) = j
        BY <1>1
    <2> QED
        BY <1>9, <2>1
<1> QED
    BY <1>1, <1>4, <1>6, <1>10 DEF BYTE

\* digest.py reads back the low bits of every slot lib.rs wrote, for any number
\* of slots (lib.rs:209-219, digest.py:66, 69-75).
THEOREM ReadBack ==
    ASSUME NEW s \in Slots, NEW i \in 1 .. PERMUTATIONS
    PROVE  Unpack(Body(s))[i] = s[i] % SLOTS
<1>1. PICK j \in 1 .. SKETCH_BYTES : j = ((i - 1) \div 4) + 1
    BY Places
<1>2. PICK place \in 1 .. 4 : place = ((i - 1) % 4) + 1
    BY Places
<1>3. 4 * (j - 1) + place = i
    BY <1>1, <1>2, Places
<1>4. Unpack(Body(s))[i]
         = Shifted(Shifted(Body(s), BYTE, SKETCH_BYTES - j) % BYTE, SLOTS, PER_BYTE - place) % SLOTS
    BY <1>1, <1>2 DEF Unpack, PER_BYTE
<1>5. PICK slot : slot = [p \in 1 .. 4 |-> Slot(s, j, p)]
    OBVIOUS
<1>6. /\ slot \in [1 .. 4 -> 0 .. 3] /\ slot[place] = s[i] % SLOTS
      /\ Packed(s, j) = Four(slot[1], slot[2], slot[3], slot[4])
    <2>1. /\ \A p \in 1 .. 4 : Slot(s, j, p) \in 0 .. 3
          /\ Packed(s, j) = Four(Slot(s, j, 1), Slot(s, j, 2), Slot(s, j, 3), Slot(s, j, 4))
        BY PackedFour
    <2>2. Slot(s, j, place) = s[i] % SLOTS
        BY <1>3 DEF Slot, PER_BYTE
    <2> QED
        BY <1>5, <2>1, <2>2
<1>7. Shifted(Packed(s, j), SLOTS, PER_BYTE - place) % SLOTS = slot[place]
    BY <1>6, ColumnOf
<1> QED
    BY <1>4, <1>6, <1>7, ByteOf
-----------------------------------------------------------------------------
(* From the input to what digest.py reads.                                 *)

\* A hash may be reduced before it is multiplied.
LEMMA Reduced ==
    ASSUME NEW m \in Multipliers, NEW o \in Values, NEW h \in Nat
    PROVE  /\ h % MODULUS \in Values
           /\ (m * (h % MODULUS) + o) % MODULUS = (m * h + o) % MODULUS
           /\ (m * h + o) % MODULUS \in Values
<1>0. MODULUS \in Nat \ {0} /\ Values = 0 .. MODULUS - 1
    BY SketchAssumption DEF MODULUS, Values
<1>1. PICK q \in Nat, r \in Values : h = MODULUS * q + r /\ h % MODULUS = r
    BY <1>0, Division
<1>2. m \in Nat /\ o \in Nat /\ r \in Nat
    BY <1>0 DEF Multipliers
<1>3. PICK low \in Nat : low = m * r + o
    BY <1>2, Monotone
<1>4. PICK p \in Nat, x \in Values : low = MODULUS * p + x /\ low % MODULUS = x
    BY <1>0, Division
<1>5. PICK mq \in Nat : mq = m * q
    BY <1>1, <1>2, Monotone
<1>6. m * (MODULUS * q) = MODULUS * mq
    BY <1>0, <1>1, <1>2, <1>5, Z3
<1>7. m * h = m * (MODULUS * q) + m * r
    BY <1>0, <1>1, <1>2, Z3
<1>8. m * h + o = MODULUS * mq + low
    BY <1>0, <1>1, <1>2, <1>3, <1>5, <1>6, <1>7, Z3
<1>9. MODULUS * mq + MODULUS * p = MODULUS * (mq + p)
    BY <1>0, <1>4, <1>5, Z3
<1>10. PICK high \in Nat : high = m * h + o
    BY <1>2, Monotone
<1>11. high = MODULUS * (mq + p) + x
    BY <1>0, <1>4, <1>8, <1>9, <1>10, Z3
<1>12. high % MODULUS = x
    <2>1. mq + p \in Int /\ x \in 0 .. MODULUS - 1
        BY <1>0, <1>4, <1>5
    <2> QED
        BY <1>0, <1>11, <2>1, Unique
<1> QED
    BY <1>0, <1>1, <1>3, <1>4, <1>10, <1>12

\* What lib.rs keeps of keys in one slot is the least a * h + b of their hashes;
\* MODULUS, where it starts, is never the least.
LEMMA SmallestOf ==
    ASSUME NEW K \in SUBSET (0 .. KEYS - 1), K # {}, NEW i \in 1 .. PERMUTATIONS
    PROVE  LET slot == Smallest({h64(k) % MODULUS : k \in K})[i]
               values == {(Coefficients[i][1] * h64(k) + Coefficients[i][2]) % MODULUS : k \in K}
           IN  slot \in values /\ slot \in Nat /\ \A v \in values : slot <= v
<1>0. PICK m \in Multipliers, o \in Values : Coefficients[i] = <<m, o>>
    BY SketchAssumption
<1>1. Coefficients[i][1] = m /\ Coefficients[i][2] = o
    BY <1>0
<1> DEFINE values == {(m * h64(k) + o) % MODULUS : k \in K}
           permuted == {MODULUS} \cup {Permute(m, o, v) : v \in {h64(k) % MODULUS : k \in K}}
           slot == CHOOSE n \in permuted : \A p \in permuted : n <= p
<1>2. MODULUS \in Nat \ {0} /\ Values = 0 .. MODULUS - 1
    BY SketchAssumption DEF MODULUS, Values
<1>3. ASSUME NEW k \in K
      PROVE  /\ Permute(m, o, h64(k) % MODULUS) = (m * h64(k) + o) % MODULUS
             /\ (m * h64(k) + o) % MODULUS \in Values
    <2>1. PICK h \in Nat : h = h64(k)
        BY ShinglesAssumption
    <2>2. /\ h % MODULUS \in Values /\ (m * (h % MODULUS) + o) % MODULUS = (m * h + o) % MODULUS
          /\ (m * h + o) % MODULUS \in Values
        BY Reduced
    <2>3. Permute(m, o, h % MODULUS) = (m * (h % MODULUS) + o) % MODULUS
        BY <2>2, PermuteExact
    <2> QED
        BY <2>1, <2>2, <2>3
<1>4. permuted = {MODULUS} \cup values /\ values \subseteq Values /\ values # {}
    BY <1>3
<1>5. slot = Smallest({h64(k) % MODULUS : k \in K})[i]
    <2> DEFINE hashes == {h64(k) % MODULUS : k \in K}
               from(c, d) == {MODULUS} \cup {Permute(c, d, v) : v \in hashes}
               least(S) == CHOOSE n \in S : \A p \in S : n <= p
    <2>1. permuted = from(m, o) /\ slot = least(permuted)
        OBVIOUS
    <2>2. Smallest(hashes)[i] = least(from(Coefficients[i][1], Coefficients[i][2]))
        <3> HIDE DEF hashes
        <3> QED
            BY Zenon DEF Smallest
    <2> HIDE DEF permuted, slot, from, least
    <2> QED
        BY <1>1, <2>1, <2>2
<1> HIDE DEF values, permuted
<1>6. PICK n \in values : \A v \in values : n <= v
    <2>1. values \subseteq Nat
        BY <1>2, <1>4
    <2> QED
        BY <1>4, <2>1, Least
<1>7. n \in permuted /\ \A p \in permuted : n <= p
    BY <1>2, <1>4, <1>6
<1>8. slot \in permuted /\ \A p \in permuted : slot <= p
    BY <1>7
<1> HIDE DEF slot
<1>9. slot = n
    BY <1>2, <1>4, <1>7, <1>8
<1>10. slot \in values /\ slot \in Nat /\ \A v \in values : slot <= v
    BY <1>2, <1>4, <1>6, <1>9
<1> QED
    BY <1>1, <1>5, <1>10 DEF values

\* A digest is the sketch of the keys, and there are some.
Sketched ==
    result.some = "digest" =>
        distinct # {} /\ result.body = SketchOf({h64(k) % MODULUS : k \in distinct})

LEMMA SketchedNext == Sketched /\ [Next]_vars => Sketched'
<1> SUFFICES ASSUME Sketched, [Next]_vars PROVE Sketched'
    OBVIOUS
<1>1. ASSUME NEW s, Read(s) PROVE Sketched'
    BY <1>1 DEF Read, Decoding, Sketched
<1>2. CASE Finish
    <2>1. ASSUME result'.some = "digest" PROVE distinct # {}
        <3>1. distinct = {} => UNION {RootIds(k) : k \in distinct} = {}
            OBVIOUS
        <3>2. Cardinality({}) < 2
            BY FS_EmptySet
        <3> QED
            BY <1>2, <2>1, <3>1, <3>2 DEF Finish, NoDigest, Decoding
    <2>2. result'.some = "digest" =>
             result'.body = SketchOf({h64(k) % MODULUS : k \in distinct})
        BY <1>2 DEF Finish, NoDigest, Decoding, Digest
    <2>3. distinct' = distinct
        BY <1>2 DEF Finish
    <2> QED
        BY <2>1, <2>2, <2>3 DEF Sketched
<1>3. CASE UNCHANGED vars
    BY <1>3 DEF vars, keys, Sketched
<1> QED
    BY <1>1, <1>2, <1>3 DEF Next, Decode, Resume, EndSection

\* The least of the windows is what is read back.
LEMMA SketchedFaithful == SInv /\ Sketched => SketchFaithful
<1> SUFFICES ASSUME SInv, Sketched, result.some = "digest", NEW i \in 1 .. PERMUTATIONS
             PROVE  LET values ==
                            {(Coefficients[i][1] * h64(Pack(w)) + Coefficients[i][2]) % MODULUS :
                                w \in Windows}
                    IN  \E least \in values : /\ \A v \in values : least <= v
                                              /\ Unpack(result.body)[i] = least % SLOTS
    BY DEF SketchFaithful
<1> DEFINE smallest == Smallest({h64(k) % MODULUS : k \in distinct})
           values == {(Coefficients[i][1] * h64(k) + Coefficients[i][2]) % MODULUS : k \in distinct}
           ofWindows ==
               {(Coefficients[i][1] * h64(Pack(w)) + Coefficients[i][2]) % MODULUS : w \in Windows}
<1>1. distinct \in SUBSET (0 .. KEYS - 1) /\ distinct # {} /\ result.body = Body(smallest)
    BY DEF SInv, TypeOK, Sketched, SketchOf
<1>2. smallest[i] \in values /\ \A v \in values : smallest[i] <= v
    BY <1>1, SmallestOf
<1>3. smallest \in Slots
    <2>1. \A j \in 1 .. PERMUTATIONS : smallest[j] \in Nat
        BY <1>1, SmallestOf
    <2>2. smallest = [j \in 1 .. PERMUTATIONS |-> smallest[j]]
        BY DEF Smallest
    <2> HIDE DEF smallest
    <2> QED
        BY <2>1, <2>2 DEF Slots
<1>4. Unpack(result.body)[i] = smallest[i] % SLOTS
    BY <1>1, <1>3, ReadBack
<1>5. values = ofWindows
    BY DEF SInv, ShinglesExact
<1> HIDE DEF smallest, values
<1> QED
    BY <1>2, <1>4, <1>5

\* What digest.py reads back are the low bits of the least a * h + b modulo
\* MODULUS over all windows of the input, whatever the code, the coefficients
\* and the width of the modulus (lib.rs:181-219, digest.py:66-75).
THEOREM SketchIsFaithful == Spec => []SketchFaithful
<1>1. Init => Sketched
    BY DEF Init, Decoding, Sketched
<1>2. Spec => []Sketched
    BY <1>1, SketchedNext, PTL DEF Spec
<1> QED
    BY <1>2, SInvAlways, SketchedFaithful, PTL
=============================================================================
