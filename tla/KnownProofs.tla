----------------------------- MODULE KnownProofs -----------------------------
(***************************************************************************)
(* Proofs about Known and the scores it computes, for every file of        *)
(* digests, every cardinality and every number of permutations and slots.  *)
(***************************************************************************)
EXTENDS Known, Induction
-----------------------------------------------------------------------------
(* The file is read line by line.                                          *)

\* The lines read so far that are not blank.
Filled(n) == {k \in 1 .. n : lines[k] # Blank}

\* What was read of the lines, each of which is a blank, garbled or a digest.
Reading ==
    /\ \E n \in Nat : lines \in [1 .. n -> Lines]
    /\ read \in 0 .. Len(lines) /\ unparsed \in Nat
    /\ labels \in Seq(Nat) /\ sketches \in Seq(Sketches)
    /\ \A i \in 1 .. Len(labels) : labels[i] <= read

\* The kinds of line differ.
LEMMA KindsDiffer ==
    /\ Blank \in Lines /\ Garbled \in Lines /\ Blank # Garbled
    /\ \A line \in Lines : \/ line = Blank /\ line.kind = "blank"
                           \/ line = Garbled /\ line.kind = "garbled" /\ line # Blank
                           \/ /\ line.kind = "digest" /\ line.sketch \in Sketches
                              /\ line # Blank
                              /\ line = [kind |-> "digest", sketch |-> line.sketch]
BY DEF Lines, Blank, Garbled

\* One more line counts one more unless it is blank.
LEMMA FilledGrows ==
    ASSUME NEW n \in Nat
    PROVE  /\ Cardinality(Filled(n)) \in Nat /\ Filled(0) = {}
           /\ lines[n + 1] = Blank => Filled(n + 1) = Filled(n)
           /\ lines[n + 1] # Blank => Cardinality(Filled(n + 1)) = Cardinality(Filled(n)) + 1
<1>1. IsFiniteSet(1 .. n)
    BY FS_Interval
<1>2. IsFiniteSet(Filled(n)) /\ Cardinality(Filled(n)) \in Nat
    BY <1>1, FS_Subset, FS_CardinalityType DEF Filled
<1>3. \A k \in 1 .. n + 1 : k \in 1 .. n \/ k = n + 1
    OBVIOUS
<1>4. 1 .. n \subseteq 1 .. n + 1 /\ n + 1 \in 1 .. n + 1 /\ n + 1 \notin 1 .. n
    OBVIOUS
<1>5. ASSUME lines[n + 1] = Blank PROVE Filled(n + 1) = Filled(n)
    BY <1>3, <1>4, <1>5 DEF Filled
<1>6. ASSUME lines[n + 1] # Blank PROVE Cardinality(Filled(n + 1)) = Cardinality(Filled(n)) + 1
    <2>1. Filled(n + 1) = Filled(n) \cup {n + 1} /\ n + 1 \notin Filled(n)
        BY <1>3, <1>4, <1>6 DEF Filled
    <2> QED
        BY <1>2, <2>1, FS_AddElement
<1> QED
    BY <1>2, <1>5, <1>6 DEF Filled

\* A line leaves the lists, or extends both by its own.
LEMMA TakeExtends ==
    ASSUME Reading, LabelsFit, ReadLine
    PROVE  Reading' /\ LabelsFit'
<1> DEFINE line == lines[read + 1]
<1>1. /\ read' = read + 1 /\ UNCHANGED lines /\ read < Len(lines) /\ Take(line)
      /\ read \in Nat
    BY DEF ReadLine, Reading
<1>2. PICK n \in Nat : lines \in [1 .. n -> Lines]
    BY DEF Reading
<1>3. Len(lines) = n
    BY <1>2 DEF Reading
<1>4. line \in Lines /\ read' \in 0 .. Len(lines)
    BY <1>1, <1>2, <1>3
<1>5. /\ labels \in Seq(Nat) /\ sketches \in Seq(Sketches) /\ unparsed \in Nat
      /\ Len(labels) = Len(sketches)
      /\ \A i \in 1 .. Len(labels) : labels[i] \in Nat /\ labels[i] < read + 1
    BY <1>1 DEF Reading, LabelsFit
<1>6. /\ Len(sketches) + unparsed = Cardinality(Filled(read))
      /\ (Cardinality({k \in 1 .. read : lines[k] # Blank}))' = Cardinality(Filled(read + 1))
    BY <1>1 DEF LabelsFit, Filled
<1>7. CASE line = Blank
    <2>1. UNCHANGED <<labels, sketches, unparsed>>
        BY <1>1, <1>4, <1>7, KindsDiffer DEF Take
    <2>2. Filled(read + 1) = Filled(read)
        BY <1>1, <1>7, FilledGrows
    <2>3. Reading'
        <3>1. labels' = labels /\ sketches' = sketches /\ unparsed' = unparsed
            BY <2>1
        <3>2. \A i \in 1 .. Len(labels) : labels[i] <= read'
            BY <1>1, <1>5
        <3> QED
            BY <1>1, <1>2, <1>4, <1>5, <3>1, <3>2 DEF Reading
    <2>4. LabelsFit'
        BY <1>1, <1>5, <1>6, <2>1, <2>2 DEF LabelsFit, Indices
    <2> QED
        BY <2>3, <2>4
<1>8. CASE line.kind = "garbled"
    <2>1. unparsed' = unparsed + 1 /\ UNCHANGED <<labels, sketches>> /\ line # Blank
        BY <1>1, <1>4, <1>8, KindsDiffer DEF Take
    <2>2. Cardinality(Filled(read + 1)) = Cardinality(Filled(read)) + 1
        BY <1>1, <2>1, FilledGrows
    <2>3. Reading'
        BY <1>1, <1>2, <1>4, <1>5, <2>1 DEF Reading
    <2>4. Len(sketches)' + unparsed' = Cardinality(Filled(read + 1))
        BY <1>5, <1>6, <2>1, <2>2
    <2>5. LabelsFit'
        BY <1>1, <1>5, <1>6, <2>1, <2>4 DEF LabelsFit, Indices
    <2> QED
        BY <2>3, <2>5
<1>9. CASE line.kind = "digest"
    <2>1. /\ labels' = Append(labels, read + 1) /\ sketches' = Append(sketches, line.sketch)
          /\ unparsed' = unparsed /\ line # Blank /\ line.sketch \in Sketches
          /\ line = [kind |-> "digest", sketch |-> line.sketch]
        BY <1>1, <1>4, <1>9, KindsDiffer DEF Take
    <2> DEFINE m == Len(labels)
    <2>2. /\ m \in Nat /\ Len(labels') = m + 1 /\ Len(sketches') = m + 1
          /\ labels'[m + 1] = read + 1 /\ sketches'[m + 1] = line.sketch
          /\ \A i \in 1 .. m : labels'[i] = labels[i] /\ sketches'[i] = sketches[i]
          /\ \A i \in 1 .. m : labels[i] \in Nat /\ labels[i] < read + 1
        BY <1>5, <2>1
    <2>3. Cardinality(Filled(read + 1)) = Cardinality(Filled(read)) + 1
        BY <1>1, <2>1, FilledGrows
    <2>4. Reading'
        <3>1. labels' \in Seq(Nat) /\ sketches' \in Seq(Sketches)
            BY <1>1, <1>5, <2>1
        <3>2. \A i \in 1 .. Len(labels') : labels'[i] <= read'
            BY <1>1, <2>2
        <3> QED
            BY <1>1, <1>2, <1>4, <1>5, <2>1, <3>1, <3>2 DEF Reading
    <2>5. \A i \in 1 .. m + 1 : lines[labels'[i]] = [kind |-> "digest", sketch |-> sketches'[i]]
        <3>1. \A i \in 1 .. m : lines[labels[i]] = [kind |-> "digest", sketch |-> sketches[i]]
            BY <1>5 DEF LabelsFit, Indices
        <3>2. lines[labels'[m + 1]] = [kind |-> "digest", sketch |-> sketches'[m + 1]]
            BY <2>1, <2>2
        <3>3. \A i \in 1 .. m + 1 : i \in 1 .. m \/ i = m + 1
            BY <2>2
        <3> QED
            BY <2>2, <3>1, <3>2, <3>3
    <2>6. \A i, j \in 1 .. m + 1 : i < j => labels'[i] < labels'[j]
        <3>1. \A i, j \in 1 .. m : i < j => labels[i] < labels[j]
            BY <1>5 DEF LabelsFit, Indices
        <3>2. \A i \in 1 .. m : labels[i] < read + 1
            BY <2>2
        <3>3. ASSUME NEW i \in 1 .. m + 1, NEW j \in 1 .. m + 1, i < j
              PROVE  labels'[i] < labels'[j]
            <4>1. i \in 1 .. m /\ (j \in 1 .. m \/ j = m + 1)
                BY <2>2, <3>3
            <4> QED
                BY <2>2, <3>1, <3>2, <3>3, <4>1
        <3> QED
            BY <3>3
    <2>7. Len(sketches') + unparsed' = Cardinality(Filled(read + 1))
        BY <1>5, <1>6, <2>1, <2>2, <2>3
    <2> HIDE DEF m
    <2>8. LabelsFit'
        BY <1>1, <1>6, <2>2, <2>5, <2>6, <2>7 DEF LabelsFit, Indices
    <2> QED
        BY <2>4, <2>8
<1> QED
    BY <1>4, <1>7, <1>8, <1>9, KindsDiffer

\* Every other step leaves the file and the lists as they are.
LEMMA OthersKeep == [Next]_vars => ReadLine \/ UNCHANGED <<lines, reading>>
BY DEF Next, vars, Refused, BadQuery, Start, Compare, ReadFails, ReadAll, Match, Cross,
       CrossPair, ReaderGone, loops, counts

\* The label of every digest is the line it was read from, whatever is skipped
\* in between (cli.py: _read_digests).
THEOREM LabelsStay == Spec => []LabelsFit
<1>1. Init => Reading /\ LabelsFit
    <2> SUFFICES ASSUME Init PROVE Reading /\ LabelsFit
        OBVIOUS
    <2>1. PICK n \in 0 .. MaxLines : lines \in [1 .. n -> Lines]
        BY DEF Init
    <2>2. n \in Nat
        BY <2>1, KnownAssumption
    <2>3. Cardinality({k \in 1 .. 0 : lines[k] # Blank}) = 0
        BY FS_EmptySet
    <2>4. read = 0 /\ labels = <<>> /\ sketches = <<>> /\ unparsed = 0
        BY DEF Init
    <2>5. Len(lines) = n
        BY <2>1, <2>2
    <2>6. Reading
        BY <2>1, <2>2, <2>4, <2>5 DEF Reading
    <2> QED
        BY <2>3, <2>4, <2>6 DEF LabelsFit, Indices
<1>2. Reading /\ LabelsFit /\ [Next]_vars => Reading' /\ LabelsFit'
    <2> SUFFICES ASSUME Reading, LabelsFit, [Next]_vars PROVE Reading' /\ LabelsFit'
        OBVIOUS
    <2>1. CASE ReadLine
        BY <2>1, TakeExtends
    <2>2. CASE UNCHANGED <<lines, reading>>
        BY <2>2 DEF reading, Reading, LabelsFit, Indices
    <2> QED
        BY <2>1, <2>2, OthersKeep
<1> QED
    BY <1>1, <1>2, PTL DEF Spec
-----------------------------------------------------------------------------
(* Scores.                                                                 *)

\* Products grow with a factor.
LEMMA Times ==
    ASSUME NEW a \in Nat, NEW b \in Nat, NEW c \in Nat, b <= c
    PROVE  a * b <= a * c /\ b * a <= c * a /\ a * b \in Nat /\ a * c \in Nat
<1>1. a * c = a * b + a * (c - b) /\ a * (c - b) >= 0 /\ a * b >= 0
    BY SMT
<1>2. a * b = b * a /\ a * c = c * a
    BY SMT
<1> QED
    BY <1>1, <1>2, SMT

\* A share of the whole.
Share(f) == f[1] \in Nat /\ f[2] \in Nat \ {0} /\ f[1] <= f[2]

\* What a digest may be.
Digests == {s \in Sketches \cup Given : s.cardinality \in Nat}

\* The slots that agree are the same from either side.
LEMMA AgreedCounts ==
    ASSUME NEW a, NEW b
    PROVE  /\ Agreed(a, b) \in 0 .. PERMUTATIONS
           /\ Agreed(a, b) = Agreed(b, a)
           /\ a = b => Agreed(a, b) = PERMUTATIONS
<1>1. PERMUTATIONS \in Nat
    BY ScoreAssumption
<1>2. IsFiniteSet(1 .. PERMUTATIONS) /\ Cardinality(1 .. PERMUTATIONS) = PERMUTATIONS
    BY <1>1, FS_Interval
<1> DEFINE same == {i \in 1 .. PERMUTATIONS : a.slots[i] = b.slots[i]}
<1>3. Cardinality(same) \in Nat /\ Cardinality(same) <= PERMUTATIONS
    <2>1. same \subseteq 1 .. PERMUTATIONS
        OBVIOUS
    <2> HIDE DEF same
    <2> QED
        BY <1>2, <2>1, FS_Subset, FS_CardinalityType
<1>4. same = {i \in 1 .. PERMUTATIONS : b.slots[i] = a.slots[i]}
    OBVIOUS
<1>5. a = b => same = 1 .. PERMUTATIONS
    OBVIOUS
<1> QED
    <2>1. Agreed(a, b) = Cardinality(same)
        BY DEF Agreed
    <2>2. Agreed(b, a) = Cardinality(same)
        BY <1>4 DEF Agreed
    <2> HIDE DEF same
    <2> QED
        BY <1>1, <1>2, <1>3, <1>5, <2>1, <2>2

\* Chance agreement taken off, a share is left: all of it when all agree.
LEMMA CorrectedShare ==
    ASSUME NEW n \in 0 .. PERMUTATIONS
    PROVE  /\ Share(Corrected(n))
           /\ n = PERMUTATIONS => Corrected(n)[1] = Corrected(n)[2]
<1> DEFINE whole == PERMUTATIONS * (SLOTS - 1)
           left == n * SLOTS - PERMUTATIONS
<1>1. /\ PERMUTATIONS \in Nat /\ PERMUTATIONS >= 1 /\ SLOTS \in Nat /\ SLOTS >= 2
      /\ n \in Nat /\ n <= PERMUTATIONS
    BY ScoreAssumption
<1>2. whole = PERMUTATIONS * SLOTS - PERMUTATIONS /\ whole \in Int
    BY <1>1, SMT
<1>3. n * SLOTS <= PERMUTATIONS * SLOTS /\ n * SLOTS \in Nat /\ PERMUTATIONS * SLOTS \in Nat
    BY <1>1, Times, SMT
<1>4. whole >= 1
    <2>1. PERMUTATIONS * 1 <= PERMUTATIONS * (SLOTS - 1)
        BY <1>1, Times
    <2> QED
        BY <1>1, <2>1
<1>5. left \in Int /\ left <= whole /\ (n = PERMUTATIONS => left = whole)
    BY <1>1, <1>2, <1>3
<1>6. Corrected(n)[1] = Larger(0, left) /\ Corrected(n)[2] = whole
    BY DEF Corrected
<1> HIDE DEF whole, left
<1> QED
    BY <1>2, <1>4, <1>5, <1>6 DEF Larger, Share

\* No index exceeds the smaller over the larger, from either side.
LEMMA BoundShare ==
    ASSUME NEW l \in Nat, NEW r \in Nat
    PROVE  /\ Share(Bound(l, r)) /\ Bound(l, r) = Bound(r, l)
           /\ l = r => Bound(l, r)[1] = Bound(l, r)[2]
           /\ Bound(l, r)[2] * Smaller(l, r) = Bound(l, r)[1] * Larger(l, r)
<1>1. Larger(l, r) = Larger(r, l) /\ Smaller(l, r) = Smaller(r, l)
    BY DEF Larger, Smaller
<1>2. Larger(l, r) \in Nat /\ Smaller(l, r) \in Nat /\ Smaller(l, r) <= Larger(l, r)
    BY DEF Larger, Smaller
<1>3. Bound(l, r) = Bound(r, l)
    BY <1>1 DEF Bound
<1>4. CASE Larger(l, r) > 0
    <2>1. Bound(l, r)[1] = Smaller(l, r) /\ Bound(l, r)[2] = Larger(l, r)
        BY <1>4 DEF Bound
    <2>2. Larger(l, r) * Smaller(l, r) = Smaller(l, r) * Larger(l, r)
        BY <1>2, SMT
    <2>3. l = r => Smaller(l, r) = Larger(l, r)
        BY DEF Smaller, Larger
    <2> QED
        BY <1>2, <1>3, <1>4, <2>1, <2>2, <2>3 DEF Share
<1>5. CASE ~(Larger(l, r) > 0)
    <2>1. Bound(l, r)[1] = 1 /\ Bound(l, r)[2] = 1
        BY <1>5 DEF Bound, One
    <2>2. Larger(l, r) = 0 /\ Smaller(l, r) = 0
        BY <1>2, <1>5
    <2> QED
        BY <1>3, <2>1, <2>2 DEF Share
<1> QED
    BY <1>4, <1>5

\* Similarity is a share, the same from either side, all of a digest with
\* itself, and within the bound.
LEMMA SimilarityShare ==
    ASSUME NEW a \in Digests, NEW b \in Digests
    PROVE  LET s == Similarity(a, b) IN
           /\ Share(s) /\ s = Similarity(b, a)
           /\ a = b => s[1] = s[2]
           /\ s[1] * Larger(a.cardinality, b.cardinality)
                 <= s[2] * Smaller(a.cardinality, b.cardinality)
<1> DEFINE c == Corrected(Agreed(a, b))
           d == Bound(a.cardinality, b.cardinality)
           s == Similarity(a, b)
           large == Larger(a.cardinality, b.cardinality)
           small == Smaller(a.cardinality, b.cardinality)
<1>1. a.cardinality \in Nat /\ b.cardinality \in Nat
    BY DEF Digests
<1>2. Share(c) /\ (a = b => c[1] = c[2])
    BY AgreedCounts, CorrectedShare
<1>3. /\ Share(d) /\ (a = b => d[1] = d[2])
      /\ d = Bound(b.cardinality, a.cardinality) /\ d[2] * small = d[1] * large
    BY <1>1, BoundShare
<1>4. s = (IF Leq(c, d) THEN c ELSE d) /\ s = Similarity(b, a)
    BY <1>3, AgreedCounts DEF Similarity
<1>5. large \in Nat /\ small \in Nat
    BY <1>1 DEF Larger, Smaller
<1>6. s[1] * large <= s[2] * small
    <2> HIDE DEF c, d, large, small, s
    <2>1. CASE Leq(c, d)
        <3>1. PICK n, m, p, q \in Nat : /\ c[1] = n /\ c[2] = m /\ d[1] = p /\ d[2] = q
                                       /\ m >= 1 /\ q >= 1
            BY <1>2, <1>3 DEF Share
        <3>2. n * q <= p * m /\ q * small = p * large
            BY <1>3, <2>1, <3>1 DEF Leq
        <3>3. q * (n * large) <= q * (m * small)
            <4>1. (n * q) * large <= (p * m) * large
                BY <1>5, <3>1, <3>2, Times, SMT
            <4>2. (n * q) * large = q * (n * large)
                BY <1>5, <3>1, SMT
            <4>3. (p * m) * large = m * (p * large) /\ m * (q * small) = q * (m * small)
                BY <1>5, <3>1, SMT
            <4> QED
                BY <3>2, <4>1, <4>2, <4>3
        <3>4. n * large <= m * small
            <4>1. n * large \in Nat /\ m * small \in Nat
                BY <1>5, <3>1, SMT
            <4>2. ASSUME NEW x \in Nat, NEW y \in Nat, q * x <= q * y PROVE x <= y
                <5>1. SUFFICES ASSUME y + 1 <= x PROVE FALSE
                    BY <4>2
                <5>2. q * (y + 1) <= q * x
                    BY <3>1, <5>1, Times
                <5>3. q * (y + 1) = q * y + q
                    BY <3>1, SMT
                <5>4. q * x \in Nat /\ q * y \in Nat
                    BY <3>1, Times
                <5> QED
                    BY <3>1, <4>2, <5>2, <5>3, <5>4
            <4> QED
                BY <3>3, <4>1, <4>2
        <3> QED
            BY <1>4, <2>1, <3>1, <3>4
    <2>2. CASE ~Leq(c, d)
        <3>1. d[1] * large \in Nat
            BY <1>3, <1>5, SMT DEF Share
        <3> QED
            BY <1>3, <1>4, <2>2, <3>1
    <2> QED
        BY <2>1, <2>2
<1> HIDE DEF c, d, large, small, s
<1>7. Share(s) /\ (a = b => s[1] = s[2])
    BY <1>2, <1>3, <1>4
<1> QED
    BY <1>4, <1>6, <1>7 DEF s, large, small
\* Containment is withheld by size alone, the same from either side, and else
\* a share of each side, no less than the similarity.
LEMMA ContainmentShares ==
    ASSUME NEW j, Share(j), NEW l \in Nat, NEW r \in Nat,
           j[1] * Larger(l, r) <= j[2] * Smaller(l, r)
    PROVE  LET c == Containment(j, l, r)
               back == Containment(j, r, l) IN
           /\ c = Withheld <=> l = 0 \/ r = 0 \/ l > 4 * r \/ r > 4 * l
           /\ c = Withheld => back = Withheld
           /\ c # Withheld =>
                 /\ back # Withheld
                 /\ c[1] = back[2] /\ c[2] = back[1]
                 /\ c[1][1] \in Nat /\ c[1][2] \in Nat /\ c[2][1] \in Nat /\ c[2][2] \in Nat
                 /\ Leq(j, c[1]) /\ Leq(j, c[2])
                 /\ Leq(c[1], One) /\ Leq(c[2], One)
                 /\ l <= r => Leq(c[2], c[1])
<1> DEFINE c == Containment(j, l, r)
           back == Containment(j, r, l)
           far == Smaller(l, r) = 0 \/ Larger(l, r) > Smaller(l, r) * MAX_CONTAINMENT_RATIO
<1>1. PICK n, d \in Nat : n = j[1] /\ d = j[2] /\ n <= d /\ d >= 1
    BY DEF Share
<1>2. Larger(l, r) = Larger(r, l) /\ Smaller(l, r) = Smaller(r, l)
    BY DEF Larger, Smaller
<1>3. far <=> l = 0 \/ r = 0 \/ l > 4 * r \/ r > 4 * l
    BY DEF Larger, Smaller, MAX_CONTAINMENT_RATIO
<1> DEFINE shared == n * (l + r)
           left == (n + d) * l
           right == (n + d) * r
<1>4. far => c = Withheld /\ back = Withheld
    BY <1>2 DEF Containment
<1>5. ~far => /\ c = <<<<shared, left>>, <<shared, right>>>>
              /\ back = <<<<shared, right>>, <<shared, left>>>>
    <2>1. l + r = r + l
        OBVIOUS
    <2> QED
        BY <1>1, <1>2, <2>1 DEF Containment
<1>6. ~far => c # Withheld /\ back # Withheld
    <2>1. \A x, y : <<x, y>> # << >>
        <3>1. \A x, y : Len(<<x, y>>) = 2 /\ Len(<< >>) = 0
            OBVIOUS
        <3> QED
            BY <3>1
    <2> QED
        BY <1>5, <2>1 DEF Withheld
<1>7. n * l <= d * r /\ n * r <= d * l
    <2>1. n * l \in Nat /\ n * r \in Nat /\ d * l \in Nat /\ d * r \in Nat
        BY <1>1, Times, SMT
    <2>2. CASE l <= r
        <3>1. Larger(l, r) = r /\ Smaller(l, r) = l
            BY <2>2 DEF Larger, Smaller
        <3>2. n * r <= d * l
            BY <1>1, <3>1
        <3>3. n * l <= d * l /\ d * l <= d * r
            BY <1>1, <2>2, Times
        <3> QED
            BY <2>1, <3>2, <3>3
    <2>3. CASE r < l
        <3>1. Larger(l, r) = l /\ Smaller(l, r) = r
            BY <2>3 DEF Larger, Smaller
        <3>2. n * l <= d * r
            BY <1>1, <3>1
        <3>3. n * r <= d * r /\ d * r <= d * l
            BY <1>1, <2>3, Times
        <3> QED
            BY <2>1, <3>2, <3>3
    <2> QED
        BY <2>2, <2>3
<1>8. /\ shared = n * l + n * r /\ left = n * l + d * l /\ right = n * r + d * r
      /\ n * l \in Nat /\ n * r \in Nat /\ d * l \in Nat /\ d * r \in Nat
    BY <1>1, SMT
<1>9. shared \in Nat /\ left \in Nat /\ right \in Nat /\ shared <= left /\ shared <= right
    BY <1>7, <1>8
<1>10. n * left <= shared * d /\ n * right <= shared * d
    <2>1. left <= d * (l + r) /\ right <= d * (l + r) /\ d * (l + r) \in Nat
        <3>1. d * (l + r) = d * l + d * r
            BY <1>1, SMT
        <3> QED
            BY <1>7, <1>8, <3>1
    <2>2. shared * d = n * (d * (l + r))
        BY <1>1, SMT
    <2> HIDE DEF shared, left, right
    <2>3. n * left <= n * (d * (l + r)) /\ n * right <= n * (d * (l + r))
        BY <1>1, <1>9, <2>1, Times
    <2> QED
        BY <2>2, <2>3
<1>11. l <= r => left <= right
    BY <1>1, Times
<1> HIDE DEF c, back, far, shared, left, right
<1>12. l <= r => shared * left <= shared * right
    BY <1>9, <1>11, Times
<1>13. ASSUME ~far
       PROVE  /\ c[1] = back[2] /\ c[2] = back[1]
              /\ c[1][1] \in Nat /\ c[1][2] \in Nat /\ c[2][1] \in Nat /\ c[2][2] \in Nat
              /\ Leq(j, c[1]) /\ Leq(j, c[2])
              /\ Leq(c[1], One) /\ Leq(c[2], One)
              /\ l <= r => Leq(c[2], c[1])
    <2>1. /\ c[1] = <<shared, left>> /\ c[2] = <<shared, right>>
          /\ back[1] = <<shared, right>> /\ back[2] = <<shared, left>>
        BY <1>5, <1>13
    <2>2. Leq(j, c[1]) /\ Leq(j, c[2])
        BY <1>1, <1>10, <2>1 DEF Leq
    <2>3. Leq(c[1], One) /\ Leq(c[2], One)
        BY <1>9, <2>1 DEF Leq, One
    <2>4. l <= r => Leq(c[2], c[1])
        BY <1>12, <2>1 DEF Leq
    <2> QED
        BY <1>9, <2>1, <2>2, <2>3, <2>4
<1> QED
    BY <1>3, <1>4, <1>6, <1>13 DEF c, back

\* compare answers with the scores of what it was given.
Compared ==
    Said("compare") =>
        /\ answer.left \in Given /\ answer.right \in Given
        /\ answer.scores = Scores(answer.left, answer.right)

\* Only compare says so.
LEMMA ComparedAlways == Spec => []Compared
<1>1. Init => Compared
    BY DEF Init, Compared, Said, Nothing
<1>2. Compared /\ [Next]_vars => Compared'
    <2> SUFFICES ASSUME Compared, [Next]_vars PROVE Compared'
        OBVIOUS
    <2>1. answer' = answer => Compared'
        BY DEF Compared, Said
    <2>2. answer'.command # "compare" => Compared'
        BY DEF Compared, Said
    <2>3. ASSUME NEW l \in Given, NEW r \in Given, Compare(l, r) PROVE Compared'
        <3>1. CASE l.target # r.target
            BY <2>2, <2>3, <3>1 DEF Compare, Finish, Usage
        <3>2. CASE l.target = r.target
            <4>1. answer' = [command |-> "compare", left |-> l, right |-> r,
                             scores |-> Scores(l, r)]
                BY <2>3, <3>2 DEF Compare, Finish
            <4> QED
                BY <4>1 DEF Compared, Said
        <3> QED
            BY <3>1, <3>2
    <2>4. Refused \/ BadQuery \/ ReadFails \/ ReaderGone => answer'.command # "compare"
        BY DEF Refused, BadQuery, ReadFails, ReaderGone, Finish, Usage
    <2>5. ASSUME NEW top, NEW floor, Match(top, floor) PROVE answer'.command # "compare"
        <3>1. CASE Of(query.target) = {}
            BY <2>5, <3>1 DEF Match, Finish, Usage
        <3>2. CASE Of(query.target) # {}
            BY <2>5, <3>2 DEF Match, Finish
        <3> QED
            BY <3>1, <3>2
    <2>6. ASSUME NEW floor, Cross(floor)
          PROVE  answer' = answer \/ answer'.command # "compare"
        BY <2>6 DEF Cross, Finish, Usage
    <2>7. CrossPair => answer' = answer \/ answer'.command # "compare"
        BY DEF CrossPair, Advance, Finish
    <2>8. ReadLine \/ ReadAll \/ (\E q \in Given \cup {NoQuery} : Start(q)) => answer' = answer
        BY DEF ReadLine, ReadAll, Start
    <2>9. UNCHANGED vars => answer' = answer
        BY DEF vars
    <2> QED
        BY <2>1, <2>2, <2>3, <2>4, <2>5, <2>6, <2>7, <2>8, <2>9 DEF Next
<1> QED
    BY <1>1, <1>2, PTL DEF Spec

\* What compare says, of any two digests.
LEMMA ComparedSound == Compared => ComparesAlike /\ ContainmentSound
<1> SUFFICES ASSUME Compared, Said("compare") PROVE ComparesAlike /\ ContainmentSound
    BY DEF ComparesAlike, ContainmentSound
<1> DEFINE a == answer.left
           b == answer.right
           s == answer.scores
           back == Scores(b, a)
           j == Similarity(a, b)
           l == a.cardinality
           r == b.cardinality
<1>1. a \in Digests /\ b \in Digests /\ l \in Nat /\ r \in Nat /\ s = Scores(a, b)
    BY KnownAssumption DEF Compared, Digests
<1>2. /\ Share(j) /\ j = Similarity(b, a) /\ (a = b => j[1] = j[2])
      /\ j[1] * Larger(l, r) <= j[2] * Smaller(l, r)
    BY <1>1, SimilarityShare
<1>3. /\ s.similarity = j /\ s.containment = Containment(j, l, r)
      /\ back.similarity = j /\ back.containment = Containment(j, r, l)
    BY <1>1, <1>2 DEF Scores
<1>4. PICK n, d \in Nat : j[1] = n /\ j[2] = d /\ n <= d /\ d >= 1
    BY <1>2 DEF Share
<1>5. \A f : f[1] \in Nat /\ f[2] \in Nat => Equal(f, f)
    <2>1. \A x, y \in Nat : x * y \in Nat /\ x * y <= x * y
        BY SMT
    <2> QED
        BY <2>1 DEF Equal, Leq
<1> HIDE DEF a, b, s, back, j, l, r
<1>6. ComparesAlike
    <2>1. /\ Leq(<<0, 1>>, j) /\ Leq(j, One) /\ Equal(j, j)
          /\ a = b => Equal(j, One)
        BY <1>2, <1>4, <1>5 DEF Leq, Equal, One
    <2>2. s.containment = Withheld => back.containment = Withheld
        BY <1>1, <1>2, <1>3, ContainmentShares
    <2>3. s.containment # Withheld =>
              /\ Equal(s.containment[1], back.containment[2])
              /\ Equal(s.containment[2], back.containment[1])
        BY <1>1, <1>2, <1>3, <1>5, ContainmentShares
    <2> QED
        BY <1>3, <2>1, <2>2, <2>3 DEF ComparesAlike, s, back, a, b
<1>7. ContainmentSound
    <2>1. s.containment = Withheld <=> l = 0 \/ r = 0 \/ l > 4 * r \/ r > 4 * l
        BY <1>1, <1>2, <1>3, ContainmentShares
    <2>2. s.containment # Withheld =>
              /\ Leq(j, s.containment[1]) /\ Leq(j, s.containment[2])
              /\ Leq(s.containment[1], One) /\ Leq(s.containment[2], One)
              /\ l <= r => Leq(s.containment[2], s.containment[1])
        BY <1>1, <1>2, <1>3, ContainmentShares
    <2> QED
        BY <1>3, <2>1, <2>2 DEF ContainmentSound, s, l, r, a, b
<1> QED
    BY <1>6, <1>7

\* Comparing the other way round gives the same scores, and a digest matches
\* itself fully, whatever the digests (digest.py: score and compare).
THEOREM ComparisonAlike == Spec => []ComparesAlike
BY ComparedAlways, ComparedSound, PTL

\* Containment lies between similarity and the whole, and is withheld beyond a
\* 4x difference in size only (digest.py: _containment).
THEOREM ContainmentIsSound == Spec => []ContainmentSound
BY ComparedAlways, ComparedSound, PTL
-----------------------------------------------------------------------------
(* Lists in order.                                                         *)

\* f lists S in the order R, each of it once.
Lists(f, S, R) ==
    /\ f \in [1 .. Cardinality(S) -> S]
    /\ \A a, b \in 1 .. Cardinality(S) : a < b => <<f[a], f[b]>> \in R
    /\ \A x \in S : \E a \in 1 .. Cardinality(S) : f[a] = x

\* The number of those before it tells each element's place.
LEMMA SortedLists ==
    ASSUME NEW S, IsFiniteSet(S), NEW R, Orders(R, S)
    PROVE  Lists(Sorted(S, R), S, R)
<1> DEFINE n == Cardinality(S)
           before(x) == {y \in S : <<y, x>> \in R}
           place == [x \in S |-> Cardinality(before(x)) + 1]
           f == Sorted(S, R)
           pick(k) == CHOOSE x \in S : Cardinality({y \in S : <<y, x>> \in R}) = k - 1
<1>1. n \in Nat /\ IsFiniteSet(1 .. n) /\ Cardinality(1 .. n) = n
    <2>1. n \in Nat
        BY FS_CardinalityType
    <2> HIDE DEF n
    <2> QED
        BY <2>1, FS_Interval
<1>2. \A x \in S : IsFiniteSet(before(x)) /\ Cardinality(before(x)) \in Nat
    <2> SUFFICES ASSUME NEW x \in S PROVE IsFiniteSet(before(x)) /\ Cardinality(before(x)) \in Nat
        OBVIOUS
    <2>1. before(x) \in SUBSET S
        OBVIOUS
    <2> HIDE DEF before
    <2> QED
        BY <2>1, FS_Subset, FS_CardinalityType
<1>3. \A x, y \in S : <<x, y>> \in R => place[x] < place[y]
    <2> SUFFICES ASSUME NEW x \in S, NEW y \in S, <<x, y>> \in R PROVE place[x] < place[y]
        OBVIOUS
    <2>1. before(x) \cup {x} \subseteq before(y) /\ x \notin before(x)
        BY DEF Orders
    <2>2. place[x] = Cardinality(before(x)) + 1 /\ place[y] = Cardinality(before(y)) + 1
        OBVIOUS
    <2> HIDE DEF before, place
    <2>3. Cardinality(before(x) \cup {x}) = Cardinality(before(x)) + 1
        BY <1>2, <2>1, FS_AddElement
    <2>4. Cardinality(before(x) \cup {x}) <= Cardinality(before(y))
        BY <1>2, <2>1, FS_Subset
    <2> QED
        BY <1>2, <2>2, <2>3, <2>4
<1>4. place \in [S -> 1 .. n]
    <2> SUFFICES ASSUME NEW x \in S PROVE Cardinality(before(x)) + 1 \in 1 .. n
        OBVIOUS
    <2>1. before(x) \cup {x} \subseteq S /\ x \notin before(x)
        BY DEF Orders
    <2> HIDE DEF before
    <2>2. Cardinality(before(x) \cup {x}) = Cardinality(before(x)) + 1
        BY <1>2, <2>1, FS_AddElement
    <2> QED
        BY <1>1, <1>2, <2>1, <2>2, FS_Subset
<1>5. \A x, y \in S : place[x] = place[y] => x = y
    <2> HIDE DEF place
    <2> SUFFICES ASSUME NEW x \in S, NEW y \in S, place[x] = place[y], x # y PROVE FALSE
        OBVIOUS
    <2>1. place[x] \in 1 .. n /\ place[y] \in 1 .. n
        BY <1>4
    <2>2. place[x] < place[y] \/ place[y] < place[x]
        BY <1>3 DEF Orders
    <2> QED
        BY <1>1, <2>1, <2>2
<1>6. \A k \in 1 .. n : \E x \in S : place[x] = k
    <2> HIDE DEF place, n
    <2>1. place \in Injection(S, 1 .. n)
        BY <1>4, <1>5 DEF Injection, IsInjective
    <2>2. place \in Surjection(S, 1 .. n)
        BY <1>1, <2>1, FS_Injection DEF n
    <2> QED
        BY <2>2 DEF Surjection
<1>7. \A k \in 1 .. n : f[k] \in S /\ place[f[k]] = k
    <2> SUFFICES ASSUME NEW k \in 1 .. n PROVE f[k] \in S /\ place[f[k]] = k
        OBVIOUS
    <2>1. f[k] = CHOOSE x \in S : Cardinality(before(x)) = k - 1
        BY DEF Sorted
    <2>2. \A x \in S : Cardinality(before(x)) = k - 1 <=> place[x] = k
        BY <1>2
    <2> HIDE DEF before, place, f
    <2>3. f[k] \in S /\ Cardinality(before(f[k])) = k - 1
        BY <1>6, <2>1, <2>2
    <2> QED
        BY <2>2, <2>3
<1>8. f = [k \in 1 .. n |-> f[k]]
    <2>1. f = [k \in 1 .. n |-> pick(k)]
        BY DEF Sorted
    <2> HIDE DEF f, pick, n
    <2> QED
        BY <2>1
<1> HIDE DEF f, place, n
<1>9. f \in [1 .. n -> S]
    BY <1>7, <1>8
<1>10. ASSUME NEW a \in 1 .. n, NEW b \in 1 .. n, a < b PROVE <<f[a], f[b]>> \in R
    <2>1. f[a] \in S /\ f[b] \in S /\ place[f[a]] = a /\ place[f[b]] = b
        BY <1>7
    <2>2. f[a] # f[b] /\ <<f[b], f[a]>> \notin R
        BY <1>1, <1>3, <1>10, <2>1
    <2> QED
        BY <2>1, <2>2 DEF Orders
<1>11. \A x \in S : \E a \in 1 .. n : f[a] = x
    BY <1>4, <1>5, <1>7
<1> QED
    BY <1>9, <1>10, <1>11 DEF Lists, n, f

\* Numbers in rising order.
LEMMA RisingLists ==
    ASSUME NEW S \in SUBSET Nat, IsFiniteSet(S)
    PROVE  /\ Rising(S) \in Seq(S) /\ Rising(S) \in [1 .. Cardinality(S) -> S]
           /\ Len(Rising(S)) = Cardinality(S) /\ Cardinality(S) \in Nat
           /\ \A a, b \in 1 .. Cardinality(S) : a < b => Rising(S)[a] < Rising(S)[b]
           /\ \A x \in S : \E a \in 1 .. Cardinality(S) : Rising(S)[a] = x
<1> DEFINE R == {p \in S \X S : p[1] < p[2]}
<1>1. Orders(R, S)
    BY DEF Orders
<1>2. Cardinality(S) \in Nat
    BY FS_CardinalityType
<1>3. Lists(Rising(S), S, R)
    BY <1>1, SortedLists DEF Rising
<1>4. Rising(S) \in [1 .. Cardinality(S) -> S]
    BY <1>3 DEF Lists
<1>5. Rising(S) \in Seq(S) /\ Len(Rising(S)) = Cardinality(S)
    BY <1>2, <1>4
<1> QED
    BY <1>2, <1>3, <1>4, <1>5 DEF Lists

\* A function that tells elements apart and reaches all keeps the number.
LEMMA SameNumber ==
    ASSUME NEW S, NEW T, IsFiniteSet(S), NEW f \in [S -> T],
           \A x, y \in S : f[x] = f[y] => x = y, \A z \in T : \E x \in S : f[x] = z
    PROVE  IsFiniteSet(T) /\ Cardinality(T) = Cardinality(S)
<1>1. f \in Bijection(S, T)
    BY DEF Bijection, Injection, IsInjective, Surjection
<1>2. ExistsBijection(S, T)
    BY <1>1 DEF ExistsBijection
<1> QED
    BY <1>2, FS_Bijection

\* What a set is divided into adds up.
LEMMA Divided ==
    ASSUME NEW S, NEW A, IsFiniteSet(S), A \subseteq S
    PROVE  /\ IsFiniteSet(A) /\ IsFiniteSet(S \ A) /\ Cardinality(A) \in Nat /\ Cardinality(S \ A) \in Nat
           /\ Cardinality(S) \in Nat /\ Cardinality(S) = Cardinality(A) + Cardinality(S \ A)
<1>1. IsFiniteSet(A) /\ IsFiniteSet(S \ A)
    BY FS_Subset
<1>2. S = A \cup (S \ A) /\ A \cap (S \ A) = {}
    OBVIOUS
<1>3. Cardinality(S) = Cardinality(A) + Cardinality(S \ A) - Cardinality(A \cap (S \ A))
    BY <1>1, <1>2, FS_Union
<1>4. Cardinality(A) \in Nat /\ Cardinality(S \ A) \in Nat /\ Cardinality(S) \in Nat
    BY <1>1, FS_CardinalityType
<1>5. Cardinality(A \cap (S \ A)) = 0
    BY <1>2, FS_EmptySet
<1> QED
    BY <1>1, <1>3, <1>4, <1>5
-----------------------------------------------------------------------------
(* match.                                                                  *)

\* Shares are ordered by size.
LEMMA SharesOrdered ==
    ASSUME NEW x, NEW y, NEW z, Share(x), Share(y), Share(z)
    PROVE  /\ Leq(x, y) \/ Leq(y, x)
           /\ Leq(x, y) /\ Leq(y, z) => Leq(x, z)
<1> DEFINE a == x[1]
           b == x[2]
           c == y[1]
           d == y[2]
           m == z[1]
           n == z[2]
<1>1. /\ a \in Nat /\ b \in Nat /\ c \in Nat /\ d \in Nat /\ m \in Nat /\ n \in Nat
      /\ b >= 1 /\ d >= 1 /\ n >= 1
    BY DEF Share
<1> HIDE DEF a, b, c, d, m, n
<1>2. /\ a * d \in Nat /\ c * b \in Nat /\ c * n \in Nat /\ m * d \in Nat /\ a * n \in Nat /\ m * b \in Nat
    BY <1>1, SMT
<1>3. Leq(x, y) \/ Leq(y, x)
    BY <1>2 DEF Leq, a, b, c, d
<1>4. ASSUME a * d <= c * b, c * n <= m * d PROVE a * n <= m * b
    <2>1. n * (a * d) <= n * (c * b) /\ b * (c * n) <= b * (m * d)
        BY <1>1, <1>2, <1>4, Times
    <2>2. /\ n * (a * d) = d * (a * n) /\ n * (c * b) = b * (c * n)
          /\ b * (m * d) = d * (m * b)
        BY <1>1, SMT
    <2>3. d * (a * n) <= d * (m * b)
        <3>1. n * (a * d) \in Int /\ n * (c * b) \in Int /\ b * (m * d) \in Int
            BY <1>1, <1>2
        <3> QED
            BY <2>1, <2>2, <3>1
    <2>4. ASSUME a * n > m * b PROVE FALSE
        <3> DEFINE u == m * b
                   v == a * n
        <3>1. u \in Nat /\ v \in Nat /\ u + 1 <= v
            BY <1>2, <2>4
        <3> HIDE DEF u, v
        <3>2. d * (u + 1) <= d * v
            BY <1>1, <3>1, Times
        <3>3. d * (u + 1) = d * u + d /\ d * u \in Nat /\ d * v \in Nat
            BY <1>1, <3>1, SMT
        <3>4. d * v <= d * u
            BY <2>3 DEF u, v
        <3> QED
            BY <1>1, <3>2, <3>3, <3>4
    <2> QED
        BY <1>2, <2>4
<1>5. Leq(x, y) /\ Leq(y, z) => Leq(x, z)
    BY <1>4 DEF Leq, a, b, c, d, m, n
<1> QED
    BY <1>3, <1>5

\* The order of match is one of any two digests that have scores.
LEMMA ScoresOrder ==
    ASSUME NEW rows \in SUBSET Nat, \A i \in rows : Share(Scored(i))
    PROVE  Orders({p \in rows \X rows : Ahead(p[1], p[2])}, rows)
<1>1. \A i, j \in rows : Leq(Scored(i), Scored(j)) \/ Leq(Scored(j), Scored(i))
    BY SharesOrdered
<1>2. \A i, j, k \in rows :
          Leq(Scored(i), Scored(j)) /\ Leq(Scored(j), Scored(k)) => Leq(Scored(i), Scored(k))
    <2> SUFFICES ASSUME NEW i \in rows, NEW j \in rows, NEW k \in rows
                 PROVE  Leq(Scored(i), Scored(j)) /\ Leq(Scored(j), Scored(k)) => Leq(Scored(i), Scored(k))
        OBVIOUS
    <2> QED
        BY SharesOrdered
<1>3. \A i, j \in rows : i # j => Ahead(i, j) \/ Ahead(j, i)
    BY <1>1 DEF Ahead, Equal
<1>4. \A i, j \in rows : ~(Ahead(i, j) /\ Ahead(j, i))
    BY <1>1 DEF Ahead, Equal
<1>5. \A i, j, k \in rows : Ahead(i, j) /\ Ahead(j, k) => Ahead(i, k)
    <2> SUFFICES ASSUME NEW i \in rows, NEW j \in rows, NEW k \in rows, Ahead(i, j), Ahead(j, k)
                 PROVE  Ahead(i, k)
        OBVIOUS
    <2>1. Leq(Scored(j), Scored(i)) /\ Leq(Scored(k), Scored(j)) /\ Leq(Scored(k), Scored(i))
        BY <1>1, <1>2 DEF Ahead, Equal
    <2>2. ASSUME Leq(Scored(i), Scored(k)) PROVE i < k
        <3>1. Leq(Scored(i), Scored(j)) /\ Leq(Scored(j), Scored(k))
            BY <1>2, <2>1, <2>2
        <3> QED
            BY <3>1 DEF Ahead
    <2> QED
        BY <2>1, <2>2 DEF Ahead, Equal
<1> DEFINE R == {p \in rows \X rows : Ahead(p[1], p[2])}
<1>6. \A i, j \in rows : <<i, j>> \in R <=> Ahead(i, j)
    OBVIOUS
<1> HIDE DEF R
<1>7. Orders(R, rows)
    BY <1>3, <1>4, <1>5, <1>6 DEF Orders
<1> QED
    BY <1>7 DEF R

\* Digests of the file and the query have scores.
LEMMA ScoresAreShares ==
    ASSUME query \in Given, sketches \in Seq(Sketches), NEW i \in Indices
    PROVE  Share(Scored(i))
<1>1. sketches[i] \in Digests /\ query \in Digests
    BY KnownAssumption DEF Digests, Indices
<1> QED
    BY <1>1, SimilarityShare DEF Scored

\* What reaches the minimum, best first.
Best(cleared, rows, floor) ==
    /\ cleared \in Seq(rows)
    /\ \A k \in 1 .. Len(cleared) : Leq(floor, Scored(cleared[k]))
    /\ \A a, b \in 1 .. Len(cleared) : a < b => Leq(Scored(cleared[b]), Scored(cleared[a]))
    /\ \A i \in rows : Leq(floor, Scored(i)) => \E k \in 1 .. Len(cleared) : cleared[k] = i
    /\ Cardinality(rows) - Len(cleared) = Cardinality({i \in rows : ~Leq(floor, Scored(i))})

LEMMA ClearedIsBest ==
    ASSUME NEW rows \in SUBSET Nat, IsFiniteSet(rows), \A i \in rows : Share(Scored(i)), NEW floor
    PROVE  /\ Best(Cleared(Order(rows), floor), rows, floor)
           /\ Len(Order(rows)) = Cardinality(rows)
<1> DEFINE order == Order(rows)
           n == Cardinality(rows)
           at == {k \in 1 .. n : Leq(floor, Scored(order[k]))}
           c == Cardinality(at)
           cleared == Cleared(order, floor)
           R == {p \in rows \X rows : Ahead(p[1], p[2])}
           good == {i \in rows : Leq(floor, Scored(i))}
<1>1. n \in Nat
    BY FS_CardinalityType
<1>2. Lists(order, rows, R)
    BY ScoresOrder, SortedLists DEF Order
<1>3. /\ order \in [1 .. n -> rows] /\ Len(order) = n /\ DOMAIN order = 1 .. n
      /\ \A a, b \in 1 .. n : a < b => Ahead(order[a], order[b])
      /\ \A i \in rows : \E a \in 1 .. n : order[a] = i
    <2>1. \A i, j \in rows : <<i, j>> \in R => Ahead(i, j)
        OBVIOUS
    <2> HIDE DEF order, R
    <2>2. /\ order \in [1 .. n -> rows]
          /\ \A a, b \in 1 .. n : a < b => <<order[a], order[b]>> \in R
          /\ \A i \in rows : \E a \in 1 .. n : order[a] = i
        BY <1>2 DEF Lists
    <2> HIDE DEF n
    <2>3. Len(order) = n /\ DOMAIN order = 1 .. n
        BY <1>1, <2>2
    <2>4. ASSUME NEW a \in 1 .. n, NEW b \in 1 .. n, a < b PROVE Ahead(order[a], order[b])
        <3>1. order[a] \in rows /\ order[b] \in rows /\ <<order[a], order[b]>> \in R
            BY <2>2, <2>4
        <3> QED
            BY <2>1, <3>1
    <2> QED
        BY <2>2, <2>3, <2>4
<1>4. at \in SUBSET Nat /\ IsFiniteSet(at) /\ at \subseteq 1 .. n
    <2>1. IsFiniteSet(1 .. n) /\ at \in SUBSET (1 .. n)
        BY <1>1, FS_Interval
    <2>2. 1 .. n \subseteq Nat
        BY <1>1
    <2> HIDE DEF at, n
    <2> QED
        BY <2>1, <2>2, FS_Subset
<1>5. /\ Rising(at) \in [1 .. c -> at] /\ c \in Nat
      /\ \A a, b \in 1 .. c : a < b => Rising(at)[a] < Rising(at)[b]
      /\ \A x \in at : \E a \in 1 .. c : Rising(at)[a] = x
    <2> HIDE DEF at
    <2> QED
        BY <1>4, RisingLists
<1>6. cleared = [k \in 1 .. c |-> order[Rising(at)[k]]]
    BY <1>3 DEF Cleared
<1>7. \A i \in rows : ~Ahead(i, i)
    BY SharesOrdered DEF Ahead
<1>8. \A a, b \in 1 .. n : order[a] = order[b] => a = b
    <2> SUFFICES ASSUME NEW a \in 1 .. n, NEW b \in 1 .. n, order[a] = order[b], a # b PROVE FALSE
        OBVIOUS
    <2>1. a < b \/ b < a
        BY <1>1
    <2> QED
        BY <1>3, <1>7, <2>1
<1>9. c = Cardinality(good)
    <2> DEFINE f == [k \in at |-> order[k]]
    <2>1. f \in [at -> good]
        BY <1>3
    <2>2. \A x, y \in at : f[x] = f[y] => x = y
        BY <1>4, <1>8
    <2>3. \A i \in good : \E x \in at : f[x] = i
        BY <1>3
    <2> HIDE DEF at, good, f
    <2> QED
        BY <1>4, <2>1, <2>2, <2>3, SameNumber
<1>10. n - c = Cardinality({i \in rows : ~Leq(floor, Scored(i))})
    <2>1. rows \ good = {i \in rows : ~Leq(floor, Scored(i))} /\ good \subseteq rows
        OBVIOUS
    <2>2. Cardinality({i \in rows : ~Leq(floor, Scored(i))}) = Cardinality(rows \ good)
        BY <2>1
    <2> HIDE DEF good, c
    <2>3. n = Cardinality(good) + Cardinality(rows \ good) /\ Cardinality(rows \ good) \in Nat
        BY <2>1, Divided
    <2> HIDE DEF n
    <2> QED
        BY <1>5, <1>9, <2>2, <2>3
<1>11. \A k \in 1 .. c : Leq(floor, Scored(order[Rising(at)[k]])) /\ Rising(at)[k] \in 1 .. n
    BY <1>5
<1>12. \A k \in 1 .. c : cleared[k] = order[Rising(at)[k]] /\ cleared[k] \in rows
    BY <1>3, <1>6, <1>11
<1>13. ASSUME NEW i \in rows, Leq(floor, Scored(i))
       PROVE  \E k \in 1 .. c : cleared[k] = i
    <2>1. PICK a \in 1 .. n : order[a] = i
        BY <1>3
    <2>2. a \in at
        BY <1>13, <2>1
    <2> QED
        BY <1>5, <1>12, <2>1, <2>2
<1> HIDE DEF at, c, order, n, good
<1>14. cleared \in Seq(rows) /\ Len(cleared) = c
    BY <1>5, <1>6, <1>12
<1>15. ASSUME NEW a \in 1 .. c, NEW b \in 1 .. c, a < b
       PROVE  Leq(Scored(cleared[b]), Scored(cleared[a]))
    <2>1. Rising(at)[a] < Rising(at)[b]
        BY <1>5, <1>15
    <2>2. Ahead(cleared[a], cleared[b]) /\ cleared[a] \in rows /\ cleared[b] \in rows
        BY <1>3, <1>11, <1>12, <2>1
    <2> QED
        BY <2>2, SharesOrdered DEF Ahead, Equal
<1>16. \A k \in 1 .. c : Leq(floor, Scored(cleared[k]))
    BY <1>11, <1>12
<1> HIDE DEF cleared
<1>17. Best(cleared, rows, floor)
    BY <1>10, <1>13, <1>14, <1>15, <1>16 DEF Best, n
<1> QED
    BY <1>3, <1>17 DEF cleared, order, n

\* The lists are of the lines read, and leave out no digest of them.
Whole ==
    /\ \E n \in 0 .. MaxLines : lines \in [1 .. n -> Lines]
    /\ labels \in Seq(1 .. MaxLines)
    /\ \A k \in 1 .. read : lines[k].kind = "digest" => \E i \in 1 .. Len(labels) : labels[i] = k
    /\ query \in Given \cup {NoQuery} /\ minimum \in Minimums \cup {<<0, 1>>}
    /\ phase \in {"query", "read", "ready", "cross", "done"}
    /\ phase \in {"ready", "cross"} => read = Len(lines)
    /\ phase # "done" => answer = Nothing

\* A finite set of indices.
LEMMA OfIsFinite ==
    ASSUME sketches \in Seq(Sketches), NEW t
    PROVE  /\ Of(t) \in SUBSET Nat /\ Of(t) \subseteq Indices /\ IsFiniteSet(Of(t))
           /\ Cardinality(Of(t)) \in Nat /\ Cardinality(Of(t)) <= Len(sketches)
<1>1. Len(sketches) \in Nat /\ Indices = 1 .. Len(sketches)
    BY DEF Indices
<1>2. IsFiniteSet(Indices) /\ Cardinality(Indices) = Len(sketches)
    BY <1>1, FS_Interval
<1>3. Of(t) \subseteq Indices /\ Indices \subseteq Nat
    BY <1>1 DEF Of
<1> QED
    BY <1>2, <1>3, FS_Subset, FS_CardinalityType

\* match shows the best of what reaches the minimum.
LEMMA MatchRanks ==
    ASSUME sketches \in Seq(Sketches), Whole, NEW top \in Tops, NEW floor, Match(top, floor)
    PROVE  RankedBest'
<1> DEFINE rows == Of(query.target)
           cleared == Cleared(Order(rows), floor)
           size == Smaller(top, Len(cleared))
           ranked == SubSeq(cleared, 1, size)
<1>1. /\ query \in Given /\ top \in Nat /\ UNCHANGED <<query, sketches>> /\ minimum' = floor
    BY KnownAssumption DEF Match, Whole, reading
<1>2. CASE rows = {}
    <2>1. answer' = Usage
        BY <1>2 DEF Match, Finish
    <2> QED
        BY <2>1 DEF RankedBest, Said, Usage
<1>3. CASE rows # {}
    <2>1. answer' = [command |-> "match", top |-> top, ranked |-> ranked,
                     below |-> Len(Order(rows)) - Len(cleared),
                     other |-> Len(sketches) - Cardinality(rows)]
        BY <1>3 DEF Match, Finish, Ranking, First
    <2>2. /\ rows \in SUBSET Nat /\ rows \subseteq Indices /\ IsFiniteSet(rows)
          /\ Cardinality(rows) \in Nat /\ Len(sketches) \in Nat
        BY OfIsFinite
    <2>3. \A i \in rows : Share(Scored(i))
        BY <1>1, <2>2, ScoresAreShares
    <2>4. Best(cleared, rows, floor) /\ Len(Order(rows)) = Cardinality(rows)
        <3> HIDE DEF rows
        <3> QED
            BY <2>2, <2>3, ClearedIsBest
    <2>5. \A i : Scored(i)' = Scored(i)
        BY <1>1 DEF Scored
    <2>6. Of(query.target)' = rows /\ Len(sketches)' = Len(sketches)
        BY <1>1 DEF Of, Indices
    <2> HIDE DEF rows, cleared
    <2>7. /\ Len(cleared) \in Nat /\ size \in Nat /\ size <= Len(cleared) /\ size <= top
          /\ (size < Len(cleared) => size = top)
          /\ \A k \in 1 .. Len(cleared) : cleared[k] \in rows
        BY <1>1, <2>4 DEF Smaller, Best
    <2> HIDE DEF size
    <2>8. /\ Len(ranked) = size /\ DOMAIN ranked = 1 .. size
          /\ \A k \in 1 .. size : ranked[k] = cleared[k] /\ k \in 1 .. Len(cleared)
        BY <2>4, <2>7 DEF Best
    <2> HIDE DEF ranked
    <2> DEFINE shown == ToSet(ranked)
    <2>9. \A i : i \in shown <=> \E k \in 1 .. size : i = cleared[k]
        BY <2>8 DEF ToSet
    <2>10. \A i \in shown : Leq(floor, Scored(i))
        BY <2>4, <2>8, <2>9 DEF Best
    <2>11. \A a, b \in 1 .. size : a < b => Leq(Scored(ranked[b]), Scored(ranked[a]))
        BY <2>4, <2>8 DEF Best
    <2>12. ASSUME NEW i \in rows \ shown, Leq(floor, Scored(i))
           PROVE  size = top /\ \A j \in shown : Leq(Scored(i), Scored(j))
        <3>1. PICK k \in 1 .. Len(cleared) : cleared[k] = i
            BY <2>4, <2>12 DEF Best
        <3>2. k > size
            BY <2>7, <2>9, <2>12, <3>1
        <3>3. \A l \in 1 .. size : Leq(Scored(cleared[k]), Scored(cleared[l]))
            BY <2>4, <2>7, <2>8, <3>2 DEF Best
        <3> QED
            BY <2>7, <2>9, <3>1, <3>2, <3>3
    <2>13. Cardinality(rows) - Len(cleared) = Cardinality({i \in rows : ~Leq(floor, Scored(i))})
        BY <2>4 DEF Best
    <2> HIDE DEF shown
    <2>14. /\ answer'.ranked = ranked /\ answer'.top = top
           /\ answer'.below = Cardinality(rows) - Len(cleared)
           /\ answer'.other = Len(sketches) - Cardinality(rows)
        BY <2>1, <2>4
    <2>15. answer'.other + Cardinality(rows) = Len(sketches)
        BY <2>2, <2>14
    <2> QED
        BY <1>1, <2>5, <2>6, <2>8, <2>10, <2>11, <2>12, <2>13, <2>14, <2>15 DEF RankedBest, shown
<1> QED
    BY <1>2, <1>3
-----------------------------------------------------------------------------
(* cross.                                                                  *)

\* Two digests of one target, by their place in the file.
Pairs ==
    {p \in Indices \X Indices : p[1] < p[2] /\ sketches[p[1]].target = sketches[p[2]].target}
Group(p) == sketches[p[1]].target
Reaches(p) == Leq(minimum, Similarity(sketches[p[1]], sketches[p[2]]))

\* The digests of a target in the order of the file.
Listed(t) ==
    LET m == Members(t)
        all == 1 .. Len(m) IN
    /\ Len(m) \in Nat /\ Len(m) = Cardinality(Of(t)) /\ Len(m) <= Len(sketches)
    /\ \A a \in all : m[a] \in Indices /\ m[a] \in Nat /\ sketches[m[a]].target = t
    /\ \A a, b \in all : (m[a] < m[b] <=> a < b) /\ (m[a] = m[b] <=> a = b)
    /\ \A i \in Indices : sketches[i].target = t => \E a \in all : m[a] = i

LEMMA MembersListed ==
    ASSUME sketches \in Seq(Sketches), NEW t PROVE Listed(t)
<1> DEFINE m == Members(t)
           c == Cardinality(Of(t))
<1>1. /\ Of(t) \in SUBSET Nat /\ Of(t) \subseteq Indices /\ IsFiniteSet(Of(t))
      /\ c \in Nat /\ c <= Len(sketches)
    BY OfIsFinite
<1>2. /\ m \in [1 .. c -> Of(t)] /\ Len(m) = c
      /\ \A a, b \in 1 .. c : a < b => m[a] < m[b]
      /\ \A i \in Of(t) : \E a \in 1 .. c : m[a] = i
    BY <1>1, RisingLists DEF Members
<1> HIDE DEF m, c
<1>3. \A a \in 1 .. c : m[a] \in Indices /\ m[a] \in Nat /\ sketches[m[a]].target = t
    BY <1>1, <1>2 DEF Of
<1>4. ASSUME NEW a \in 1 .. c, NEW b \in 1 .. c
      PROVE  (m[a] < m[b] <=> a < b) /\ (m[a] = m[b] <=> a = b)
    <2>1. a < b \/ a = b \/ b < a
        BY <1>1
    <2>2. m[a] \in Nat /\ m[b] \in Nat /\ (a < b => m[a] < m[b]) /\ (b < a => m[b] < m[a])
        BY <1>2, <1>3
    <2> QED
        BY <1>1, <2>1, <2>2
<1>5. \A i \in Indices : sketches[i].target = t => \E a \in 1 .. c : m[a] = i
    BY <1>2 DEF Of
<1> QED
    BY <1>1, <1>2, <1>3, <1>4, <1>5 DEF Listed, m, c

\* There are finitely many pairs.
LEMMA PairsFinite ==
    ASSUME sketches \in Seq(Sketches)
    PROVE  IsFiniteSet(Pairs) /\ \A p \in Pairs : p[1] \in Nat /\ p[2] \in Nat
<1>1. Len(sketches) \in Nat /\ Indices = 1 .. Len(sketches)
    BY DEF Indices
<1>2. IsFiniteSet(Indices)
    BY <1>1, FS_Interval
<1>3. IsFiniteSet(Indices \X Indices)
    BY <1>2, FS_Product
<1>4. Pairs \subseteq Indices \X Indices /\ Indices \subseteq Nat
    BY <1>1 DEF Pairs
<1> QED
    BY <1>3, <1>4, FS_Subset

\* The two sides of a pair among the members of its target.
LEMMA PairAmong ==
    ASSUME sketches \in Seq(Sketches), NEW p \in Pairs
    PROVE  LET m == Members(Group(p)) IN
           \E a, b \in 1 .. Len(m) : a < b /\ p = <<m[a], m[b]>>
<1> DEFINE t == Group(p)
           m == Members(t)
<1>1. /\ p = <<p[1], p[2]>> /\ p[1] \in Indices /\ p[2] \in Indices /\ p[1] < p[2]
      /\ sketches[p[1]].target = t /\ sketches[p[2]].target = t
    BY DEF Pairs, Group
<1>2. Listed(t)
    BY MembersListed
<1> HIDE DEF t
<1>3. PICK a \in 1 .. Len(m), b \in 1 .. Len(m) : m[a] = p[1] /\ m[b] = p[2]
    BY <1>1, <1>2 DEF Listed
<1>4. a < b
    BY <1>1, <1>2, <1>3 DEF Listed
<1> QED
    BY <1>1, <1>3, <1>4 DEF t

\* And any two members are one.
LEMMA AmongPair ==
    ASSUME sketches \in Seq(Sketches), NEW t, NEW a \in 1 .. Len(Members(t)),
           NEW b \in 1 .. Len(Members(t)), a < b
    PROVE  LET p == <<Members(t)[a], Members(t)[b]>> IN p \in Pairs /\ Group(p) = t
<1>1. Listed(t)
    BY MembersListed
<1>2. Members(t)[a] < Members(t)[b] /\ Members(t)[a] \in Indices /\ Members(t)[b] \in Indices
    BY <1>1 DEF Listed
<1>3. sketches[Members(t)[a]].target = t /\ sketches[Members(t)[b]].target = t
    BY <1>1 DEF Listed
<1> QED
    BY <1>2, <1>3 DEF Pairs, Group

\* A left side has as many pairs as members come after it.
LEMMA LeftSide ==
    ASSUME sketches \in Seq(Sketches), NEW t, NEW o \in 1 .. Len(Members(t))
    PROVE  LET new == {p \in Pairs : p[1] = Members(t)[o]} IN
           IsFiniteSet(new) /\ Cardinality(new) = Len(Members(t)) - o
<1> DEFINE m == Members(t)
           n == Len(m)
           S == o + 1 .. n
           new == {p \in Pairs : p[1] = m[o]}
           f == [b \in S |-> <<m[o], m[b]>>]
<1>1. Listed(t) /\ n \in Nat
    BY MembersListed DEF Listed
<1>2. IsFiniteSet(S) /\ Cardinality(S) = n - o
    <2>1. o \in Int /\ n \in Int /\ o <= n
        BY <1>1
    <2> HIDE DEF n
    <2>2. IsFiniteSet(o + 1 .. n) /\ Cardinality(o + 1 .. n) = (IF o + 1 > n THEN 0 ELSE n - (o + 1) + 1)
        BY <2>1, FS_Interval
    <2> QED
        BY <2>1, <2>2
<1>3. ASSUME NEW b \in S PROVE f[b] \in new
    <2>1. b \in 1 .. Len(Members(t)) /\ o < b
        BY <1>1
    <2>2. <<m[o], m[b]>> \in Pairs
        BY <2>1, AmongPair
    <2> QED
        BY <2>2
<1>4. ASSUME NEW b \in S, NEW c \in S, f[b] = f[c] PROVE b = c
    <2>1. m[b] = m[c] /\ b \in 1 .. n /\ c \in 1 .. n
        BY <1>1, <1>4
    <2> QED
        BY <1>1, <2>1 DEF Listed
<1>5. ASSUME NEW p \in new PROVE \E b \in S : f[b] = p
    <2>1. Group(p) = t
        BY <1>1 DEF Group, Listed
    <2>2. PICK a \in 1 .. n, b \in 1 .. n : a < b /\ p = <<m[a], m[b]>>
        BY <2>1, PairAmong
    <2>3. m[a] = m[o] /\ p = <<m[o], m[b]>>
        BY <2>2
    <2>4. a = o
        BY <1>1, <2>3 DEF Listed
    <2>5. b \in S
        BY <1>1, <2>2, <2>4
    <2> QED
        BY <2>3, <2>5
<1>6. f \in [S -> new]
    BY <1>3
<1> HIDE DEF S, new, f
<1>7. IsFiniteSet(new) /\ Cardinality(new) = Cardinality(S)
    BY <1>2, <1>4, <1>5, <1>6, SameNumber
<1> QED
    BY <1>2, <1>7 DEF new

\* Every target of two digests or more is visited once.
Visited ==
    /\ Grouped \in Seq(Shared) /\ Len(Grouped) \in Nat
    /\ \A g \in 1 .. Len(Grouped) : Len(Members(Grouped[g])) > 1
    /\ \A g, h \in 1 .. Len(Grouped) : Grouped[g] = Grouped[h] => g = h
    /\ \A p \in Pairs : \E g \in 1 .. Len(Grouped) : Grouped[g] = Group(p)

LEMMA GroupsVisited ==
    ASSUME sketches \in Seq(Sketches) PROVE Visited
<1> DEFINE targets == {sketches[i].target : i \in Indices}
           R == {p \in Shared \X Shared : Members(p[1])[1] < Members(p[2])[1]}
           f == [i \in Indices |-> sketches[i].target]
           n == Cardinality(Shared)
<1>1. IsFiniteSet(Shared) /\ n \in Nat
    <2>1. Len(sketches) \in Nat /\ Indices = 1 .. Len(sketches)
        BY DEF Indices
    <2>2. IsFiniteSet(Indices)
        BY <2>1, FS_Interval
    <2>3. f \in Surjection(Indices, targets)
        BY DEF Surjection
    <2>4. IsFiniteSet(targets) /\ Shared \subseteq targets
        <3>1. Shared \subseteq targets
            BY DEF Shared
        <3> HIDE DEF f, targets
        <3> QED
            BY <2>2, <2>3, <3>1, FS_Surjection
    <2> HIDE DEF targets
    <2> QED
        BY <2>4, FS_Subset, FS_CardinalityType
<1>2. \A t \in Shared : Len(Members(t)) > 1
    BY DEF Shared
<1>3. \A t \in Shared : Members(t)[1] \in Nat /\ sketches[Members(t)[1]].target = t
    <2> SUFFICES ASSUME NEW t \in Shared
                 PROVE  Members(t)[1] \in Nat /\ sketches[Members(t)[1]].target = t
        OBVIOUS
    <2>1. Listed(t) /\ 1 \in 1 .. Len(Members(t))
        BY <1>2, MembersListed DEF Listed
    <2> QED
        BY <2>1 DEF Listed
<1>4. Orders(R, Shared)
    <2>1. \A s, t \in Shared : <<s, t>> \in R <=> Members(s)[1] < Members(t)[1]
        OBVIOUS
    <2> HIDE DEF R
    <2> QED
        BY <1>3, <2>1 DEF Orders
<1>5. Lists(Grouped, Shared, R)
    <2>1. Lists(Sorted(Shared, R), Shared, R)
        <3> HIDE DEF R
        <3> QED
            BY <1>1, <1>4, SortedLists
    <2> QED
        BY <2>1 DEF Grouped
<1> HIDE DEF R, n
<1>6. /\ Grouped \in [1 .. n -> Shared]
      /\ \A a, b \in 1 .. n : a < b => <<Grouped[a], Grouped[b]>> \in R
      /\ \A t \in Shared : \E a \in 1 .. n : Grouped[a] = t
    BY <1>5 DEF Lists, n
<1>7. Len(Grouped) = n
    BY <1>1, <1>6
<1>8. ASSUME NEW g \in 1 .. n, NEW h \in 1 .. n, Grouped[g] = Grouped[h], g # h PROVE FALSE
    <2>1. Grouped[g] \in Shared /\ <<Grouped[g], Grouped[g]>> \notin R
        BY <1>4, <1>6 DEF Orders
    <2>2. g < h \/ h < g
        BY <1>1, <1>8
    <2> QED
        BY <1>6, <1>8, <2>1, <2>2
<1>9. ASSUME NEW p \in Pairs PROVE Group(p) \in Shared
    <2>1. PICK a, b \in 1 .. Len(Members(Group(p))) : a < b
        BY PairAmong
    <2>2. Len(Members(Group(p))) > 1
        BY <2>1, MembersListed DEF Listed
    <2>3. p[1] \in Indices
        BY DEF Pairs
    <2> QED
        BY <2>2, <2>3 DEF Shared, Group
<1> QED
    BY <1>1, <1>2, <1>6, <1>7, <1>8, <1>9 DEF Visited

\* The pairs of the targets before the g-th.
Earlier(g) == {p \in Pairs : \E h \in 1 .. g - 1 : Grouped[h] = Group(p)}

\* The pairs scored before the loops come to the o-th and n-th member of the
\* g-th target, and those of every left side up to the o-th.
Done(g, o, n) ==
    LET m == Members(Grouped[g]) IN
    {p \in Pairs : \/ p \in Earlier(g)
                   \/ Group(p) = Grouped[g] /\ (p[1] < m[o] \/ (p[1] = m[o] /\ p[2] < m[n]))}
Counted(g, o) ==
    {p \in Pairs : p \in Earlier(g) \/ (Group(p) = Grouped[g] /\ p[1] <= Members(Grouped[g])[o])}

\* The pair the loops are at.
Here(g, o, n) == LET m == Members(Grouped[g]) IN <<m[o], m[n]>>
Place(g, o, n) ==
    /\ g \in 1 .. Len(Grouped) /\ o \in 1 .. Len(Members(Grouped[g]))
    /\ n \in 1 .. Len(Members(Grouped[g])) /\ o < n

\* Where a pair of the target lies, said of the places of its sides.
Stands(p, g, o, n, a, b) ==
    LET m == Members(Grouped[g]) IN
    /\ a < b /\ p = <<m[a], m[b]>> /\ p[1] = m[a] /\ p[2] = m[b]
    /\ p \in Done(g, o, n) <=> a < o \/ (a = o /\ b < n)
    /\ p \in Counted(g, o) <=> a <= o
    /\ p = Here(g, o, n) <=> a = o /\ b = n

LEMMA PlaceOf ==
    ASSUME sketches \in Seq(Sketches), NEW g, NEW o, NEW n, Place(g, o, n),
           NEW p \in Pairs, Group(p) = Grouped[g]
    PROVE  \E a, b \in 1 .. Len(Members(Grouped[g])) : Stands(p, g, o, n, a, b)
<1> DEFINE m == Members(Grouped[g])
<1>1. g \in 1 .. Len(Grouped) /\ Visited /\ Listed(Grouped[g])
    BY GroupsVisited, MembersListed DEF Place
<1>2. p \notin Earlier(g)
    BY <1>1 DEF Earlier, Visited
<1>3. PICK a \in 1 .. Len(m), b \in 1 .. Len(m) : a < b /\ p = <<m[a], m[b]>>
    BY PairAmong
<1>4. o \in 1 .. Len(m) /\ n \in 1 .. Len(m)
    BY DEF Place
<1>5. /\ m[a] \in Nat /\ m[o] \in Nat /\ m[b] \in Nat /\ m[n] \in Nat /\ Len(m) \in Nat
      /\ (m[a] < m[o] <=> a < o) /\ (m[a] = m[o] <=> a = o)
      /\ (m[b] < m[n] <=> b < n) /\ (m[b] = m[n] <=> b = n)
    BY <1>1, <1>3, <1>4 DEF Listed
<1>6. p[1] = m[a] /\ p[2] = m[b]
    BY <1>3
<1>7. p \in Done(g, o, n) <=> a < o \/ (a = o /\ b < n)
    BY <1>2, <1>5, <1>6 DEF Done
<1>8. p \in Counted(g, o) <=> a <= o
    <2>1. m[a] <= m[o] <=> a <= o
        BY <1>4, <1>5
    <2> QED
        BY <1>2, <1>6, <2>1 DEF Counted
<1>9. p = Here(g, o, n) <=> a = o /\ b = n
    <2>1. p = Here(g, o, n) <=> m[a] = m[o] /\ m[b] = m[n]
        BY <1>3 DEF Here
    <2> QED
        BY <1>5, <2>1
<1>10. Stands(p, g, o, n, a, b)
    BY <1>3, <1>6, <1>7, <1>8, <1>9 DEF Stands
<1> QED
    BY <1>10

\* Pairs of other targets are done or not with their target.
LEMMA Elsewhere ==
    ASSUME NEW g, NEW o, NEW n, NEW p \in Pairs, Group(p) # Grouped[g]
    PROVE  /\ p \in Done(g, o, n) <=> p \in Earlier(g)
           /\ p \in Counted(g, o) <=> p \in Earlier(g)
BY DEF Done, Counted

\* The pair the loops are at is one, is new, and its left side was counted.
LEMMA HereIsNew ==
    ASSUME sketches \in Seq(Sketches), NEW g, NEW o, NEW n, Place(g, o, n)
    PROVE  /\ Here(g, o, n) \in Pairs \ Done(g, o, n)
           /\ Done(g, o, n) \cup {Here(g, o, n)} \subseteq Counted(g, o) /\ Counted(g, o) \subseteq Pairs
<1> DEFINE here == Here(g, o, n)
<1>1. here \in Pairs /\ Group(here) = Grouped[g]
    BY AmongPair DEF Place, Here
<1>2. here \notin Done(g, o, n) /\ here \in Counted(g, o)
    <2> HIDE DEF here
    <2>1. PICK a, b \in 1 .. Len(Members(Grouped[g])) : Stands(here, g, o, n, a, b)
        BY <1>1, PlaceOf
    <2>2. /\ a < b /\ here[1] = Members(Grouped[g])[a] /\ here[2] = Members(Grouped[g])[b]
          /\ here \in Done(g, o, n) <=> a < o \/ (a = o /\ b < n)
          /\ here \in Counted(g, o) <=> a <= o
          /\ here = Here(g, o, n) <=> a = o /\ b = n
        BY <2>1 DEF Stands
    <2>3. a = o /\ b = n /\ o \in Int /\ n \in Int
        BY <2>2 DEF here, Place
    <2> QED
        BY <2>2, <2>3
<1>3. ASSUME NEW p \in Done(g, o, n) PROVE p \in Counted(g, o)
    <2>1. p \in Pairs
        BY DEF Done
    <2>2. CASE Group(p) # Grouped[g]
        BY <1>3, <2>1, <2>2, Elsewhere
    <2>3. CASE Group(p) = Grouped[g]
        <3>1. PICK a, b \in 1 .. Len(Members(Grouped[g])) : Stands(p, g, o, n, a, b)
            BY <2>1, <2>3, PlaceOf
        <3>2. /\ a < b /\ p[1] = Members(Grouped[g])[a] /\ p[2] = Members(Grouped[g])[b]
              /\ p \in Done(g, o, n) <=> a < o \/ (a = o /\ b < n)
              /\ p \in Counted(g, o) <=> a <= o
              /\ p = Here(g, o, n) <=> a = o /\ b = n
            BY <3>1 DEF Stands
        <3> QED
            BY <1>3, <3>2 DEF Place
    <2> QED
        BY <2>2, <2>3
<1> QED
    BY <1>1, <1>2, <1>3 DEF Counted

\* The inner loop goes on.
LEMMA NextRight ==
    ASSUME sketches \in Seq(Sketches), NEW g, NEW o, NEW n, Place(g, o, n), Place(g, o, n + 1)
    PROVE  Done(g, o, n + 1) = Done(g, o, n) \cup {Here(g, o, n)}
<1> SUFFICES ASSUME NEW p \in Pairs
             PROVE  p \in Done(g, o, n + 1) <=> p \in Done(g, o, n) \/ p = Here(g, o, n)
    BY HereIsNew DEF Done
<1>1. CASE Group(p) # Grouped[g]
    <2>1. p # Here(g, o, n)
        BY <1>1, AmongPair DEF Place, Here
    <2> QED
        BY <1>1, <2>1, Elsewhere
<1>2. CASE Group(p) = Grouped[g]
    <2> DEFINE m == Members(Grouped[g])
    <2>1. PICK a, b \in 1 .. Len(m) : Stands(p, g, o, n, a, b)
        BY <1>2, PlaceOf
    <2>2. /\ a < b /\ p[1] = m[a] /\ p[2] = m[b]
          /\ p \in Done(g, o, n) <=> a < o \/ (a = o /\ b < n)
          /\ p \in Counted(g, o) <=> a <= o
          /\ p = Here(g, o, n) <=> a = o /\ b = n
        BY <2>1 DEF Stands
    <2>3. PICK c, d \in 1 .. Len(m) : Stands(p, g, o, n + 1, c, d)
        BY <1>2, PlaceOf
    <2>4. /\ c < d /\ p[1] = m[c] /\ p[2] = m[d]
          /\ p \in Done(g, o, n + 1) <=> c < o \/ (c = o /\ d < n + 1)
          /\ p \in Counted(g, o) <=> c <= o
          /\ p = Here(g, o, n + 1) <=> c = o /\ d = n + 1
        BY <2>3 DEF Stands
    <2>5. Listed(Grouped[g])
        BY MembersListed
    <2>6. Len(m) \in Nat /\ \A x, y \in 1 .. Len(m) : m[x] = m[y] => x = y
        BY <2>5 DEF Listed
    <2> HIDE DEF m
    <2>7. c = a /\ d = b
        BY <2>2, <2>4, <2>6
    <2>8. o \in 1 .. Len(m) /\ n \in 1 .. Len(m)
        BY DEF Place, m
    <2> QED
        BY <2>2, <2>4, <2>6, <2>7, <2>8
<1> QED
    BY <1>1, <1>2

\* The next left side.
LEMMA NextLeft ==
    ASSUME sketches \in Seq(Sketches), NEW g, NEW o, NEW n, Place(g, o, n),
           n = Len(Members(Grouped[g])), Place(g, o + 1, o + 2)
    PROVE  LET new == {p \in Pairs : p[1] = Members(Grouped[g])[o + 1]} IN
           /\ Done(g, o + 1, o + 2) = Done(g, o, n) \cup {Here(g, o, n)}
           /\ Counted(g, o + 1) = Counted(g, o) \cup new /\ new \cap Counted(g, o) = {}
<1> DEFINE m == Members(Grouped[g])
           new == {p \in Pairs : p[1] = m[o + 1]}
<1>1. /\ Listed(Grouped[g]) /\ Len(m) \in Nat
      /\ \A x, y \in 1 .. Len(m) : m[x] = m[y] => x = y
      /\ o \in 1 .. Len(m) /\ n = Len(m) /\ o + 1 \in 1 .. Len(m)
    <2>1. Listed(Grouped[g])
        BY MembersListed
    <2>2. Len(m) \in Nat /\ \A x, y \in 1 .. Len(m) : m[x] = m[y] => x = y
        BY <2>1 DEF Listed
    <2>3. o \in 1 .. Len(m) /\ n = Len(m) /\ o + 1 \in 1 .. Len(m)
        BY DEF Place
    <2> QED
        BY <2>1, <2>2, <2>3
<1>2. ASSUME NEW p \in Pairs
      PROVE  /\ p \in Done(g, o + 1, o + 2) <=> p \in Done(g, o, n) \/ p = Here(g, o, n)
             /\ p \in Counted(g, o + 1) <=> p \in Counted(g, o) \/ p \in new
             /\ ~(p \in Counted(g, o) /\ p \in new)
    <2>1. CASE Group(p) # Grouped[g]
        <3>1. p # Here(g, o, n)
            BY <2>1, AmongPair DEF Place, Here
        <3>2. p \notin new
            BY <1>1, <2>1 DEF Listed, Group
        <3>3. p \notin new => ~(p \in Counted(g, o) /\ p \in new)
            OBVIOUS
        <3> QED
            BY <2>1, <3>1, <3>2, Elsewhere
    <2>2. CASE Group(p) = Grouped[g]
        <3>1. PICK a, b \in 1 .. Len(m) : Stands(p, g, o, n, a, b)
            BY <2>2, PlaceOf
        <3>2. /\ a < b /\ p[1] = m[a] /\ p[2] = m[b]
              /\ p \in Done(g, o, n) <=> a < o \/ (a = o /\ b < n)
              /\ p \in Counted(g, o) <=> a <= o
              /\ p = Here(g, o, n) <=> a = o /\ b = n
            BY <3>1 DEF Stands
        <3>3. PICK c, d \in 1 .. Len(m) : Stands(p, g, o + 1, o + 2, c, d)
            BY <2>2, PlaceOf
        <3>4. /\ c < d /\ p[1] = m[c] /\ p[2] = m[d]
              /\ p \in Done(g, o + 1, o + 2) <=> c < o + 1 \/ (c = o + 1 /\ d < o + 2)
              /\ p \in Counted(g, o + 1) <=> c <= o + 1
              /\ p = Here(g, o + 1, o + 2) <=> c = o + 1 /\ d = o + 2
            BY <3>3 DEF Stands
        <3> HIDE DEF m
        <3>5. c = a /\ d = b
            BY <1>1, <3>2, <3>4
        <3>6. p \in new <=> a = o + 1
            BY <1>1, <3>2
        <3> HIDE DEF new
        <3> QED
            BY <1>1, <3>2, <3>4, <3>5, <3>6
    <2> QED
        BY <2>1, <2>2
<1>3. /\ Done(g, o + 1, o + 2) \subseteq Pairs /\ Done(g, o, n) \subseteq Pairs
      /\ Counted(g, o + 1) \subseteq Pairs /\ Counted(g, o) \subseteq Pairs
      /\ Here(g, o, n) \in Pairs /\ new \subseteq Pairs
    BY HereIsNew DEF Done, Counted
<1> HIDE DEF new
<1>4. Done(g, o + 1, o + 2) = Done(g, o, n) \cup {Here(g, o, n)}
    BY <1>2, <1>3
<1>5. Counted(g, o + 1) = Counted(g, o) \cup new /\ new \cap Counted(g, o) = {}
    BY <1>2, <1>3
<1> QED
    BY <1>4, <1>5 DEF new

\* The last pair of a target: all of its pairs are done and counted.
LEMMA TargetEnds ==
    ASSUME sketches \in Seq(Sketches), NEW g, NEW o, NEW n, Place(g, o, n)
    PROVE  n = Len(Members(Grouped[g])) /\ n = o + 1 =>
              /\ Done(g, o, n) \cup {Here(g, o, n)} = Earlier(g + 1)
              /\ Counted(g, o) = Earlier(g + 1)
<1> DEFINE m == Members(Grouped[g])
<1>1. \A p \in Pairs : Group(p) = Grouped[g] =>
          \E a, b \in 1 .. Len(m) : Stands(p, g, o, n, a, b)
    BY PlaceOf
<1> HAVE n = Len(m) /\ n = o + 1
<1>2. g \in Nat /\ Len(m) \in Nat /\ o \in 1 .. Len(m) /\ o + 1 = Len(m) /\ n = Len(m)
    BY GroupsVisited, MembersListed DEF Place, Visited, Listed
<1>3. ASSUME NEW p \in Pairs
      PROVE  p \in Earlier(g + 1) <=> p \in Earlier(g) \/ Group(p) = Grouped[g]
    <2>1. 1 .. (g + 1) - 1 = (1 .. g - 1) \cup {g}
        BY <1>2, GroupsVisited DEF Place
    <2> QED
        BY <2>1 DEF Earlier
<1>4. ASSUME NEW p \in Pairs
      PROVE  /\ p \in Done(g, o, n) \/ p = Here(g, o, n) <=> p \in Earlier(g + 1)
             /\ p \in Counted(g, o) <=> p \in Earlier(g + 1)
    <2>1. CASE Group(p) # Grouped[g]
        <3>1. p # Here(g, o, n)
            BY <2>1, AmongPair DEF Place, Here
        <3> QED
            BY <1>3, <2>1, <3>1, Elsewhere
    <2>2. CASE Group(p) = Grouped[g]
        <3>1. PICK a, b \in 1 .. Len(m) : Stands(p, g, o, n, a, b)
            BY <1>1, <2>2
        <3>2. /\ a < b /\ p[1] = m[a] /\ p[2] = m[b]
              /\ p \in Done(g, o, n) <=> a < o \/ (a = o /\ b < n)
              /\ p \in Counted(g, o) <=> a <= o
              /\ p = Here(g, o, n) <=> a = o /\ b = n
            BY <3>1 DEF Stands
        <3> HIDE DEF m
        <3>3. a <= o /\ (a < o \/ (a = o /\ b = n))
            BY <1>2, <3>2
        <3> QED
            BY <1>3, <2>2, <3>2, <3>3
    <2> QED
        BY <2>1, <2>2
<1>5. /\ Done(g, o, n) \subseteq Pairs /\ Counted(g, o) \subseteq Pairs /\ Here(g, o, n) \in Pairs
      /\ Earlier(g + 1) \subseteq Pairs
    BY HereIsNew DEF Done, Counted, Earlier
<1> QED
    BY <1>4, <1>5

\* The first pair of a target: what is done is of earlier targets.
LEMMA TargetBegins ==
    ASSUME sketches \in Seq(Sketches), NEW g \in 1 .. Len(Grouped)
    PROVE  LET new == {p \in Pairs : p[1] = Members(Grouped[g])[1]} IN
           /\ Place(g, 1, 2) /\ Done(g, 1, 2) = Earlier(g)
           /\ Counted(g, 1) = Earlier(g) \cup new /\ new \cap Earlier(g) = {}
<1> DEFINE m == Members(Grouped[g])
           new == {p \in Pairs : p[1] = m[1]}
<1>1. Listed(Grouped[g]) /\ Visited
    BY MembersListed, GroupsVisited
<1>2. /\ Len(m) \in Nat /\ Len(m) > 1
      /\ \A x, y \in 1 .. Len(m) : m[x] = m[y] => x = y
      /\ sketches[m[1]].target = Grouped[g]
    BY <1>1 DEF Listed, Visited
<1>3. Place(g, 1, 2)
    BY <1>2 DEF Place
<1>4. ASSUME NEW p \in Pairs
      PROVE  /\ p \in Done(g, 1, 2) <=> p \in Earlier(g)
             /\ p \in Counted(g, 1) <=> p \in Earlier(g) \/ p \in new
             /\ ~(p \in new /\ p \in Earlier(g))
    <2>1. CASE Group(p) # Grouped[g]
        <3>1. p \notin new
            BY <1>2, <2>1 DEF Group
        <3> HIDE DEF new
        <3> QED
            BY <2>1, <3>1, Elsewhere
    <2>2. CASE Group(p) = Grouped[g]
        <3>1. PICK a, b \in 1 .. Len(m) : Stands(p, g, 1, 2, a, b)
            BY <1>3, <2>2, PlaceOf
        <3>2. /\ a < b /\ p[1] = m[a] /\ p[2] = m[b]
              /\ p \in Done(g, 1, 2) <=> a < 1 \/ (a = 1 /\ b < 2)
              /\ p \in Counted(g, 1) <=> a <= 1
              /\ p = Here(g, 1, 2) <=> a = 1 /\ b = 2
            BY <3>1 DEF Stands
        <3>3. p \notin Earlier(g)
            BY <1>1, <2>2 DEF Earlier, Visited
        <3> HIDE DEF m
        <3>4. p \in new <=> a = 1
            BY <1>2, <3>2
        <3> HIDE DEF new
        <3> QED
            BY <1>2, <3>2, <3>3, <3>4
    <2> QED
        BY <2>1, <2>2
<1>5. /\ Done(g, 1, 2) \subseteq Pairs /\ Counted(g, 1) \subseteq Pairs
      /\ Earlier(g) \subseteq Pairs /\ new \subseteq Pairs
    BY DEF Done, Counted, Earlier
<1> HIDE DEF new
<1>6. Done(g, 1, 2) = Earlier(g) /\ Counted(g, 1) = Earlier(g) \cup new /\ new \cap Earlier(g) = {}
    BY <1>4, <1>5
<1> QED
    BY <1>3, <1>6 DEF new

\* Before the first target is nothing, before the end is all.
LEMMA EarlierAll ==
    ASSUME sketches \in Seq(Sketches)
    PROVE  Earlier(1) = {} /\ Earlier(Len(Grouped) + 1) = Pairs
<1>1. Visited
    BY GroupsVisited
<1>2. Earlier(1) = {}
    BY DEF Earlier
<1>3. Earlier(Len(Grouped) + 1) = Pairs
    BY <1>1 DEF Earlier, Visited
<1> QED
    BY <1>2, <1>3

\* What cross printed of the pairs D, and counted of them below the minimum.
Printed(D) ==
    /\ printed \in Seq(Nat \X Nat)
    /\ below = Cardinality({p \in D : ~Reaches(p)})
    /\ Len(printed) = Cardinality({p \in D : Reaches(p)})
    /\ ToSet(printed) = {<<labels[p[1]], labels[p[2]]>> : p \in {q \in D : Reaches(q)}}

At(g, o, n) ==
    /\ group = g /\ offset = o /\ next = n /\ Place(g, o, n)
    /\ Printed(Done(g, o, n)) /\ total = Cardinality(Counted(g, o))

Crossing == \E g, o, n : At(g, o, n)
Finished == Printed(Pairs) /\ total = Cardinality(Pairs)
Bounded == total \in Nat /\ below \in 0 .. total

Counting ==
    /\ phase = "cross" => Crossing
    /\ Said("cross") => Finished /\ read = Len(lines)
    /\ phase \in {"query", "read", "ready"} =>
          /\ printed = <<>> /\ below = 0 /\ total = 0
          /\ group = 1 /\ offset = 1 /\ next = 2
    /\ Bounded

\* The pairs counted below the minimum are among those counted at all.
LEMMA Bounds == sketches \in Seq(Sketches) /\ (Crossing \/ Finished) => Bounded
<1> SUFFICES ASSUME sketches \in Seq(Sketches), Crossing \/ Finished PROVE Bounded
    OBVIOUS
<1>1. PICK D \in SUBSET Pairs, C \in SUBSET Pairs :
          D \subseteq C /\ Printed(D) /\ total = Cardinality(C)
    <2>1. CASE Crossing
        <3>1. PICK g, o, n : At(g, o, n)
            BY <2>1 DEF Crossing
        <3>2. /\ Done(g, o, n) \subseteq Counted(g, o) /\ Counted(g, o) \subseteq Pairs
              /\ Printed(Done(g, o, n)) /\ total = Cardinality(Counted(g, o))
            BY <3>1, HereIsNew DEF At
        <3> QED
            BY <3>2
    <2>2. CASE Finished
        BY <2>2 DEF Finished
    <2> QED
        BY <2>1, <2>2
<1>2. PICK B : B = {p \in D : ~Reaches(p)}
    OBVIOUS
<1>3. B \subseteq C /\ C \subseteq Pairs
    BY <1>1, <1>2
<1>4. IsFiniteSet(C)
    BY <1>3, PairsFinite, FS_Subset
<1>5. Cardinality(B) \in Nat /\ Cardinality(C) \in Nat /\ Cardinality(B) <= Cardinality(C)
    BY <1>3, <1>4, FS_Subset, FS_CardinalityType
<1>6. below = Cardinality(B)
    BY <1>1, <1>2 DEF Printed
<1> QED
    BY <1>1, <1>5, <1>6 DEF Bounded

LEMMA BoundsNext == (sketches \in Seq(Sketches))' /\ (Crossing' \/ Finished') => Bounded'
BY Bounds, PTL

\* Where the digests stay, so do their pairs.
LEMMA SamePairs ==
    ASSUME sketches' = sketches
    PROVE  /\ Grouped' = Grouped /\ Pairs' = Pairs /\ \A t : Members(t)' = Members(t)
           /\ \A g, o, n : /\ Done(g, o, n)' = Done(g, o, n) /\ Counted(g, o)' = Counted(g, o)
                           /\ Place(g, o, n) => Place(g, o, n)'
<1>1. Indices' = Indices /\ \A t : Of(t)' = Of(t)
    BY DEF Indices, Of
<1>2. \A t : Members(t)' = Members(t)
    BY <1>1 DEF Members
<1>3. Shared' = Shared
    BY <1>1, <1>2 DEF Shared
<1>4. Grouped' = Grouped
    BY <1>2, <1>3 DEF Grouped
<1>5. Pairs' = Pairs /\ \A p : Group(p)' = Group(p)
    BY <1>1 DEF Pairs, Group
<1>6. \A g : Earlier(g)' = Earlier(g)
    BY <1>4, <1>5 DEF Earlier
<1>7. \A g, o, n : Done(g, o, n)' = Done(g, o, n) /\ Counted(g, o)' = Counted(g, o)
    BY <1>2, <1>4, <1>5, <1>6 DEF Done, Counted
<1>8. \A g, o, n : Place(g, o, n) => Place(g, o, n)'
    BY <1>2, <1>4 DEF Place
<1> QED
    BY <1>2, <1>4, <1>5, <1>7, <1>8

\* What is in a sequence when one more is appended.
LEMMA AppendSet ==
    ASSUME NEW S, NEW s \in Seq(S), NEW x \in S, NEW t, t = Append(s, x)
    PROVE  ToSet(t) = ToSet(s) \cup {x}
<1>1. Len(s) \in Nat /\ DOMAIN s = 1 .. Len(s) /\ DOMAIN t = 1 .. Len(s) + 1
    OBVIOUS
<1>2. \A k \in 1 .. Len(s) + 1 : k \in 1 .. Len(s) \/ k = Len(s) + 1
    BY <1>1
<1>3. /\ \A k \in 1 .. Len(s) : t[k] = s[k] /\ k \in DOMAIN t
      /\ t[Len(s) + 1] = x /\ Len(s) + 1 \in DOMAIN t
    BY <1>1
<1> QED
    BY <1>1, <1>2, <1>3 DEF ToSet

\* A pair is printed if it reaches the minimum and counted if not.
LEMMA PrintsPair ==
    ASSUME sketches \in Seq(Sketches), labels \in Seq(Nat), Len(labels) = Len(sketches),
           NEW D \in SUBSET Pairs, NEW here \in Pairs \ D, Printed(D),
           UNCHANGED <<labels, sketches, minimum>>,
           IF Leq(minimum, Similarity(sketches[here[2]], sketches[here[1]]))
           THEN printed' = Append(printed, <<labels[here[1]], labels[here[2]]>>) /\ UNCHANGED below
           ELSE below' = below + 1 /\ UNCHANGED printed
    PROVE  Printed(D \cup {here})'
<1> DEFINE E == D \cup {here}
           good == {p \in D : Reaches(p)}
           bad == {p \in D : ~Reaches(p)}
           label(p) == <<labels[p[1]], labels[p[2]]>>
<1>1. here[1] \in Indices /\ here[2] \in Indices
    BY DEF Pairs
<1>2. sketches[here[1]] \in Digests /\ sketches[here[2]] \in Digests
    BY <1>1, KnownAssumption DEF Digests, Indices
<1>3. Reaches(here) <=> Leq(minimum, Similarity(sketches[here[2]], sketches[here[1]]))
    BY <1>2, SimilarityShare DEF Reaches
<1>4. \A p : Reaches(p)' <=> Reaches(p)
    BY DEF Reaches
<1>5. /\ IsFiniteSet(good) /\ IsFiniteSet(bad) /\ Cardinality(good) \in Nat /\ Cardinality(bad) \in Nat
    <2>1. good \subseteq Pairs /\ bad \subseteq Pairs
        OBVIOUS
    <2> HIDE DEF good, bad
    <2> QED
        BY <2>1, PairsFinite, FS_Subset, FS_CardinalityType
<1>6. label(here) \in Nat \X Nat
    BY <1>1 DEF Indices
<1>7. CASE Reaches(here)
    <2>1. printed' = Append(printed, label(here)) /\ below' = below
        BY <1>3, <1>7
    <2>2. {p \in E : Reaches(p)} = good \cup {here} /\ {p \in E : ~Reaches(p)} = bad /\ here \notin good
        BY <1>7
    <2>3. Cardinality(good \cup {here}) = Cardinality(good) + 1
        <3> HIDE DEF good
        <3> QED
            BY <1>5, <2>2, FS_AddElement
    <2>4. /\ printed' \in Seq(Nat \X Nat) /\ Len(printed') = Len(printed) + 1
          /\ ToSet(printed') = ToSet(printed) \cup {label(here)}
        <3>1. PICK l \in Nat \X Nat : l = label(here)
            BY <1>6
        <3>2. printed \in Seq(Nat \X Nat) /\ printed' = Append(printed, l)
            BY <2>1, <3>1 DEF Printed
        <3>3. PICK s \in Seq(Nat \X Nat) : s = printed
            BY <3>2
        <3>4. PICK t : t = printed'
            OBVIOUS
        <3>5. ToSet(t) = ToSet(s) \cup {l}
            <4> DEFINE Two == Nat \X Nat
            <4>1. s \in Seq(Two) /\ l \in Two
                BY <3>1, <3>3
            <4>2. t = Append(s, l)
                BY <3>2, <3>3, <3>4
            <4> HIDE DEF Two
            <4> QED
                BY <4>1, <4>2, AppendSet
        <3>6. ToSet(printed') = ToSet(printed) \cup {l}
            BY <3>3, <3>4, <3>5
        <3> HIDE DEF label
        <3> QED
            BY <3>1, <3>2, <3>6
    <2>5. {label(p) : p \in good \cup {here}} = {label(p) : p \in good} \cup {label(here)}
        OBVIOUS
    <2>6. ToSet(printed) = {label(p) : p \in good} /\ Len(printed) = Cardinality(good)
          /\ below = Cardinality(bad)
        BY DEF Printed, label
    <2>7. \A p : label(p)' = label(p)
        BY DEF label
    <2>8. /\ {p \in E : Reaches(p)}' = good \cup {here} /\ {p \in E : ~Reaches(p)}' = bad
        BY <1>4, <2>2
    <2>9. (ToSet(printed))' = ({label(p) : p \in {q \in E : Reaches(q)}})'
        <3>1. {q \in E : Reaches(q)}' = good \cup {here}
            BY <2>8
        <3>2. ({label(p) : p \in {q \in E : Reaches(q)}})' = {label(p) : p \in good \cup {here}}
            BY <3>1 DEF label
        <3> QED
            BY <2>4, <2>5, <2>6, <3>2
    <2>10. Len(printed') = Cardinality({p \in E : Reaches(p)}')
        <3> HIDE DEF good, E
        <3> QED
            BY <2>3, <2>4, <2>6, <2>8
    <2>11. below' = Cardinality({p \in E : ~Reaches(p)}')
        BY <2>1, <2>6, <2>8
    <2> QED
        BY <2>4, <2>9, <2>10, <2>11 DEF Printed, label
<1>8. CASE ~Reaches(here)
    <2>1. printed' = printed /\ below' = below + 1
        BY <1>3, <1>8
    <2>2. {p \in E : Reaches(p)} = good /\ {p \in E : ~Reaches(p)} = bad \cup {here} /\ here \notin bad
        BY <1>8
    <2>3. Cardinality(bad \cup {here}) = Cardinality(bad) + 1
        <3> HIDE DEF bad
        <3> QED
            BY <1>5, <2>2, FS_AddElement
    <2>4. below = Cardinality(bad) /\ Len(printed) = Cardinality(good)
          /\ printed \in Seq(Nat \X Nat) /\ ToSet(printed) = {label(p) : p \in good}
        BY DEF Printed
    <2>5. {p \in E : Reaches(p)}' = good /\ {p \in E : ~Reaches(p)}' = bad \cup {here}
        BY <1>4, <2>2
    <2>6. (ToSet(printed))' = ({label(p) : p \in {q \in E : Reaches(q)}})'
        <3>1. {q \in E : Reaches(q)}' = good
            BY <2>5
        <3>2. ({label(p) : p \in {q \in E : Reaches(q)}})' = {label(p) : p \in good}
            BY <3>1
        <3> QED
            BY <2>1, <2>4, <3>2 DEF ToSet
    <2>7. below' = Cardinality({p \in E : ~Reaches(p)}')
        <3> HIDE DEF bad
        <3> QED
            BY <2>1, <2>3, <2>4, <2>5
    <2>8. Len(printed') = Cardinality({p \in E : Reaches(p)}')
        BY <2>1, <2>4, <2>5
    <2> QED
        BY <2>1, <2>4, <2>6, <2>7, <2>8 DEF Printed
<1> QED
    BY <1>7, <1>8

\* What the step to the next pair does, by where it goes.
Step(g, o, n) ==
    LET m == Len(Members(Grouped[g])) IN
    \/ /\ n < m /\ phase' = phase
       /\ group' = g /\ offset' = o /\ next' = n + 1 /\ total' = total
    \/ /\ n = m /\ o + 1 < m /\ phase' = phase
       /\ group' = g /\ offset' = o + 1 /\ next' = o + 2 /\ total' = total + (m - (o + 1))
    \/ /\ n = m /\ n = o + 1 /\ g < Len(Grouped) /\ phase' = phase
       /\ group' = g + 1 /\ offset' = 1 /\ next' = 2
       /\ total' = total + (Len(Members(Grouped[g + 1])) - 1)
    \/ /\ n = m /\ n = o + 1 /\ g = Len(Grouped) /\ phase' = "done" /\ total' = total

LEMMA AdvanceSteps ==
    ASSUME sketches \in Seq(Sketches), UNCHANGED sketches, total \in Nat,
           NEW g, NEW o, NEW n, At(g, o, n), Advance
    PROVE  Step(g, o, n)
<1> DEFINE m == Len(Members(Grouped[g]))
<1>1. g \in 1 .. Len(Grouped) /\ Visited /\ Listed(Grouped[g]) /\ Len(Grouped) \in Nat
    BY GroupsVisited, MembersListed DEF At, Place, Visited
<1>2. m \in Nat /\ o \in 1 .. m /\ n \in 1 .. m /\ o < n /\ group = g /\ offset = o /\ next = n
    BY <1>1 DEF Listed, At, Place
<1>3. Grouped' = Grouped /\ \A t : Members(t)' = Members(t)
    BY SamePairs
<1>4. CASE next < m
    BY <1>2, <1>4 DEF Advance, Step
<1>5. CASE ~(next < m) /\ offset + 1 < m
    <2>1. /\ offset' = offset + 1 /\ next' = offset + 2 /\ total' = total + m - (o + 1)
          /\ UNCHANGED <<group, phase, answer>>
        BY <1>2, <1>5 DEF Advance
    <2> HIDE DEF m
    <2>2. total' = total + (m - (o + 1)) /\ n = m
        BY <1>2, <1>5, <2>1
    <2> QED
        BY <1>2, <1>5, <2>1, <2>2 DEF Step, m
<1>6. CASE ~(next < m) /\ ~(offset + 1 < m) /\ group < Len(Grouped)
    <2>1. /\ group' = g + 1 /\ offset' = 1 /\ next' = 2 /\ UNCHANGED <<phase, answer>>
          /\ total' = total + Len(Members(Grouped[g + 1])) - 1
        BY <1>2, <1>3, <1>6 DEF Advance
    <2>2. Len(Members(Grouped[g + 1])) \in Nat
        BY MembersListed DEF Listed
    <2>3. total' = total + (Len(Members(Grouped[g + 1])) - 1)
        BY <2>1, <2>2
    <2> HIDE DEF m
    <2>4. n = m /\ n = o + 1
        BY <1>2, <1>6
    <2> QED
        BY <1>2, <1>6, <2>1, <2>3, <2>4 DEF Step, m
<1>7. CASE ~(next < m) /\ ~(offset + 1 < m) /\ ~(group < Len(Grouped))
    <2>1. phase' = "done" /\ total' = total
        BY <1>2, <1>7 DEF Advance, Finish
    <2> HIDE DEF m
    <2>2. n = m /\ n = o + 1 /\ g = Len(Grouped)
        BY <1>1, <1>2, <1>7
    <2> QED
        BY <2>1, <2>2 DEF Step, m
<1> QED
    BY <1>4, <1>5, <1>6, <1>7

\* New pairs of a left side add to those counted.
LEMMA CountsMore ==
    ASSUME sketches \in Seq(Sketches), NEW C \in SUBSET Pairs, NEW new, IsFiniteSet(new),
           new \cap C = {}
    PROVE  Cardinality(C \cup new) = Cardinality(C) + Cardinality(new)
<1>1. IsFiniteSet(C)
    BY PairsFinite, FS_Subset
<1>2. C \subseteq C \cup new /\ (C \cup new) \ C = new /\ IsFiniteSet(C \cup new)
    BY <1>1, FS_Union
<1> QED
    BY <1>2, Divided

\* The slice of the scores and the offset of the labels agree: both lead to
\* the member the loops are at.
LEMMA RowsFitLabels ==
    ASSUME sketches \in Seq(Sketches), NEW g, NEW o, NEW n, Place(g, o, n), offset = o
    PROVE  LET m == Members(Grouped[g]) IN
           /\ m[o + (n - o)] = m[n]
           /\ Rows(m)[n - o] = m[n]
<1> DEFINE m == Members(Grouped[g])
           t == Grouped[g]
<1>1. /\ Len(m) \in Nat /\ m \in Seq(Of(t))
      /\ o \in Nat /\ n \in Nat /\ 1 <= o /\ o < n /\ n <= Len(m)
    <2>1. Of(t) \in SUBSET Nat /\ IsFiniteSet(Of(t))
        BY OfIsFinite
    <2>2. m \in Seq(Of(t))
        BY <2>1, RisingLists DEF Members
    <2> QED
        BY <2>2, MembersListed DEF Place, Listed
<1> HIDE DEF m
<1>2. o + (n - o) = n /\ n - o \in 1 .. Len(m) - o /\ (o + 1) + (n - o) - 1 = n
    BY <1>1
<1>3. Rows(m) = SubSeq(m, o + 1, Len(m))
    BY DEF Rows
<1>4. SubSeq(m, o + 1, Len(m))[n - o] = m[(o + 1) + (n - o) - 1]
    BY <1>1, <1>2, SMTT(30)
<1> QED
    BY <1>2, <1>3, <1>4 DEF m

\* After a pair the loops are at the next, and what was printed and counted is
\* of the pairs up to it; after the last it is of all.
LEMMA CrossPairCounts ==
    ASSUME sketches \in Seq(Sketches), labels \in Seq(Nat), Len(labels) = Len(sketches),
           total \in Nat, CrossPair, Crossing
    PROVE  (phase' = "cross" /\ Crossing') \/ (phase' = "done" /\ Finished')
<1>1. PICK g, o, n : At(g, o, n)
    BY DEF Crossing
<1>2. /\ UNCHANGED <<sketches, labels, minimum>> /\ Advance /\ phase = "cross"
      /\ Place(g, o, n) /\ group = g /\ offset = o /\ next = n
    BY <1>1 DEF CrossPair, At, reading
<1>3. PICK D, h, C : D = Done(g, o, n) /\ h = Here(g, o, n) /\ C = Counted(g, o)
    OBVIOUS
<1>4. /\ D \in SUBSET Pairs /\ h \in Pairs \ D /\ C \in SUBSET Pairs
      /\ Printed(D) /\ total = Cardinality(C)
    BY <1>1, <1>2, <1>3, HereIsNew DEF At
<1>5. h[1] = Members(Grouped[g])[o] /\ h[2] = Members(Grouped[g])[n]
    BY <1>3 DEF Here
<1>6. IF Leq(minimum, Similarity(sketches[h[2]], sketches[h[1]]))
      THEN printed' = Append(printed, <<labels[h[1]], labels[h[2]]>>) /\ UNCHANGED below
      ELSE below' = below + 1 /\ UNCHANGED printed
    BY <1>2, <1>5, RowsFitLabels DEF CrossPair
<1>7. Printed(D \cup {h})'
    BY <1>2, <1>4, <1>6, PrintsPair
<1>8. Step(g, o, n)
    BY <1>1, <1>2, AdvanceSteps
<1>9. ASSUME NEW a, NEW b, NEW c, Place(a, b, c), Done(a, b, c) = D \cup {h},
             group' = a, offset' = b, next' = c, total' = Cardinality(Counted(a, b))
      PROVE  Crossing'
    <2>1. Done(a, b, c)' = D \cup {h} /\ Counted(a, b)' = Counted(a, b) /\ Place(a, b, c)'
        BY <1>2, <1>9, SamePairs
    <2>2. Printed(Done(a, b, c))'
        BY <1>7, <2>1 DEF Printed
    <2>3. At(a, b, c)'
        BY <1>9, <2>1, <2>2 DEF At
    <2> QED
        BY <2>3 DEF Crossing
<1>10. CASE /\ n < Len(Members(Grouped[g])) /\ phase' = phase
            /\ group' = g /\ offset' = o /\ next' = n + 1 /\ total' = total
    <2>1. Place(g, o, n + 1)
        BY <1>2, <1>10 DEF Place
    <2>2. Done(g, o, n + 1) = D \cup {h}
        BY <1>2, <1>3, <2>1, NextRight
    <2> QED
        BY <1>2, <1>3, <1>4, <1>9, <1>10, <2>1, <2>2
<1>11. CASE /\ n = Len(Members(Grouped[g])) /\ o + 1 < Len(Members(Grouped[g])) /\ phase' = phase
            /\ group' = g /\ offset' = o + 1 /\ next' = o + 2
            /\ total' = total + (Len(Members(Grouped[g])) - (o + 1))
    <2>1. Place(g, o + 1, o + 2)
        BY <1>2, <1>11 DEF Place
    <2>2. PICK new : new = {p \in Pairs : p[1] = Members(Grouped[g])[o + 1]}
        OBVIOUS
    <2>3. /\ Done(g, o + 1, o + 2) = D \cup {h}
          /\ Counted(g, o + 1) = C \cup new /\ new \cap C = {}
        BY <1>2, <1>3, <1>11, <2>1, <2>2, NextLeft
    <2>4. PICK t : t = Grouped[g]
        OBVIOUS
    <2>5. o + 1 \in 1 .. Len(Members(t))
        BY <2>1, <2>4 DEF Place
    <2>6. IsFiniteSet(new) /\ Cardinality(new) = Len(Members(t)) - (o + 1)
        BY <2>2, <2>4, <2>5, LeftSide
    <2>7. Cardinality(Counted(g, o + 1)) = total'
        BY <1>4, <1>11, <2>3, <2>4, <2>6, CountsMore
    <2> QED
        BY <1>2, <1>9, <1>11, <2>1, <2>3, <2>7
<1>12. CASE /\ n = Len(Members(Grouped[g])) /\ n = o + 1 /\ g < Len(Grouped) /\ phase' = phase
            /\ group' = g + 1 /\ offset' = 1 /\ next' = 2
            /\ total' = total + (Len(Members(Grouped[g + 1])) - 1)
    <2>1. g + 1 \in 1 .. Len(Grouped)
        BY <1>2, <1>12, GroupsVisited DEF Place, Visited
    <2>2. D \cup {h} = Earlier(g + 1) /\ C = Earlier(g + 1)
        BY <1>2, <1>3, <1>12, TargetEnds
    <2>3. PICK new : new = {p \in Pairs : p[1] = Members(Grouped[g + 1])[1]}
        OBVIOUS
    <2>4. /\ Place(g + 1, 1, 2) /\ Done(g + 1, 1, 2) = D \cup {h}
          /\ Counted(g + 1, 1) = C \cup new /\ new \cap C = {}
        BY <2>1, <2>2, <2>3, TargetBegins
    <2>5. PICK t : t = Grouped[g + 1]
        OBVIOUS
    <2>6. 1 \in 1 .. Len(Members(t))
        BY <2>4, <2>5 DEF Place
    <2>7. IsFiniteSet(new) /\ Cardinality(new) = Len(Members(t)) - 1
        BY <2>3, <2>5, <2>6, LeftSide
    <2>8. Cardinality(Counted(g + 1, 1)) = total'
        BY <1>4, <1>12, <2>4, <2>5, <2>7, CountsMore
    <2> QED
        BY <1>2, <1>9, <1>12, <2>4, <2>8
<1>13. CASE /\ n = Len(Members(Grouped[g])) /\ n = o + 1 /\ g = Len(Grouped)
            /\ phase' = "done" /\ total' = total
    <2>1. D \cup {h} = Pairs /\ C = Pairs
        BY <1>2, <1>3, <1>13, TargetEnds, EarlierAll
    <2>2. Pairs' = D \cup {h}
        BY <1>2, <2>1, SamePairs
    <2>3. Printed(Pairs)'
        BY <1>7, <2>2 DEF Printed
    <2>4. total' = Cardinality(Pairs')
        BY <1>4, <1>13, <2>1, <2>2
    <2> QED
        BY <1>13, <2>3, <2>4 DEF Finished
<1> QED
    BY <1>8, <1>10, <1>11, <1>12, <1>13 DEF Step

\* cross starts at the first pair of the first target.
LEMMA CrossStarts ==
    ASSUME sketches \in Seq(Sketches), NEW floor, Cross(floor), Grouped # <<>>,
           group = 1, offset = 1, next = 2, printed = <<>>, below = 0
    PROVE  phase' = "cross" /\ Crossing'
<1>1. /\ UNCHANGED <<sketches, group, offset, next, printed, below>>
      /\ phase' = "cross" /\ total' = Len(Members(Grouped[1])) - 1
    BY DEF Cross, reading, loops
<1>2. 1 \in 1 .. Len(Grouped)
    <2>1. Grouped \in Seq(Shared)
        BY GroupsVisited DEF Visited
    <2> QED
        BY <2>1
<1>3. PICK new : new = {p \in Pairs : p[1] = Members(Grouped[1])[1]}
    OBVIOUS
<1>4. /\ Place(1, 1, 2) /\ Done(1, 1, 2) = {} /\ Counted(1, 1) = new
    BY <1>2, <1>3, TargetBegins, EarlierAll
<1>5. PICK t : t = Grouped[1]
    OBVIOUS
<1>6. 1 \in 1 .. Len(Members(t))
    BY <1>4, <1>5 DEF Place
<1>7. Cardinality(new) = Len(Members(t)) - 1
    BY <1>3, <1>5, <1>6, LeftSide
<1>8. Done(1, 1, 2)' = {} /\ Counted(1, 1)' = new /\ Place(1, 1, 2)'
    BY <1>1, <1>4, SamePairs
<1>9. Printed(Done(1, 1, 2))'
    <2>1. /\ {p \in Done(1, 1, 2) : ~Reaches(p)}' = {} /\ {p \in Done(1, 1, 2) : Reaches(p)}' = {}
        BY <1>8
    <2>2. Cardinality({}) = 0
        BY FS_EmptySet
    <2>3. printed' = <<>> /\ below' = 0
        BY <1>1
    <2>4. ToSet(printed)' = {} /\ Len(printed)' = 0 /\ printed' \in Seq(Nat \X Nat)
        BY <2>3 DEF ToSet
    <2> QED
        BY <2>1, <2>2, <2>3, <2>4 DEF Printed
<1>10. At(1, 1, 2)'
    BY <1>1, <1>5, <1>7, <1>8, <1>9 DEF At
<1> QED
    BY <1>1, <1>10 DEF Crossing
-----------------------------------------------------------------------------
(* The whole run.                                                          *)

\* A command that has answered does no more.
LEMMA DoneStays == phase = "done" /\ [Next]_vars => UNCHANGED vars
BY DEF Next, Refused, BadQuery, Start, Compare, ReadFails, ReadLine, ReadAll, Match, Cross,
       CrossPair, ReaderGone

\* A line that is read is in the lists if it is a digest, and no other is.
LEMMA LineIsKept ==
    ASSUME Reading, LabelsFit, Whole, ReadLine
    PROVE  /\ labels' \in Seq(1 .. MaxLines)
           /\ \A k \in 1 .. read' : lines'[k].kind = "digest" =>
                 \E i \in 1 .. Len(labels') : labels'[i] = k
<1>1. PICK n \in 0 .. MaxLines : lines \in [1 .. n -> Lines]
    BY DEF Whole
<1>2. /\ n \in Nat /\ Len(lines) = n /\ MaxLines \in Nat
    BY <1>1, KnownAssumption
<1>3. /\ read \in Nat /\ read < n /\ read' = read + 1 /\ lines' = lines /\ Take(lines[read + 1])
    BY <1>2 DEF ReadLine, Reading
<1>4. read + 1 \in 1 .. n /\ lines[read + 1] \in Lines /\ read + 1 \in 1 .. MaxLines
    BY <1>1, <1>2, <1>3
<1>5. labels \in Seq(1 .. MaxLines) /\ Len(labels) \in Nat
    BY DEF Whole
<1>6. \A k \in 1 .. read : lines[k].kind = "digest" => \E i \in 1 .. Len(labels) : labels[i] = k
    BY DEF Whole
<1>7. CASE lines[read + 1].kind = "digest"
    <2>1. labels' = Append(labels, read + 1)
        BY <1>3, <1>4, <1>7, KindsDiffer DEF Take
    <2>2. /\ labels' \in Seq(1 .. MaxLines) /\ Len(labels') = Len(labels) + 1
          /\ labels'[Len(labels) + 1] = read + 1
          /\ \A i \in 1 .. Len(labels) : labels'[i] = labels[i]
        BY <1>4, <1>5, <2>1
    <2>3. ASSUME NEW k \in 1 .. read + 1, lines[k].kind = "digest"
          PROVE  \E i \in 1 .. Len(labels) + 1 : labels'[i] = k
        <3>1. CASE k = read + 1
            BY <1>5, <2>2, <3>1
        <3>2. CASE k # read + 1
            <4>1. k \in 1 .. read
                BY <1>3, <3>2
            <4>2. PICK i \in 1 .. Len(labels) : labels[i] = k
                BY <1>6, <2>3, <4>1
            <4> QED
                BY <1>5, <2>2, <4>2
        <3> QED
            BY <3>1, <3>2
    <2> QED
        BY <1>3, <2>2, <2>3
<1>8. CASE lines[read + 1].kind # "digest"
    <2>1. labels' = labels
        BY <1>3, <1>4, <1>8, KindsDiffer DEF Take
    <2>2. \A k \in 1 .. read + 1 : lines[k].kind = "digest" => k \in 1 .. read
        BY <1>3, <1>8
    <2> QED
        BY <1>3, <1>5, <1>6, <2>1, <2>2
<1> QED
    BY <1>7, <1>8

\* How the phases follow each other, and what a step leaves as it is.
LEMMA PhasesFollow ==
    ASSUME Whole, [Next]_vars
    PROVE  /\ lines' = lines
           /\ query' \in Given \cup {NoQuery} /\ minimum' \in Minimums \cup {<<0, 1>>}
           /\ phase' \in {"query", "read", "ready", "cross", "done"}
           /\ phase' # "done" => answer' = Nothing
           /\ phase' \in {"ready", "cross"} => read' = Len(lines)
<1>1. /\ query \in Given \cup {NoQuery} /\ minimum \in Minimums \cup {<<0, 1>>}
      /\ phase \in {"query", "read", "ready", "cross", "done"}
      /\ phase \in {"ready", "cross"} => read = Len(lines)
      /\ phase # "done" => answer = Nothing
    BY DEF Whole
<1>2. CASE Refused \/ BadQuery \/ ReadFails \/ ReadAll \/ ReaderGone
    BY <1>1, <1>2 DEF Refused, BadQuery, ReadFails, ReadAll, ReaderGone, Finish, reading
<1>3. CASE \E q \in Given \cup {NoQuery} : Start(q)
    BY <1>1, <1>3 DEF Start, reading
<1>4. CASE \E left, right \in Given : lines = <<>> /\ Compare(left, right)
    BY <1>1, <1>4 DEF Compare, Finish, reading
<1>5. CASE ReadLine
    BY <1>1, <1>5 DEF ReadLine
<1>6. CASE \E top \in Tops, floor \in Minimums : Match(top, floor)
    BY <1>1, <1>6 DEF Match, Finish, reading
<1>7. CASE \E floor \in Minimums : Cross(floor)
    BY <1>1, <1>7 DEF Cross, Finish, reading
<1>8. CASE CrossPair
    BY <1>1, <1>8 DEF CrossPair, Advance, Finish, reading
<1>9. CASE UNCHANGED vars
    BY <1>1, <1>9 DEF vars, reading
<1> QED
    BY <1>2, <1>3, <1>4, <1>5, <1>6, <1>7, <1>8, <1>9 DEF Next

LEMMA WholeKeeps ==
    ASSUME Reading, LabelsFit, Whole, [Next]_vars
    PROVE  Whole'
<1>1. /\ lines' = lines
      /\ query' \in Given \cup {NoQuery} /\ minimum' \in Minimums \cup {<<0, 1>>}
      /\ phase' \in {"query", "read", "ready", "cross", "done"}
      /\ phase' # "done" => answer' = Nothing
      /\ phase' \in {"ready", "cross"} => read' = Len(lines)
    BY PhasesFollow
<1>2. /\ labels' \in Seq(1 .. MaxLines)
      /\ \A k \in 1 .. read' : lines'[k].kind = "digest" =>
            \E i \in 1 .. Len(labels') : labels'[i] = k
    <2>1. CASE ReadLine
        BY <2>1, LineIsKept
    <2>2. CASE UNCHANGED <<lines, reading>>
        BY <2>2 DEF Whole, reading
    <2> QED
        BY <2>1, <2>2, OthersKeep
<1>3. \E n \in 0 .. MaxLines : lines' \in [1 .. n -> Lines]
    BY <1>1 DEF Whole
<1> QED
    BY <1>1, <1>2, <1>3 DEF Whole

\* What the counts are of stays with them.
LEMMA CountsStay ==
    ASSUME UNCHANGED <<sketches, labels, minimum, loops, counts>>
    PROVE  (Crossing => Crossing') /\ (Finished => Finished')
<1>1. /\ UNCHANGED <<sketches, labels, minimum, group, offset, next, printed, below, total>>
      /\ \A p : Reaches(p)' <=> Reaches(p)
    BY DEF loops, counts, Reaches
<1>2. ASSUME NEW g, NEW o, NEW n, At(g, o, n) PROVE At(g, o, n)'
    <2>1. /\ Done(g, o, n)' = Done(g, o, n) /\ Counted(g, o)' = Counted(g, o)
          /\ Place(g, o, n)'
        BY <1>1, <1>2, SamePairs DEF At
    <2>2. Printed(Done(g, o, n))'
        BY <1>1, <1>2, <2>1 DEF At, Printed
    <2> QED
        BY <1>1, <1>2, <2>1, <2>2 DEF At
<1>3. ASSUME Finished PROVE Finished'
    <2>1. Pairs' = Pairs
        BY <1>1, SamePairs
    <2> QED
        BY <1>1, <1>3, <2>1 DEF Finished, Printed
<1> QED
    BY <1>2, <1>3 DEF Crossing

\* Which command a step ends: only the last pair ends cross, only match match.
LEMMA AnswersSay ==
    ASSUME phase # "done" => answer = Nothing, [Next]_vars, phase # "done"
    PROVE  /\ Said("cross")' => CrossPair
           /\ Said("match")' => \E top \in Tops, floor \in Minimums : Match(top, floor)
<1>1. answer.command = "none"
    BY DEF Nothing
<1>2. CASE Refused \/ BadQuery \/ ReadFails \/ ReaderGone
    BY <1>2 DEF Refused, BadQuery, ReadFails, ReaderGone, Finish, Said, Usage
<1>3. ASSUME NEW left, NEW right, Compare(left, right) PROVE ~Said("cross")' /\ ~Said("match")'
    <2>1. CASE left.target # right.target
        BY <1>3, <2>1 DEF Compare, Finish, Said, Usage
    <2>2. CASE left.target = right.target
        BY <1>3, <2>2 DEF Compare, Finish, Said
    <2> QED
        BY <2>1, <2>2
<1>4. CASE ReadAll \/ ReadLine \/ UNCHANGED vars \/ \E q \in Given \cup {NoQuery} : Start(q)
    BY <1>1, <1>4 DEF ReadAll, ReadLine, vars, Start, Said
<1>5. ASSUME NEW top, NEW floor, Match(top, floor) PROVE ~Said("cross")'
    <2>1. CASE Of(query.target) = {}
        BY <1>5, <2>1 DEF Match, Finish, Said, Usage
    <2>2. CASE Of(query.target) # {}
        BY <1>5, <2>2 DEF Match, Finish, Said
    <2> QED
        BY <2>1, <2>2
<1>6. ASSUME NEW floor, Cross(floor) PROVE ~Said("cross")' /\ ~Said("match")'
    BY <1>1, <1>6 DEF Cross, Finish, Said, Usage
<1>7. CrossPair => ~Said("match")'
    BY <1>1 DEF CrossPair, Advance, Finish, Said
<1> QED
    BY <1>2, <1>3, <1>4, <1>5, <1>6, <1>7 DEF Next

LEMMA CountingKeeps ==
    ASSUME sketches \in Seq(Sketches), labels \in Seq(Nat), Len(labels) = Len(sketches),
           sketches' \in Seq(Sketches), Whole, Counting, [Next]_vars
    PROVE  Counting'
<1>1. /\ lines' = lines /\ phase' \in {"query", "read", "ready", "cross", "done"}
      /\ phase' # "done" => answer' = Nothing
      /\ phase' \in {"ready", "cross"} => read' = Len(lines)
      /\ phase # "done" => answer = Nothing
    BY PhasesFollow DEF Whole
<1>2. answer' = Nothing => ~Said("cross")'
    BY DEF Said, Nothing
<1>3. ASSUME UNCHANGED <<loops, counts>>, phase' # "cross", ~Said("cross")',
             phase' \in {"query", "read", "ready"} => phase \in {"query", "read", "ready"}
      PROVE  Counting'
    BY <1>3 DEF Counting, Bounded, loops, counts
<1>4. ASSUME phase' = "cross", Crossing' PROVE Counting'
    BY <1>1, <1>2, <1>4, BoundsNext DEF Counting
<1>5. CASE UNCHANGED vars
    <2>1. UNCHANGED <<sketches, labels, minimum, loops, counts, phase, answer, read, lines>>
        BY <1>5 DEF vars, reading
    <2>2. (Crossing => Crossing') /\ (Finished => Finished')
        BY <2>1, CountsStay
    <2>3. Said("cross")' <=> Said("cross")
        BY <2>1 DEF Said
    <2>4. Bounded' /\ UNCHANGED <<group, offset, next, printed, below, total>>
        BY <2>1 DEF Counting, Bounded, loops, counts
    <2> QED
        BY <2>1, <2>2, <2>3, <2>4 DEF Counting
<1>6. CASE /\ ~UNCHANGED vars /\ ~CrossPair /\ ~\E floor \in Minimums : Cross(floor)
    <2>1. phase # "done"
        BY <1>6, DoneStays
    <2>2. ~Said("cross")'
        BY <1>1, <1>6, <2>1, AnswersSay
    <2>3. CASE Refused \/ BadQuery \/ ReadFails \/ ReadAll \/ ReaderGone \/ ReadLine
        BY <1>3, <2>2, <2>3 DEF Refused, BadQuery, ReadFails, ReadAll, ReaderGone, ReadLine, Finish
    <2>4. CASE \/ \E q \in Given \cup {NoQuery} : Start(q)
               \/ \E left, right \in Given : lines = <<>> /\ Compare(left, right)
               \/ \E top \in Tops, floor \in Minimums : Match(top, floor)
        BY <1>3, <2>2, <2>4 DEF Start, Compare, Match, Finish
    <2> QED
        BY <1>6, <2>3, <2>4 DEF Next
<1>7. ASSUME NEW floor, Cross(floor) PROVE Counting'
    <2>1. phase = "ready" /\ UNCHANGED <<loops, printed, below>>
        BY <1>7 DEF Cross
    <2>2. CASE Grouped = <<>>
        <3>1. phase' = "done" /\ answer' = Usage /\ UNCHANGED <<loops, counts>>
            BY <1>7, <2>1, <2>2 DEF Cross, Finish, counts
        <3>2. ~Said("cross")'
            BY <3>1 DEF Said, Usage
        <3> QED
            BY <1>3, <3>1, <3>2
    <2>3. CASE Grouped # <<>>
        <3>1. group = 1 /\ offset = 1 /\ next = 2 /\ printed = <<>> /\ below = 0
            BY <2>1 DEF Counting
        <3> QED
            BY <1>4, <1>7, <2>3, <3>1, CrossStarts
    <2> QED
        BY <2>2, <2>3
<1>8. CASE CrossPair
    <2>1. phase = "cross" /\ read' = read /\ read = Len(lines) /\ Crossing /\ total \in Nat
        BY <1>8 DEF CrossPair, reading, Whole, Counting, Bounded
    <2>2. (phase' = "cross" /\ Crossing') \/ (phase' = "done" /\ Finished')
        BY <1>8, <2>1, CrossPairCounts
    <2>3. ASSUME phase' = "done", Finished' PROVE Counting'
        BY <1>1, <2>1, <2>3, BoundsNext DEF Counting
    <2> QED
        BY <1>4, <2>2, <2>3
<1> QED
    BY <1>5, <1>6, <1>7, <1>8

\* A ranking stays once it is there.
LEMMA RankedKeeps ==
    ASSUME sketches \in Seq(Sketches), Whole, RankedBest, [Next]_vars PROVE RankedBest'
<1>1. CASE UNCHANGED vars
    <2>1. UNCHANGED <<sketches, query, minimum, answer>>
        BY <1>1 DEF vars, reading
    <2>2. (\A i : Scored(i)' = Scored(i)) /\ Of(query.target)' = Of(query.target)
        BY <2>1 DEF Scored, Of, Indices
    <2>3. Said("match")' <=> Said("match")
        BY <2>1 DEF Said
    <2> QED
        BY <2>1, <2>2, <2>3 DEF RankedBest
<1>2. CASE ~UNCHANGED vars
    <2>1. phase # "done" /\ answer = Nothing
        BY <1>2, DoneStays DEF Whole
    <2>2. SUFFICES ASSUME Said("match")' PROVE RankedBest'
        BY DEF RankedBest
    <2>3. PICK top \in Tops, floor \in Minimums : Match(top, floor)
        BY <2>1, <2>2, AnswersSay
    <2> QED
        BY <2>3, MatchRanks
<1> QED
    BY <1>1, <1>2

\* A digest is alone in its target if it is in no pair.
LEMMA AloneUnpaired ==
    ASSUME sketches \in Seq(Sketches), NEW i \in Indices
    PROVE  Len(Members(sketches[i].target)) = 1 <=> ~\E p \in Pairs : i = p[1] \/ i = p[2]
<1>1. PICK t : t = sketches[i].target
    OBVIOUS
<1>2. Listed(t)
    BY MembersListed
<1>3. PICK m : m = Members(t)
    OBVIOUS
<1>4. /\ Len(m) \in Nat
      /\ \A a, b \in 1 .. Len(m) : m[a] = m[b] <=> a = b
    BY <1>2, <1>3 DEF Listed
<1>5. PICK a \in 1 .. Len(m) : m[a] = i
    BY <1>1, <1>2, <1>3 DEF Listed
<1>6. ASSUME Len(m) # 1 PROVE \E p \in Pairs : i = p[1] \/ i = p[2]
    <2>1. PICK b \in 1 .. Len(m) : b # a
        <3>1. PICK l \in Nat : l = Len(m)
            BY <1>4
        <3>2. l # 1 /\ a \in 1 .. l
            BY <1>5, <1>6, <3>1
        <3>3. 1 \in 1 .. l /\ 2 \in 1 .. l
            BY <3>2
        <3> QED
            BY <3>1, <3>3
    <2>2. CASE a < b
        <3>1. <<m[a], m[b]>> \in Pairs
            BY <1>3, <2>2, AmongPair
        <3> QED
            BY <1>5, <3>1
    <2>3. CASE b < a
        <3>1. <<m[b], m[a]>> \in Pairs
            BY <1>3, <2>3, AmongPair
        <3> QED
            BY <1>5, <3>1
    <2> QED
        BY <1>4, <2>1, <2>2, <2>3
<1>7. ASSUME NEW p \in Pairs, i = p[1] \/ i = p[2] PROVE Len(m) # 1
    <2>1. Group(p) = t
        BY <1>1, <1>7 DEF Pairs, Group
    <2>2. PICK x, y \in 1 .. Len(m) : x < y
        BY <1>3, <2>1, PairAmong
    <2> QED
        BY <1>4, <2>2
<1> QED
    BY <1>1, <1>3, <1>6, <1>7

\* The lines that hold a digest, what cross has to say of them, and the
\* labels, which tell the digests apart and reach each of the lines.
DigestLines == {k \in DOMAIN lines : lines[k].kind = "digest"}
LinePairs ==
    {p \in DigestLines \X DigestLines :
        p[1] < p[2] /\ lines[p[1]].sketch.target = lines[p[2]].sketch.target}
Labelled ==
    /\ \A i \in Indices : labels[i] \in DigestLines /\ lines[labels[i]].sketch = sketches[i]
    /\ \A i, j \in Indices : (labels[i] < labels[j] <=> i < j) /\ (labels[i] = labels[j] => i = j)
    /\ \A k \in DigestLines : \E i \in Indices : labels[i] = k

LEMMA LabelsReach ==
    Reading /\ LabelsFit /\ Whole /\ read = Len(lines) => Labelled
<1> SUFFICES ASSUME Reading, LabelsFit, Whole, read = Len(lines) PROVE Labelled
    OBVIOUS
<1>1. PICK n \in 0 .. MaxLines : lines \in [1 .. n -> Lines]
    BY DEF Whole
<1>2. n \in Nat /\ Len(lines) = n /\ DOMAIN lines = 1 .. n /\ read = n
    BY <1>1, KnownAssumption
<1>3. /\ labels \in Seq(1 .. MaxLines) /\ Len(labels) \in Nat /\ Indices = 1 .. Len(labels)
    BY DEF Whole, LabelsFit, Indices
<1>4. ASSUME NEW i \in Indices PROVE labels[i] \in 1 .. n
    <2>1. PICK S : S = 1 .. MaxLines
        OBVIOUS
    <2>2. labels \in Seq(S) /\ i \in 1 .. Len(labels)
        BY <1>3, <2>1
    <2>3. labels[i] \in S
        BY <2>2
    <2>4. labels[i] <= n
        BY <1>2, <2>2 DEF Reading
    <2> QED
        BY <1>2, <2>1, <2>3, <2>4, KnownAssumption
<1>5. ASSUME NEW i \in Indices
      PROVE  lines[labels[i]].kind = "digest" /\ lines[labels[i]].sketch = sketches[i]
    <2>1. lines[labels[i]] = [kind |-> "digest", sketch |-> sketches[i]]
        BY DEF LabelsFit
    <2> QED
        BY <2>1
<1>6. ASSUME NEW i \in Indices, NEW j \in Indices
      PROVE  (labels[i] < labels[j] <=> i < j) /\ (labels[i] = labels[j] => i = j)
    <2>1. (i < j => labels[i] < labels[j]) /\ (j < i => labels[j] < labels[i])
        BY DEF LabelsFit
    <2>2. labels[i] \in Nat /\ labels[j] \in Nat /\ i \in Nat /\ j \in Nat
        BY <1>2, <1>3, <1>4
    <2> QED
        BY <2>1, <2>2
<1>7. \A k \in DigestLines : \E i \in Indices : labels[i] = k
    BY <1>2, <1>3 DEF Whole, DigestLines
<1> QED
    BY <1>2, <1>4, <1>5, <1>6, <1>7 DEF Labelled, DigestLines

\* The pairs of digests are those of their lines.
LEMMA PairsOfLines ==
    ASSUME sketches \in Seq(Sketches), Labelled
    PROVE  LET reach == {p \in LinePairs :
                   Leq(minimum, Similarity(lines[p[1]].sketch, lines[p[2]].sketch))}
               good == {p \in Pairs : Reaches(p)} IN
           /\ Cardinality(LinePairs) = Cardinality(Pairs)
           /\ Cardinality(reach) = Cardinality(good)
           /\ reach = {<<labels[p[1]], labels[p[2]]>> : p \in good}
<1>1. PICK f : f = [p \in Pairs |-> <<labels[p[1]], labels[p[2]]>>]
    OBVIOUS
<1>2. ASSUME NEW p \in Pairs
      PROVE  /\ f[p] \in LinePairs
             /\ f[p][1] = labels[p[1]] /\ f[p][2] = labels[p[2]]
             /\ lines[f[p][1]].sketch = sketches[p[1]] /\ lines[f[p][2]].sketch = sketches[p[2]]
    <2>1. p[1] \in Indices /\ p[2] \in Indices /\ p[1] < p[2]
          /\ sketches[p[1]].target = sketches[p[2]].target
        BY DEF Pairs
    <2>2. f[p] = <<labels[p[1]], labels[p[2]]>>
        BY <1>1
    <2> QED
        BY <2>1, <2>2 DEF Labelled, LinePairs
<1>3. ASSUME NEW p \in Pairs, NEW q \in Pairs, f[p] = f[q] PROVE p = q
    <2>1. /\ p = <<p[1], p[2]>> /\ q = <<q[1], q[2]>>
          /\ p[1] \in Indices /\ p[2] \in Indices /\ q[1] \in Indices /\ q[2] \in Indices
        BY DEF Pairs
    <2>2. labels[p[1]] = labels[q[1]] /\ labels[p[2]] = labels[q[2]]
        BY <1>2, <1>3
    <2>3. p[1] = q[1] /\ p[2] = q[2]
        BY <2>1, <2>2 DEF Labelled
    <2> QED
        BY <2>1, <2>3
<1>4. ASSUME NEW z \in LinePairs PROVE \E p \in Pairs : f[p] = z
    <2>1. /\ z = <<z[1], z[2]>> /\ z[1] \in DigestLines /\ z[2] \in DigestLines /\ z[1] < z[2]
          /\ lines[z[1]].sketch.target = lines[z[2]].sketch.target
        BY DEF LinePairs
    <2>2. PICK i \in Indices, j \in Indices : labels[i] = z[1] /\ labels[j] = z[2]
        BY <2>1 DEF Labelled
    <2>3. i < j /\ sketches[i].target = sketches[j].target
        BY <2>1, <2>2 DEF Labelled
    <2>4. <<i, j>> \in Pairs
        BY <2>3 DEF Pairs
    <2>5. f[<<i, j>>] = z
        BY <1>1, <2>1, <2>2, <2>4
    <2> QED
        BY <2>4, <2>5
<1>5. PICK S, T : S = Pairs /\ T = LinePairs
    OBVIOUS
<1>6. f \in [S -> T] /\ IsFiniteSet(S)
    BY <1>1, <1>2, <1>5, PairsFinite
<1>7. Cardinality(T) = Cardinality(S)
    BY <1>3, <1>4, <1>5, <1>6, SameNumber
<1>8. PICK R, G : /\ R = {p \in LinePairs :
                              Leq(minimum, Similarity(lines[p[1]].sketch, lines[p[2]].sketch))}
                 /\ G = {p \in Pairs : Reaches(p)}
    OBVIOUS
<1>9. \A p \in Pairs : f[p] \in R <=> p \in G
    BY <1>2, <1>8 DEF Reaches
<1>10. PICK g : g = [p \in G |-> f[p]]
    OBVIOUS
<1>11. /\ G \subseteq S /\ IsFiniteSet(G) /\ g \in [G -> R]
       /\ \A x, y \in G : g[x] = g[y] => x = y
       /\ \A z \in R : \E x \in G : g[x] = z
    <2>1. G \subseteq S /\ G \subseteq Pairs /\ R \subseteq LinePairs
        BY <1>5, <1>8
    <2>2. IsFiniteSet(G)
        BY <1>6, <2>1, FS_Subset
    <2> QED
        BY <1>3, <1>4, <1>9, <1>10, <2>1, <2>2
<1>12. Cardinality(R) = Cardinality(G)
    BY <1>11, SameNumber
<1>13. \A p \in G : g[p] = <<labels[p[1]], labels[p[2]]>>
    BY <1>1, <1>5, <1>10, <1>11
<1>14. R = {<<labels[p[1]], labels[p[2]]>> : p \in G}
    <2>1. R = {g[p] : p \in G}
        BY <1>11
    <2>2. {g[p] : p \in G} = {<<labels[p[1]], labels[p[2]]>> : p \in G}
        <3>1. ASSUME NEW z
              PROVE  (\E p \in G : z = g[p]) <=> (\E p \in G : z = <<labels[p[1]], labels[p[2]]>>)
            BY <1>13, Zenon
        <3> QED
            BY <3>1
    <2> QED
        BY <2>1, <2>2
<1> QED
    BY <1>5, <1>7, <1>8, <1>12, <1>14

\* The digests alone in their target are on the lines that are in no pair.
LEMMA AloneOfLines ==
    ASSUME sketches \in Seq(Sketches), Labelled
    PROVE  Alone = Cardinality(DigestLines \ UNION {{p[1], p[2]} : p \in LinePairs})
<1>1. PICK S, T : /\ S = {i \in Indices : Len(Members(sketches[i].target)) = 1}
                 /\ T = DigestLines \ UNION {{p[1], p[2]} : p \in LinePairs}
    OBVIOUS
<1>2. ASSUME NEW i \in Indices PROVE i \in S <=> labels[i] \in T
    <2>1. ASSUME NEW p \in Pairs, i = p[1] \/ i = p[2] PROVE labels[i] \notin T
        <3>1. p[1] \in Indices /\ p[2] \in Indices /\ p[1] < p[2]
              /\ sketches[p[1]].target = sketches[p[2]].target
            BY DEF Pairs
        <3>2. PICK z : z = <<labels[p[1]], labels[p[2]]>>
            OBVIOUS
        <3>3. z \in LinePairs /\ labels[i] \in {z[1], z[2]}
            BY <2>1, <3>1, <3>2 DEF Labelled, LinePairs
        <3> QED
            BY <1>1, <3>3
    <2>2. ASSUME NEW z \in LinePairs, labels[i] \in {z[1], z[2]}
          PROVE  \E p \in Pairs : i = p[1] \/ i = p[2]
        <3>1. /\ z[1] \in DigestLines /\ z[2] \in DigestLines /\ z[1] < z[2]
              /\ lines[z[1]].sketch.target = lines[z[2]].sketch.target
            BY DEF LinePairs
        <3>2. PICK a \in Indices, b \in Indices : labels[a] = z[1] /\ labels[b] = z[2]
            BY <3>1 DEF Labelled
        <3>3. <<a, b>> \in Pairs
            BY <3>1, <3>2 DEF Labelled, Pairs
        <3>4. i = a \/ i = b
            BY <2>2, <3>2 DEF Labelled
        <3> QED
            BY <3>3, <3>4
    <2>3. labels[i] \in DigestLines
        BY DEF Labelled
    <2>4. i \in S <=> ~\E p \in Pairs : i = p[1] \/ i = p[2]
        BY <1>1, AloneUnpaired
    <2>5. labels[i] \in T <=> ~\E z \in LinePairs : labels[i] \in {z[1], z[2]}
        BY <1>1, <2>3
    <2> QED
        BY <2>1, <2>2, <2>4, <2>5
<1>3. PICK f : f = [i \in S |-> labels[i]]
    OBVIOUS
<1>4. IsFiniteSet(S)
    <2>1. Len(sketches) \in Nat /\ Indices = 1 .. Len(sketches) /\ S \subseteq Indices
        BY <1>1 DEF Indices
    <2>2. IsFiniteSet(Indices)
        BY <2>1, FS_Interval
    <2> QED
        BY <2>1, <2>2, FS_Subset
<1>5. /\ f \in [S -> T]
      /\ \A x, y \in S : f[x] = f[y] => x = y
    BY <1>1, <1>2, <1>3 DEF Labelled
<1>6. \A z \in T : \E x \in S : f[x] = z
    BY <1>1, <1>2, <1>3 DEF Labelled
<1>7. Cardinality(T) = Cardinality(S)
    BY <1>4, <1>5, <1>6, SameNumber
<1> QED
    BY <1>1, <1>7 DEF Alone

\* What cross says, once it is done, of the lines of the file.
LEMMA CrossCovers == Reading /\ LabelsFit /\ Whole /\ Counting => CrossCoversPairs
<1> SUFFICES ASSUME Reading, LabelsFit, Whole, Counting, Said("cross") PROVE CrossCoversPairs
    BY DEF CrossCoversPairs
<1>1. Finished /\ read = Len(lines) /\ sketches \in Seq(Sketches)
    BY DEF Counting, Reading
<1>2. Labelled
    BY <1>1, LabelsReach
<1>3. PICK good, reach : /\ good = {p \in Pairs : Reaches(p)}
                        /\ reach = {p \in LinePairs :
                              Leq(minimum, Similarity(lines[p[1]].sketch, lines[p[2]].sketch))}
    OBVIOUS
<1>4. /\ Cardinality(LinePairs) = Cardinality(Pairs) /\ Cardinality(reach) = Cardinality(good)
      /\ reach = {<<labels[p[1]], labels[p[2]]>> : p \in good}
    BY <1>1, <1>2, <1>3, PairsOfLines
<1>5. ToSet(printed) = reach /\ Len(printed) = Cardinality(reach)
    BY <1>1, <1>3, <1>4 DEF Finished, Printed
<1>6. total = Cardinality(LinePairs) /\ below = total - Len(printed)
    <2>1. PICK S, bad : S = Pairs /\ bad = {p \in Pairs : ~Reaches(p)}
        OBVIOUS
    <2>2. bad = S \ good /\ good \subseteq S /\ IsFiniteSet(S)
        BY <1>1, <1>3, <2>1, PairsFinite
    <2>3. /\ Cardinality(S) = Cardinality(good) + Cardinality(bad)
          /\ Cardinality(good) \in Nat /\ Cardinality(bad) \in Nat
        BY <2>2, Divided
    <2>4. total = Cardinality(S) /\ below = Cardinality(bad)
        BY <1>1, <2>1 DEF Finished, Printed
    <2> QED
        BY <1>4, <1>5, <2>1, <2>3, <2>4
<1>7. Alone = Cardinality(DigestLines \ UNION {{p[1], p[2]} : p \in LinePairs})
    BY <1>1, <1>2, AloneOfLines
<1> QED
    BY <1>3, <1>5, <1>6, <1>7 DEF CrossCoversPairs, LinePairs, DigestLines

\* There are no more digests than lines were read.
LEMMA ListsAreShort ==
    Reading /\ LabelsFit /\ Whole => unparsed \in 0 .. read /\ Len(sketches) <= MaxLines
<1> SUFFICES ASSUME Reading, LabelsFit, Whole
             PROVE  unparsed \in 0 .. read /\ Len(sketches) <= MaxLines
    OBVIOUS
<1>1. PICK n \in 0 .. MaxLines : lines \in [1 .. n -> Lines]
    BY DEF Whole
<1>2. /\ read \in Nat /\ read <= MaxLines /\ unparsed \in Nat /\ Len(sketches) \in Nat
    BY <1>1, KnownAssumption DEF Reading
<1>3. PICK r \in Nat : r = read
    BY <1>2
<1>4. Filled(r) \subseteq 1 .. r /\ IsFiniteSet(1 .. r) /\ Cardinality(1 .. r) = r
    BY FS_Interval DEF Filled
<1>5. PICK F : F = Filled(r)
    OBVIOUS
<1>6. Cardinality(F) \in Nat /\ Cardinality(F) <= r
    BY <1>4, <1>5, FS_Subset, FS_CardinalityType
<1>7. Len(sketches) + unparsed = Cardinality(F)
    BY <1>3, <1>5 DEF LabelsFit, Filled
<1> QED
    BY <1>2, <1>3, <1>6, <1>7, KnownAssumption

LEMMA TypesHold == Reading /\ LabelsFit /\ Whole /\ Counting => TypeOK
<1> SUFFICES ASSUME Reading, LabelsFit, Whole, Counting PROVE TypeOK
    OBVIOUS
<1>1. /\ read \in 0 .. Len(lines) /\ unparsed \in 0 .. read /\ Len(sketches) <= MaxLines
      /\ sketches \in Seq(Sketches) /\ labels \in Seq(1 .. MaxLines)
    BY ListsAreShort DEF Reading, Whole
<1>2. ASSUME phase = "cross"
      PROVE  /\ group \in 1 .. Len(Grouped) /\ offset \in 1 .. MaxLines
             /\ next \in offset + 1 .. Len(Members(Grouped[group]))
    <2>1. PICK g, o, n : At(g, o, n)
        BY <1>2 DEF Counting, Crossing
    <2>2. /\ group = g /\ offset = o /\ next = n /\ g \in 1 .. Len(Grouped)
          /\ o \in 1 .. Len(Members(Grouped[g])) /\ n \in 1 .. Len(Members(Grouped[g])) /\ o < n
        BY <2>1 DEF At, Place
    <2>3. PICK m : m = Len(Members(Grouped[g]))
        OBVIOUS
    <2>4. m \in Nat /\ m <= Len(sketches) /\ Len(sketches) \in Nat
        BY <1>1, <2>3, MembersListed DEF Listed
    <2>5. o \in 1 .. MaxLines /\ n \in o + 1 .. m
        BY <1>1, <2>2, <2>3, <2>4, KnownAssumption
    <2> QED
        BY <2>2, <2>3, <2>5
<1>3. total \in Nat /\ below \in 0 .. total
    BY DEF Counting, Bounded
<1> QED
    BY <1>1, <1>2, <1>3 DEF TypeOK, Whole

\* The inductive invariant.
Answering == Reading /\ LabelsFit /\ Whole /\ Counting /\ RankedBest

LEMMA AnsweringAlways == Spec => []Answering
<1>1. Init => Answering
    <2> SUFFICES ASSUME Init PROVE Answering
        OBVIOUS
    <2>1. /\ read = 0 /\ labels = <<>> /\ sketches = <<>> /\ unparsed = 0 /\ query = NoQuery
          /\ phase = "query" /\ minimum = <<0, 1>> /\ group = 1 /\ offset = 1 /\ next = 2
          /\ printed = <<>> /\ below = 0 /\ total = 0 /\ answer = Nothing
        BY DEF Init
    <2>2. PICK n \in 0 .. MaxLines : lines \in [1 .. n -> Lines]
        BY DEF Init
    <2>3. n \in Nat /\ Len(lines) = n
        BY <2>2, KnownAssumption
    <2>4. Reading
        BY <2>1, <2>2, <2>3 DEF Reading
    <2>5. Cardinality({k \in 1 .. 0 : lines[k] # Blank}) = 0
        BY FS_EmptySet
    <2>6. LabelsFit
        BY <2>1, <2>5 DEF LabelsFit, Indices
    <2>7. ~Said("cross") /\ ~Said("match")
        BY <2>1 DEF Said, Nothing
    <2>8. Whole
        BY <2>1, <2>2 DEF Whole
    <2>9. Counting
        BY <2>1, <2>7 DEF Counting, Bounded
    <2> QED
        BY <2>4, <2>6, <2>7, <2>8, <2>9 DEF Answering, RankedBest
<1>2. Answering /\ [Next]_vars => Answering'
    <2> SUFFICES ASSUME Answering, [Next]_vars PROVE Answering'
        OBVIOUS
    <2>1. Reading' /\ LabelsFit'
        <3>1. CASE ReadLine
            BY <3>1, TakeExtends DEF Answering
        <3>2. CASE UNCHANGED <<lines, reading>>
            BY <3>2 DEF Answering, reading, Reading, LabelsFit, Indices
        <3> QED
            BY <3>1, <3>2, OthersKeep
    <2>2. /\ sketches \in Seq(Sketches) /\ labels \in Seq(Nat) /\ Len(labels) = Len(sketches)
          /\ sketches' \in Seq(Sketches)
        BY <2>1 DEF Answering, Reading, LabelsFit
    <2>3. Whole'
        BY WholeKeeps DEF Answering
    <2>4. Counting'
        BY <2>2, CountingKeeps DEF Answering
    <2>5. RankedBest'
        BY <2>2, RankedKeeps DEF Answering
    <2> QED
        BY <2>1, <2>3, <2>4, <2>5 DEF Answering
<1> QED
    BY <1>1, <1>2, PTL DEF Spec

\* The loops of cross stay inside the targets and their members, and the lists
\* inside the file (cli.py: _read_digests, _run_cross).
THEOREM TypeCorrect == Spec => []TypeOK
BY AnsweringAlways, TypesHold, PTL DEF Answering

\* match shows the best digests of the query's target that reach the minimum,
\* for every file, --top and --min (cli.py: _run_match).
THEOREM BestAreRanked == Spec => []RankedBest
BY AnsweringAlways, PTL DEF Answering

\* A finished cross has scored every two digests of one target once, and counts
\* the others and the digests alone correctly, for every file and --min
\* (cli.py: _by_target, _run_cross).
THEOREM EveryPairIsScored == Spec => []CrossCoversPairs
BY AnsweringAlways, CrossCovers, PTL DEF Answering
=============================================================================
