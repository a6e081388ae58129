-------------------------------- MODULE Known --------------------------------
(***************************************************************************)
(* The commands that score digests: `compare', and `match' and `cross',    *)
(* which read a file of digests.  cli.py reads the file line by line,      *)
(* match ranks every digest of the query's target, cross walks every pair  *)
(* inside each target and prints as it goes.                               *)
(*                                                                         *)
(* A line of the file is blank, garbled or a digest; its number stands for *)
(* its label; a file given for a digest is digested first, which may end   *)
(* in a refusal.  cross may find the reader of its output gone.            *)
(***************************************************************************)
EXTENDS Score, SequencesExt

CONSTANTS
    Sketches,  \* digests the file may hold: [target, cardinality, slots]
    Given,     \* digests given on the command line
    Minimums,  \* values of --min, as fractions
    Tops,      \* values of --top
    MaxLines   \* bound: lines of the file

ASSUME KnownAssumption ==
    /\ Tops \subseteq Nat /\ MaxLines \in Nat
    /\ \A s \in Sketches \cup Given :
          s.cardinality \in Nat /\ s.slots \in [1 .. PERMUTATIONS -> 0 .. SLOTS - 1]

Blank == [kind |-> "blank"]
Garbled == [kind |-> "garbled"]
Lines == {Blank, Garbled} \cup [kind : {"digest"}, sketch : Sketches]

VARIABLES
    lines,                      \* the file
    query,                      \* the digest match is given, or NoQuery
    read,                       \* lines read so far
    labels, sketches, unparsed, \* what _read_digests returns
    phase,                      \* query, read, ready, cross, done
    minimum,                    \* --min
    group, offset, next,        \* the loops of _run_cross
    printed, below, total,      \* what cross prints and counts
    answer                      \* what a finished command says

reading == <<read, labels, sketches, unparsed>>
loops == <<group, offset, next>>
counts == <<printed, below, total>>
vars == <<lines, query, reading, phase, minimum, loops, counts, answer>>

Nothing == [command |-> "none"]
Usage == [command |-> "usage"]
NoQuery == [target |-> "none"]

Init ==
    /\ lines \in UNION {[1 .. n -> Lines] : n \in 0 .. MaxLines}
    /\ query = NoQuery
    /\ read = 0 /\ labels = <<>> /\ sketches = <<>> /\ unparsed = 0
    /\ phase = "query" /\ minimum = <<0, 1>>
    /\ group = 1 /\ offset = 1 /\ next = 2
    /\ printed = <<>> /\ below = 0 /\ total = 0
    /\ answer = Nothing

Finish(a) == phase' = "done" /\ answer' = a

\* _as_digest digests a file, which is refused.
Refused ==
    /\ phase = "query"
    /\ Finish([command |-> "refused"])
    /\ UNCHANGED <<lines, query, reading, minimum, loops, counts>>

\* digest.parse refuses what was given.
BadQuery ==
    /\ phase = "query"
    /\ Finish(Usage)
    /\ UNCHANGED <<lines, query, reading, minimum, loops, counts>>

\* match with digest q, or cross with none, goes on to the file.
Start(q) ==
    /\ phase = "query"
    /\ query' = q /\ phase' = "read"
    /\ UNCHANGED <<lines, reading, minimum, loops, counts, answer>>

\* compare of two digests
Compare(left, right) ==
    /\ phase = "query"
    /\ Finish(IF left.target # right.target THEN Usage
              ELSE [command |-> "compare", left |-> left, right |-> right,
                    scores |-> Scores(left, right)])
    /\ UNCHANGED <<lines, query, reading, minimum, loops, counts>>

\* The file cannot be read.
ReadFails ==
    /\ phase = "read" /\ read = 0
    /\ Finish(Usage)
    /\ UNCHANGED <<lines, query, reading, minimum, loops, counts>>

\* Mutant: the label is kept before the digest is parsed.
LabelFirst(line) ==
    CASE line.kind = "blank" -> UNCHANGED <<labels, sketches, unparsed>>
      [] line.kind = "garbled" ->
            unparsed' = unparsed + 1 /\ labels' = Append(labels, read') /\ UNCHANGED sketches
      [] OTHER -> labels' = Append(labels, read') /\ sketches' = Append(sketches, line.sketch)
                  /\ UNCHANGED unparsed

Take(line) ==
    CASE line.kind = "blank" -> UNCHANGED <<labels, sketches, unparsed>>
      [] line.kind = "garbled" -> unparsed' = unparsed + 1 /\ UNCHANGED <<labels, sketches>>
      [] OTHER -> labels' = Append(labels, read') /\ sketches' = Append(sketches, line.sketch)
                  /\ UNCHANGED unparsed

\* One round of the loop of _read_digests.
ReadLine ==
    /\ phase = "read" /\ read < Len(lines)
    /\ read' = read + 1
    /\ Take(lines[read'])
    /\ UNCHANGED <<lines, query, phase, minimum, loops, counts, answer>>

ReadAll ==
    /\ phase = "read" /\ read = Len(lines)
    /\ phase' = "ready"
    /\ UNCHANGED <<lines, query, reading, minimum, loops, counts, answer>>
-----------------------------------------------------------------------------
(* match                                                                   *)

Indices == 1 .. Len(sketches)
Of(target) == {i \in Indices : sketches[i].target = target}

\* A set in the order R: the k-th of it comes after k - 1 others.
Sorted(S, R) ==
    [k \in 1 .. Cardinality(S) |->
        CHOOSE x \in S : Cardinality({y \in S : <<y, x>> \in R}) = k - 1]
Rising(S) == Sorted(S, {p \in S \X S : p[1] < p[2]})

Scored(i) == Similarity(sketches[i], query)
Ahead(i, j) == ~Leq(Scored(i), Scored(j)) \/ (Equal(Scored(i), Scored(j)) /\ i < j)

\* sorted by falling score, which keeps the order of the file between equals
Order(rows) == Sorted(rows, {p \in rows \X rows : Ahead(p[1], p[2])})

\* What of a sequence reaches the minimum, in its order.
Cleared(seq, floor) ==
    LET at == {k \in DOMAIN seq : Leq(floor, Scored(seq[k]))} IN
    [k \in 1 .. Cardinality(at) |-> seq[Rising(at)[k]]]

First(seq, n) == SubSeq(seq, 1, Smaller(n, Len(seq)))

\* Mutant: the best `top' are taken before the minimum is applied.
TopThenCleared(order, top, floor) ==
    LET cleared == Cleared(First(order, top), floor) IN
    [ranked |-> cleared, below |-> Len(order) - Len(cleared)]

\* What reaches the minimum, and of that the best `top'.
Ranking(order, top, floor) ==
    LET cleared == Cleared(order, floor) IN
    [ranked |-> First(cleared, top), below |-> Len(order) - Len(cleared)]

Match(top, floor) ==
    /\ phase = "ready" /\ query # NoQuery
    /\ LET rows == Of(query.target)
           ranking == Ranking(Order(rows), top, floor) IN
       Finish(IF rows = {} THEN Usage
              ELSE [command |-> "match", top |-> top,
                    ranked |-> ranking.ranked, below |-> ranking.below,
                    other |-> Len(sketches) - Cardinality(rows)])
    /\ minimum' = floor
    /\ UNCHANGED <<lines, query, reading, loops, counts>>
-----------------------------------------------------------------------------
(* cross                                                                   *)

Members(target) == Rising(Of(target))

\* _by_target: targets of at least two digests, as they first appear
Shared == {t \in {sketches[i].target : i \in Indices} : Len(Members(t)) > 1}
Grouped == Sorted(Shared, {p \in Shared \X Shared : Members(p[1])[1] < Members(p[2])[1]})

Cross(floor) ==
    /\ phase = "ready" /\ query = NoQuery
    /\ minimum' = floor
    /\ IF Grouped = <<>> THEN Finish(Usage) /\ UNCHANGED total
       ELSE phase' = "cross" /\ total' = Len(Members(Grouped[1])) - 1 /\ UNCHANGED answer
    /\ UNCHANGED <<lines, query, reading, loops, printed, below>>

\* digests alone in their target
Alone ==
    Cardinality({i \in Indices : Len(Members(sketches[i].target)) = 1})

\* Mutant: the right side runs past the last member.
AdvancePast ==
    LET members == Members(Grouped[group]) IN
    IF next <= Len(members) THEN
        next' = next + 1 /\ UNCHANGED <<group, offset, total, phase, answer>>
    ELSE IF group < Len(Grouped) THEN
        /\ group' = group + 1 /\ offset' = 1 /\ next' = 2
        /\ total' = total + Len(Members(Grouped[group'])) - 1
        /\ UNCHANGED <<phase, answer>>
    ELSE Finish([command |-> "cross"]) /\ UNCHANGED <<loops, total>>

\* The next pair, left side or target; the pairs of a left side are counted
\* when its scores are computed.
Advance ==
    LET members == Members(Grouped[group]) IN
    IF next < Len(members) THEN
        next' = next + 1 /\ UNCHANGED <<group, offset, total, phase, answer>>
    ELSE IF offset + 1 < Len(members) THEN
        /\ offset' = offset + 1 /\ next' = offset + 2
        /\ total' = total + Len(members) - offset'
        /\ UNCHANGED <<group, phase, answer>>
    ELSE IF group < Len(Grouped) THEN
        /\ group' = group + 1 /\ offset' = 1 /\ next' = 2
        /\ total' = total + Len(Members(Grouped[group'])) - 1
        /\ UNCHANGED <<phase, answer>>
    ELSE Finish([command |-> "cross"]) /\ UNCHANGED <<loops, total>>

\* Mutant: the slice of the scores begins a member too early.
RowsFromLeft(members) == SubSeq(members, offset, Len(members))

\* The scores of a left side are those of a slice of the members; the label
\* beside a score is found from its place in the slice.
Rows(members) == SubSeq(members, offset + 1, Len(members))

CrossPair ==
    /\ phase = "cross"
    /\ LET members == Members(Grouped[group])
           step == next - offset
           left == members[offset]
           right == members[offset + step]
           scored == Rows(members)[step] IN
       IF Leq(minimum, Similarity(sketches[scored], sketches[left]))
       THEN printed' = Append(printed, <<labels[left], labels[right]>>) /\ UNCHANGED below
       ELSE below' = below + 1 /\ UNCHANGED printed
    /\ Advance
    /\ UNCHANGED <<lines, query, reading, minimum>>

\* print finds the reader gone: main ends the command.
ReaderGone ==
    /\ phase = "cross"
    /\ Finish([command |-> "closed"])
    /\ UNCHANGED <<lines, query, reading, minimum, loops, counts>>
Next ==
    \/ Refused \/ BadQuery
    \/ \E q \in Given \cup {NoQuery} : Start(q)
    \/ \E left, right \in Given : lines = <<>> /\ Compare(left, right)
    \/ ReadFails \/ ReadLine \/ ReadAll
    \/ \E top \in Tops, floor \in Minimums : Match(top, floor)
    \/ \E floor \in Minimums : Cross(floor)
    \/ CrossPair \/ ReaderGone

Spec == Init /\ [][Next]_vars
-----------------------------------------------------------------------------
(* Properties                                                              *)

Said(command) == answer.command = command

TypeOK ==
    /\ read \in 0 .. Len(lines) /\ unparsed \in 0 .. read
    /\ labels \in Seq(1 .. MaxLines) /\ sketches \in Seq(Sketches)
    /\ query \in Given \cup {NoQuery} /\ phase \in {"query", "read", "ready", "cross", "done"} /\ minimum \in Minimums \cup {<<0, 1>>}
    /\ phase = "cross" =>
          /\ group \in 1 .. Len(Grouped) /\ offset \in 1 .. MaxLines
          /\ next \in offset + 1 .. Len(Members(Grouped[group]))
    /\ total \in Nat /\ below \in 0 .. total

\* Skipped lines never shift the labels against the digests, so that every
\* score match or cross prints stands beside the file it was computed from.
LabelsFit ==
    /\ Len(labels) = Len(sketches)
    /\ \A i \in Indices : lines[labels[i]] = [kind |-> "digest", sketch |-> sketches[i]]
    /\ \A i, j \in Indices : i < j => labels[i] < labels[j]
    /\ Len(sketches) + unparsed = Cardinality({k \in 1 .. read : lines[k] # Blank})

\* A finished cross has scored every two digests of one target exactly once:
\* it prints the pairs that reach the minimum, earlier line first, and counts
\* the others, the total and the digests alone in their target correctly.
CrossCoversPairs ==
    Said("cross") =>
        LET at == {k \in DOMAIN lines : lines[k].kind = "digest"}
            pairs == {p \in at \X at : p[1] < p[2]
                         /\ lines[p[1]].sketch.target = lines[p[2]].sketch.target}
            reach == {p \in pairs :
                         Leq(minimum, Similarity(lines[p[1]].sketch, lines[p[2]].sketch))} IN
        /\ ToSet(printed) = reach /\ Len(printed) = Cardinality(reach)
        /\ total = Cardinality(pairs) /\ below = total - Len(printed)
        /\ Alone = Cardinality(at \ UNION {{p[1], p[2]} : p \in pairs})

\* match shows the best: whatever of the query's target reaches the minimum
\* and is not shown is beaten by `top' others, the counts add up, and what is
\* shown is in falling order.
RankedBest ==
    Said("match") =>
        LET shown == ToSet(answer.ranked) IN
        /\ \A i \in shown : Leq(minimum, Scored(i))
        /\ \A a, b \in DOMAIN answer.ranked :
              a < b => Leq(Scored(answer.ranked[b]), Scored(answer.ranked[a]))
        /\ \A i \in Of(query.target) \ shown :
              Leq(minimum, Scored(i)) =>
                 Len(answer.ranked) = answer.top /\ \A j \in shown : Leq(Scored(i), Scored(j))
        /\ answer.below = Cardinality({i \in Of(query.target) : ~Leq(minimum, Scored(i))})
        /\ answer.other + Cardinality(Of(query.target)) = Len(sketches)

\* The commands agree whichever side a digest is on: a digest matches itself
\* fully, comparing the other way round gives the same similarity and swaps
\* the containments.
ComparesAlike ==
    Said("compare") =>
        LET s == answer.scores
            back == Scores(answer.right, answer.left) IN
        /\ Leq(<<0, 1>>, s.similarity) /\ Leq(s.similarity, One)
        /\ Equal(s.similarity, back.similarity)
        /\ answer.left = answer.right => Equal(s.similarity, One)
        /\ IF s.containment = Withheld THEN back.containment = Withheld
           ELSE /\ Equal(s.containment[1], back.containment[2])
                /\ Equal(s.containment[2], back.containment[1])

\* Containment is a share of one side: never less than the similarity, never
\* more than all, and larger for the smaller program.  It is withheld beyond
\* a 4x difference in size.
ContainmentSound ==
    Said("compare") =>
        LET s == answer.scores
            l == answer.left.cardinality
            r == answer.right.cardinality IN
        /\ s.containment = Withheld <=> l = 0 \/ r = 0 \/ l > 4 * r \/ r > 4 * l
        /\ s.containment # Withheld =>
              /\ \A side \in {1, 2} :
                    Leq(s.similarity, s.containment[side]) /\ Leq(s.containment[side], One)
              /\ l <= r => Leq(s.containment[2], s.containment[1])
=============================================================================
