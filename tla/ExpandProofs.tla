---------------------------- MODULE ExpandProofs -----------------------------
(***************************************************************************)
(* Proofs about Expand, for any trees, command lines and number of         *)
(* changes: the types, that a file that stays is found or a failure on its *)
(* way reported, and that nothing that stays is hashed or listed twice.    *)
(***************************************************************************)
EXTENDS Expand, Induction, SequenceTheorems

Worlds == [Dirs -> [Names -> Entries]]
Places == Nodes \cup {Absent}
-----------------------------------------------------------------------------
(* Paths.                                                                  *)

\* The nodes of a path follow each other as its names say.
LEMMA TrailSteps ==
    ASSUME NEW e \in Worlds, NEW path \in Seq(Names)
    PROVE  /\ Trail(e, path) \in [0 .. Len(path) -> Places]
           /\ Trail(e, path)[0] = Cwd
           /\ \A k \in 1 .. Len(path) :
                 Trail(e, path)[k] = Step(e, Trail(e, path)[k - 1], path[k])
<1> DEFINE n == Len(path)
           step == [i \in 1 .. n |-> [v \in Places |-> Step(e, v, path[i])]]
           Follows(f) == f = [k \in 0 .. n |->
                                 IF k = 0 THEN Cwd ELSE Step(e, f[k - 1], path[k])]
<1>1. n \in Nat /\ Cwd \in Places
    BY ExpandAssumption DEF Places, Nodes
<1>2. step \in [1 .. n -> [Places -> Places]]
    BY DEF Step, Places, Nodes, Entries, Worlds
<1>3. PICK f \in [0 .. n -> Places] : f[0] = Cwd /\ \A i \in 1 .. n : f[i] = step[i][f[i - 1]]
    <2> HIDE DEF n, step
    <2>1. PICK f : Runs(f, n, Places, Cwd, step)
        BY <1>1, <1>2, Recursion
    <2> QED
        BY <2>1 DEF Runs
<1>4. \A k \in 1 .. n : f[k] = Step(e, f[k - 1], path[k])
    <2> SUFFICES ASSUME NEW k \in 1 .. n PROVE f[k] = Step(e, f[k - 1], path[k])
        OBVIOUS
    <2>1. k - 1 \in 0 .. n /\ f[k - 1] \in Places
        BY <1>1, <1>3
    <2>2. step[k][f[k - 1]] = Step(e, f[k - 1], path[k])
        BY <2>1
    <2> QED
        BY <1>3, <2>2
<1>5. Follows(f)
    BY <1>1, <1>3, <1>4
<1>6. Follows(Trail(e, path))
    <2>1. Trail(e, path) = CHOOSE g : Follows(g)
        BY DEF Trail
    <2> HIDE DEF Follows
    <2> QED
        BY <1>5, <2>1
<1>7. ASSUME NEW g, Follows(g) PROVE g = f
    <2> DEFINE S == {k \in Nat : k <= n => g[k] = f[k]}
    <2>1. 0 \in S
        BY <1>1, <1>3, <1>7
    <2>2. ASSUME NEW k \in Nat, k \in S PROVE k + 1 \in S
        BY <1>1, <1>4, <1>7, <2>2
    <2>3. \A k \in 0 .. n : k \in S
        <3> HIDE DEF S, n
        <3> QED
            BY <2>1, <2>2, Induct
    <2> QED
        BY <1>5, <1>7, <2>3
<1>8. Trail(e, path) = f
    BY <1>6, <1>7
<1> QED
    BY <1>3, <1>4, <1>8

\* Paths that begin alike lead through the same nodes there.
LEMMA TrailPrefix ==
    ASSUME NEW e \in Worlds, NEW p \in Seq(Names), NEW q \in Seq(Names), NEW n \in Nat,
           n <= Len(p), n <= Len(q), \A k \in 1 .. n : p[k] = q[k]
    PROVE  \A k \in 0 .. n : Trail(e, p)[k] = Trail(e, q)[k]
<1> DEFINE S == {k \in Nat : k <= n => Trail(e, p)[k] = Trail(e, q)[k]}
<1>1. Len(p) \in Nat /\ Len(q) \in Nat
    OBVIOUS
<1>2. 0 \in S
    BY TrailSteps
<1>3. ASSUME NEW k \in Nat, k \in S PROVE k + 1 \in S
    <2> SUFFICES ASSUME k + 1 <= n PROVE Trail(e, p)[k + 1] = Trail(e, q)[k + 1]
        OBVIOUS
    <2>1. k + 1 \in 1 .. Len(p) /\ k + 1 \in 1 .. Len(q) /\ (k + 1) - 1 = k
        BY <1>1
    <2>2. /\ Trail(e, p)[k + 1] = Step(e, Trail(e, p)[k], p[k + 1])
          /\ Trail(e, q)[k + 1] = Step(e, Trail(e, q)[k], q[k + 1])
        BY <2>1, TrailSteps
    <2> QED
        BY <1>3, <2>2
<1>4. \A k \in 0 .. n : k \in S
    <2> HIDE DEF S
    <2> QED
        BY <1>2, <1>3, Induct
<1> QED
    BY <1>4

\* The first k names of a path, and one more.
LEMMA Beginning ==
    ASSUME NEW p \in Seq(Names), NEW k \in 0 .. Len(p)
    PROVE  /\ SubSeq(p, 1, k) \in Seq(Names) /\ Len(SubSeq(p, 1, k)) = k
           /\ \A i \in 1 .. k : SubSeq(p, 1, k)[i] = p[i]
           /\ k < Len(p) => /\ Append(SubSeq(p, 1, k), p[k + 1]) = SubSeq(p, 1, k + 1)
                            /\ p[k + 1] \in Names
           /\ k = Len(p) => SubSeq(p, 1, k) = p
           /\ k > 0 => /\ Front(SubSeq(p, 1, k)) = SubSeq(p, 1, k - 1)
                       /\ Last(SubSeq(p, 1, k)) = p[k]
BY DEF Front, Last

\* What a beginning of a path leads to.
LEMMA ResolveBeginning ==
    ASSUME entry \in Worlds, NEW p \in Seq(Names), NEW k \in 0 .. Len(p)
    PROVE  Resolve(SubSeq(p, 1, k)) = Trail(entry, p)[k]
<1>1. k \in Nat /\ k <= Len(p) /\ k \in 0 .. k
    OBVIOUS
<1> DEFINE q == SubSeq(p, 1, k)
<1>2. q \in Seq(Names) /\ Len(q) = k /\ \A i \in 1 .. k : q[i] = p[i]
    BY Beginning
<1>3. Trail(entry, q)[k] = Trail(entry, p)[k]
    <2> HIDE DEF q
    <2> QED
        BY <1>1, <1>2, TrailPrefix
<1> QED
    BY <1>2, <1>3 DEF Resolve

\* One name more.
LEMMA ResolveAppend ==
    ASSUME entry \in Worlds, NEW p \in Seq(Names), NEW name \in Names
    PROVE  LET q == Append(p, name) IN
           /\ q \in Seq(Names) /\ Front(q) = p /\ Last(q) = name
           /\ Resolve(q) = Step(entry, Resolve(p), name)
<1> DEFINE q == Append(p, name)
           n == Len(p)
<1>1. /\ n \in Nat /\ q \in Seq(Names) /\ Len(q) = n + 1 /\ q[n + 1] = name
      /\ \A i \in 1 .. n : p[i] = q[i]
    OBVIOUS
<1>2. Front(q) = p /\ Last(q) = name
    BY <1>1 DEF Front, Last
<1>3. Trail(entry, p)[n] = Trail(entry, q)[n]
    <2>1. n \in 0 .. n /\ n <= n + 1
        BY <1>1
    <2> HIDE DEF q
    <2> QED
        BY <1>1, <2>1, TrailPrefix
<1>4. Trail(entry, q)[n + 1] = Step(entry, Trail(entry, q)[n], name)
    <2>1. n + 1 \in 1 .. Len(q) /\ (n + 1) - 1 = n
        BY <1>1
    <2> HIDE DEF q
    <2> QED
        BY <1>1, <2>1, TrailSteps
<1> QED
    BY <1>1, <1>2, <1>3, <1>4 DEF Resolve

\* A path leads on through directories only.
LEMMA DirectoriesAbove ==
    ASSUME NEW e \in Worlds, NEW p \in Seq(Names), NEW k \in 1 .. Len(p),
           Trail(e, p)[k] # Absent
    PROVE  Trail(e, p)[k - 1] \in Dirs
BY TrailSteps DEF Step

\* So does every beginning of a path that leads somewhere.
LEMMA DirectoriesOnTheWay ==
    ASSUME NEW e \in Worlds, NEW p \in Seq(Names), Trail(e, p)[Len(p)] # Absent
    PROVE  \A k \in 0 .. Len(p) - 1 : Trail(e, p)[k] \in Dirs
<1> DEFINE n == Len(p)
           S == {j \in Nat : j < n => Trail(e, p)[n - 1 - j] \in Dirs}
<1>1. n \in Nat
    OBVIOUS
<1>2. 0 \in S
    BY <1>1, DirectoriesAbove
<1>3. ASSUME NEW j \in Nat, j \in S PROVE j + 1 \in S
    <2> SUFFICES ASSUME j + 1 < n PROVE Trail(e, p)[n - 1 - (j + 1)] \in Dirs
        OBVIOUS
    <2>1. Trail(e, p)[n - 1 - j] # Absent
        BY <1>3, ExpandAssumption
    <2>2. n - 1 - j \in 1 .. Len(p) /\ (n - 1 - j) - 1 = n - 1 - (j + 1)
        BY <1>1
    <2> QED
        BY <2>1, <2>2, DirectoriesAbove
<1>4. \A j \in 0 .. n - 1 : j \in S
    <2> HIDE DEF S, n
    <2> QED
        BY <1>1, <1>2, <1>3, Induct
<1> SUFFICES ASSUME NEW k \in 0 .. n - 1 PROVE Trail(e, p)[k] \in Dirs
    OBVIOUS
<1>5. n - 1 - k \in S /\ n - 1 - (n - 1 - k) = k
    BY <1>1, <1>4
<1> QED
    BY <1>1, <1>5

\* The real path of a path that leads to a node is the node, and of no other.
LEMMA RealLeads ==
    ASSUME entry \in Worlds, NEW p \in Seq(Names)
    PROVE  /\ Real(p) \in Places \X Seq(Names)
           /\ \A node \in Nodes : Real(p) = <<node, <<>>>> <=> Resolve(p) = node
<1> DEFINE n == Len(p)
           way == Trail(entry, p)
           There(k) == way[k] # Absent /\ \A j \in k + 1 .. n : way[j] = Absent
           last == CHOOSE k \in 0 .. n : There(k)
<1>1. /\ n \in Nat /\ Cwd # Absent /\ Absent \notin Nodes
      /\ way \in [0 .. n -> Places] /\ way[0] = Cwd
    BY TrailSteps, ExpandAssumption DEF Nodes
<1> HIDE DEF n, way
<1>2. \E k \in 0 .. n : There(k)
    <2> DEFINE S == {i \in Nat : i <= n /\ way[n - i] # Absent}
    <2>1. n \in S /\ S \subseteq Nat
        BY <1>1
    <2>2. PICK i \in S : \A m \in S : i <= m
        <3> HIDE DEF S
        <3> QED
            BY <2>1, Least
    <2>3. n - i \in 0 .. n /\ way[n - i] # Absent
        BY <1>1, <2>2
    <2>4. ASSUME NEW j \in (n - i) + 1 .. n, way[j] # Absent PROVE FALSE
        <3>1. n - j \in Nat /\ n - j <= n /\ n - (n - j) = j /\ n - j < i
            BY <1>1, <2>2, <2>4
        <3>2. n - j \in S
            BY <2>4, <3>1
        <3> QED
            BY <2>2, <3>1, <3>2
    <2> QED
        BY <2>3, <2>4
<1>3. last \in 0 .. n /\ There(last)
    BY <1>2
<1>4. Real(p) = <<way[last], SubSeq(p, last + 1, n)>>
    BY DEF Real, n, way
<1> HIDE DEF last
<1>5. /\ SubSeq(p, last + 1, n) \in Seq(Names) /\ Len(SubSeq(p, last + 1, n)) = n - last
      /\ last = n => SubSeq(p, last + 1, n) = <<>>
    BY <1>1, <1>3 DEF n
<1> DEFINE rest == SubSeq(p, last + 1, n)
<1> HIDE DEF rest
<1>6. Real(p) \in Places \X Seq(Names)
    <2>1. way[last] \in Places /\ rest \in Seq(Names) /\ Real(p) = <<way[last], rest>>
        BY <1>1, <1>3, <1>4, <1>5 DEF rest
    <2> QED
        BY <2>1
<1>7. ASSUME NEW node \in Nodes, Real(p) = <<node, <<>>>> PROVE way[n] = node
    <2>1. <<way[last], rest>> = <<node, <<>>>>
        BY <1>4, <1>7 DEF rest
    <2> DEFINE v == way[last]
    <2> HIDE DEF v
    <2>3. <<v, rest>>[1] = node /\ <<v, rest>>[2] = <<>>
        BY <2>1 DEF v
    <2>4. rest = <<>> /\ way[last] = node
        BY <2>3 DEF v
    <2>2. last = n
        BY <1>1, <1>3, <1>5, <2>4 DEF rest
    <2> QED
        BY <2>4, <2>2
<1>8. ASSUME NEW node \in Nodes, way[n] = node PROVE Real(p) = <<node, <<>>>>
    <2>1. way[n] # Absent
        BY <1>1, <1>8
    <2>2. last = n
        BY <1>1, <1>3, <2>1
    <2> QED
        BY <1>4, <1>5, <1>8, <2>2
<1> QED
    BY <1>6, <1>7, <1>8 DEF Resolve, way, n
-----------------------------------------------------------------------------
(* The invariant.                                                          *)

\* Types, and where `at' may stand.
Kinds ==
    /\ TypeOK
    /\ args \in Seq(Seq(Names)) /\ found \in Seq(Seq(Names))
    /\ IsFiniteSet(walked) /\ IsFiniteSet(seen) /\ kept \in Seq(Places \X Seq(Names))
    /\ pc \in {"walk", "names", "real"} => at <= Len(args)
    /\ pc \in {"usage", "hash"} => at = Len(args) + 1

\* A wanted file waits among the candidates, or below a directory that has
\* still to be listed, or among the names of the directory just listed.
Ahead(path) ==
    \/ path \in walked
    \/ \E k \in Len(args[at]) .. Len(path) - 1 :
          \/ SubSeq(path, 1, k) \in pending
          \/ /\ pc = "names" /\ root = SubSeq(path, 1, k)
             /\ path[k + 1] \in (IF k + 1 = Len(path) THEN names ELSE subs)

\* A file of an argument that is done is settled; of the one being walked, it is
\* settled or still ahead.
Track(i, path) ==
    /\ i < at => Settled(path)
    /\ i = at /\ pc \in {"walk", "names", "real"} => Settled(path) \/ Ahead(path)
    /\ i = at /\ pc = "real" => Settled(path) \/ path \in walked

Tracked ==
    \A i \in 1 .. Len(args), path \in Seq(Names) : Wanted(i, path) => Track(i, path)

\* The real paths are those kept, each once, and a file found has its own until
\* others change an entry on its way.
Remembered ==
    /\ seen = {kept[i] : i \in 1 .. Len(kept)}
    /\ \A i, j \in 1 .. Len(kept) : i # j => kept[i] # kept[j]
    /\ \A i \in 1 .. Len(found) : Steady(found[i]) => Real(found[i]) = kept[i]

\* A path goes on from an argument, and through no link.
Extends(arg, path) == Len(arg) <= Len(path) /\ \A k \in 1 .. Len(arg) : path[k] = arg[k]
Straight(e, arg, path) ==
    \A k \in Len(arg) + 1 .. Len(path) :
        LET d == Trail(e, path)[k - 1] IN ~(d \in Dirs /\ e[d][path[k]].link)

\* The paths that the walk of this argument has come to: nobody made a link of
\* them unless he touched them; each was entered from one listed before, and
\* none is pending or comes up again that was listed.
Reached == pending \cup listed
Descends ==
    pc \in {"walk", "names"} =>
        /\ \A p \in Reached :
              /\ Extends(args[at], p) /\ (Steady(p) => Straight(entry, args[at], p))
              /\ p # args[at] => Front(p) \in listed
        /\ pending \cap listed = {}
        /\ pc = "names" => root \in listed /\ \A n \in subs : Append(root, n) \notin Reached

\* Outside a walk nothing is pending.
Idle == pc \notin {"walk", "names"} => pending = {}

IInv == Kinds /\ Tracked /\ Remembered /\ IsTree(entry) /\ Descends /\ Idle
-----------------------------------------------------------------------------
(* What other programs do.                                                 *)

\* An entry that changes is marked as touched, and what results is a tree.
Disturbed ==
    /\ entry' \in Worlds /\ (IsTree(entry) => IsTree(entry'))
    /\ \A d \in Dirs, n \in Names : entry'[d][n] # entry[d][n] => <<d, n>> \in touched'
    /\ touched \subseteq touched' /\ touched' \subseteq Dirs \X Names
    /\ closed' \subseteq Dirs /\ changes' \in 0 .. MaxChanges
    /\ pc \notin {"usage", "hash"}
    /\ UNCHANGED elsewhere

LEMMA OthersDisturb ==
    ASSUME Kinds, Others PROVE Disturbed
<1>1. /\ entry \in Worlds /\ closed \subseteq Dirs /\ touched \subseteq Dirs \X Names
      /\ changes \in Nat /\ MaxChanges \in Nat
    BY ExpandAssumption DEF Kinds, TypeOK, Worlds
<1>2. PICK d \in Dirs : \/ Deny(d)
                        \/ \E n \in Names : \/ \E new \in Entries : Change(d, n, new)
                                            \/ \E c \in Dirs, m \in Names : Move(d, n, c, m)
    BY DEF Others
<1>3. CASE Deny(d)
    <2>1. entry' = entry /\ touched' = touched
        BY <1>3 DEF Deny
    <2> QED
        BY <1>1, <1>3, <2>1 DEF Deny, Busy, Disturbed
<1>4. ASSUME NEW e, NEW slots \in SUBSET (Dirs \X Names), Busy, Become(e, slots),
             \A c \in Dirs, m \in Names : <<c, m>> \notin slots => e[c][m] = entry[c][m]
      PROVE  Disturbed
    <2>1. /\ entry' = e /\ touched' = touched \cup slots /\ e \in Trees
          /\ changes' = changes + 1 /\ changes < MaxChanges /\ pc \notin {"usage", "hash"}
          /\ closed' = closed /\ UNCHANGED elsewhere
        BY <1>4 DEF Become, Busy
    <2>2. entry' \in Worlds /\ IsTree(entry')
        BY <2>1 DEF Trees, Worlds
    <2>3. \A c \in Dirs, m \in Names : entry'[c][m] # entry[c][m] => <<c, m>> \in touched'
        BY <1>4, <2>1
    <2>4. /\ touched \subseteq touched' /\ touched' \subseteq Dirs \X Names
          /\ changes' \in 0 .. MaxChanges
        BY <1>1, <2>1
    <2> QED
        BY <1>1, <2>1, <2>2, <2>3, <2>4 DEF Disturbed
<1>5. ASSUME NEW n \in Names, NEW new, Change(d, n, new) PROVE Disturbed
    <2> DEFINE e == [entry EXCEPT ![d][n] = new]
    <2>1. \A c \in Dirs, m \in Names : <<c, m>> \notin {<<d, n>>} => e[c][m] = entry[c][m]
        BY <1>1 DEF Worlds
    <2>2. Busy /\ Become(e, {<<d, n>>}) /\ {<<d, n>>} \in SUBSET (Dirs \X Names)
        BY <1>5 DEF Change
    <2> HIDE DEF e
    <2> QED
        BY <1>4, <2>1, <2>2
<1>6. ASSUME NEW n \in Names, NEW c \in Dirs, NEW m \in Names, Move(d, n, c, m) PROVE Disturbed
    <2> DEFINE e == [entry EXCEPT ![d][n] = NoEntry, ![c][m] = entry[d][n]]
               slots == {<<d, n>>, <<c, m>>}
    <2>1. \A x \in Dirs, y \in Names : <<x, y>> \notin slots => e[x][y] = entry[x][y]
        BY <1>1 DEF Worlds
    <2>2. Busy /\ Become(e, slots) /\ slots \in SUBSET (Dirs \X Names)
        BY <1>6 DEF Move
    <2> HIDE DEF e, slots
    <2> QED
        BY <1>4, <2>1, <2>2
<1> QED
    BY <1>2, <1>3, <1>5, <1>6

\* A path that is steady afterwards was so before and leads the same way, past
\* the same entries.
LEMMA SteadyStays ==
    ASSUME Kinds, Disturbed, NEW path \in Seq(Names), Steady(path)'
    PROVE  /\ Steady(path)
           /\ \A k \in 0 .. Len(path) : Trail(entry', path)[k] = Trail(entry, path)[k]
           /\ \A k \in 1 .. Len(path) : Trail(entry, path)[k - 1] \in Dirs =>
                 entry'[Trail(entry, path)[k - 1]][path[k]] = entry[Trail(entry, path)[k - 1]][path[k]]
<1> DEFINE n == Len(path)
           old == Trail(entry, path)
           new == Trail(entry', path)
           S == {k \in Nat : k <= n => new[k] = old[k]}
<1>1. /\ entry \in Worlds /\ entry' \in Worlds /\ n \in Nat
      /\ \A k \in 1 .. n : path[k] \in Names
    BY DEF Kinds, TypeOK, Worlds, Disturbed
<1>2. /\ new[0] = Cwd /\ old[0] = Cwd
      /\ \A k \in 1 .. n : /\ new[k] = Step(entry', new[k - 1], path[k])
                           /\ old[k] = Step(entry, old[k - 1], path[k])
    BY <1>1, TrailSteps
<1>3. \A k \in 1 .. n : <<new[k - 1], path[k]>> \notin touched'
    BY DEF Steady
<1> HIDE DEF n, old, new
<1>4. ASSUME NEW k \in 1 .. n, new[k - 1] = old[k - 1]
      PROVE  /\ old[k - 1] \in Dirs => entry'[old[k - 1]][path[k]] = entry[old[k - 1]][path[k]]
             /\ new[k] = old[k] /\ <<old[k - 1], path[k]>> \notin touched
    <2>1. old[k - 1] \in Dirs => entry'[old[k - 1]][path[k]] = entry[old[k - 1]][path[k]]
        BY <1>1, <1>3, <1>4 DEF Disturbed
    <2>2. new[k] = old[k]
        BY <1>2, <1>4, <2>1 DEF Step
    <2>3. <<old[k - 1], path[k]>> \notin touched
        BY <1>3, <1>4 DEF Disturbed
    <2> QED
        BY <2>1, <2>2, <2>3
<1>5. \A k \in 0 .. n : k \in S
    <2>1. 0 \in S
        BY <1>2
    <2>2. ASSUME NEW k \in Nat, k \in S PROVE k + 1 \in S
        <3> SUFFICES ASSUME k + 1 <= n PROVE new[k + 1] = old[k + 1]
            OBVIOUS
        <3>1. k + 1 \in 1 .. n /\ (k + 1) - 1 = k /\ new[k] = old[k]
            BY <1>1, <2>2
        <3> QED
            BY <1>4, <3>1
    <2> HIDE DEF S
    <2> QED
        BY <2>1, <2>2, Induct
<1>6. \A k \in 1 .. n : new[k - 1] = old[k - 1]
    BY <1>1, <1>5
<1>7. Steady(path)
    BY <1>4, <1>6 DEF Steady, n, old
<1>8. \A k \in 0 .. n : new[k] = old[k]
    BY <1>1, <1>5
<1>9. \A k \in 1 .. n : old[k - 1] \in Dirs =>
          entry'[old[k - 1]][path[k]] = entry[old[k - 1]][path[k]]
    BY <1>4, <1>6
<1> QED
    BY <1>7, <1>8, <1>9 DEF n, old, new

-----------------------------------------------------------------------------
(* Types.                                                                  *)

\* Paths are ordered like words, so that a finite set of them has a first.
LEMMA WordOrder ==
    ASSUME NEW W \in SUBSET Seq(Names)
    PROVE  Orders({x \in W \X W : Before(x[1], x[2])}, W)
<1> DEFINE R == {x \in W \X W : Before(x[1], x[2])}
<1>1. \A p \in W : Len(p) \in Nat /\ \A i \in 1 .. Len(p) : p[i] \in Nat
    <2>1. ASSUME NEW p \in Seq(Names)
          PROVE  Len(p) \in Nat /\ \A i \in 1 .. Len(p) : p[i] \in Names
        OBVIOUS
    <2>2. Names \subseteq Nat
        BY ExpandAssumption
    <2> QED
        BY <2>1, <2>2
<1>2. \A p, q \in W : <<p, q>> \in R <=> Before(p, q)
    OBVIOUS
<1>3. ASSUME NEW p \in W, NEW q \in W, p # q PROVE Before(p, q) \/ Before(q, p)
    <2> DEFINE D == {i \in Nat : i \in 1 .. Len(p) /\ i \in 1 .. Len(q) /\ p[i] # q[i]}
    <2>1. CASE D # {}
        <3>1. PICK k \in D : \A i \in D : k <= i
            <4>1. D \subseteq Nat
                OBVIOUS
            <4> HIDE DEF D
            <4> QED
                BY <2>1, <4>1, Least
        <3>2. \A i \in 1 .. k - 1 : p[i] = q[i]
            BY <1>1, <3>1
        <3>3. p[k] < q[k] \/ q[k] < p[k]
            BY <1>1, <3>1
        <3> QED
            BY <1>1, <3>1, <3>2, <3>3 DEF Before
    <2>2. CASE D = {}
        <3>1. \A i \in Nat : i \in 1 .. Len(p) /\ i \in 1 .. Len(q) => p[i] = q[i]
            BY <2>2
        <3>2. CASE Len(p) < Len(q)
            <4>1. Len(p) + 1 \in 1 .. Len(q)
                BY <1>1, <3>2
            <4>2. \A i \in 1 .. (Len(p) + 1) - 1 : p[i] = q[i]
                BY <1>1, <3>1, <3>2
            <4> QED
                BY <1>1, <4>1, <4>2 DEF Before
        <3>3. CASE Len(q) < Len(p)
            <4>1. Len(q) + 1 \in 1 .. Len(p)
                BY <1>1, <3>3
            <4>2. \A i \in 1 .. (Len(q) + 1) - 1 : q[i] = p[i]
                BY <1>1, <3>1, <3>3
            <4> QED
                BY <1>1, <4>1, <4>2 DEF Before
        <3>4. CASE Len(p) = Len(q)
            <4>1. p = q
                BY <1>1, <3>1, <3>4, SeqEqual
            <4> QED
                BY <1>3, <4>1
        <3> QED
            BY <1>1, <3>2, <3>3, <3>4
    <2> QED
        BY <2>1, <2>2
<1>4. ASSUME NEW p \in W, NEW q \in W, Before(p, q), Before(q, p) PROVE FALSE
    <2>1. PICK k \in 1 .. Len(q) : /\ k <= Len(p) + 1 /\ \A i \in 1 .. k - 1 : p[i] = q[i]
                                   /\ k <= Len(p) => p[k] < q[k]
        BY <1>4 DEF Before
    <2>2. PICK j \in 1 .. Len(p) : /\ j <= Len(q) + 1 /\ \A i \in 1 .. j - 1 : q[i] = p[i]
                                   /\ j <= Len(q) => q[j] < p[j]
        BY <1>4 DEF Before
    <2>3. CASE k < j
        <3>1. k \in 1 .. j - 1 /\ k \in 1 .. Len(p)
            BY <1>1, <2>1, <2>2, <2>3
        <3> QED
            BY <1>1, <2>1, <2>2, <3>1
    <2>4. CASE j < k
        <3>1. j \in 1 .. k - 1 /\ j \in 1 .. Len(q)
            BY <1>1, <2>1, <2>2, <2>4
        <3> QED
            BY <1>1, <2>1, <2>2, <3>1
    <2>5. CASE k = j
        BY <1>1, <2>1, <2>2, <2>5
    <2> QED
        BY <1>1, <2>1, <2>2, <2>3, <2>4, <2>5
<1>5. ASSUME NEW p \in W, NEW q \in W, NEW r \in W, Before(p, q), Before(q, r)
      PROVE  Before(p, r)
    <2>1. PICK k \in 1 .. Len(q) : /\ k <= Len(p) + 1 /\ \A i \in 1 .. k - 1 : p[i] = q[i]
                                   /\ k <= Len(p) => p[k] < q[k]
        BY <1>5 DEF Before
    <2>2. PICK j \in 1 .. Len(r) : /\ j <= Len(q) + 1 /\ \A i \in 1 .. j - 1 : q[i] = r[i]
                                   /\ j <= Len(q) => q[j] < r[j]
        BY <1>5 DEF Before
    <2>3. CASE k < j
        <3>1. k \in 1 .. Len(r) /\ q[k] = r[k]
            BY <1>1, <2>1, <2>2, <2>3
        <3>2. \A i \in 1 .. k - 1 : p[i] = r[i]
            BY <1>1, <2>1, <2>2, <2>3
        <3>3. k <= Len(p) => p[k] < r[k]
            BY <2>1, <3>1
        <3> QED
            BY <2>1, <3>1, <3>2, <3>3 DEF Before
    <2>4. CASE j <= k
        <3>1. j <= Len(p) + 1 /\ \A i \in 1 .. j - 1 : p[i] = r[i]
            BY <1>1, <2>1, <2>2, <2>4
        <3>2. j <= Len(p) => p[j] < r[j]
            <4>1. CASE j < k
                <5>1. j \in 1 .. k - 1 /\ j \in 1 .. Len(q)
                    BY <1>1, <2>1, <2>2, <4>1
                <5> QED
                    BY <2>1, <2>2, <5>1
            <4>2. CASE j = k
                <5> SUFFICES ASSUME j <= Len(p) PROVE p[j] < r[j]
                    OBVIOUS
                <5>1. p[j] < q[j] /\ q[j] < r[j]
                    BY <1>1, <2>1, <2>2, <4>2
                <5>2. p[j] \in Nat /\ q[j] \in Nat /\ r[j] \in Nat
                    BY <1>1, <2>1, <2>2, <4>2
                <5> QED
                    BY <5>1, <5>2
            <4> QED
                BY <1>1, <2>1, <2>2, <2>4, <4>1, <4>2
        <3> QED
            BY <2>2, <3>1, <3>2 DEF Before
    <2> QED
        BY <1>1, <2>1, <2>2, <2>3, <2>4
<1> HIDE DEF R
<1> QED
    BY <1>2, <1>3, <1>4, <1>5 DEF Orders, R

\* Candidate takes one of the candidates.
LEMMA FirstIsOne ==
    ASSUME Kinds, walked # {}
    PROVE  First(walked) \in walked
<1> DEFINE R == {x \in walked \X walked : Before(x[1], x[2])}
<1>1. walked \subseteq Seq(Names) /\ IsFiniteSet(walked)
    BY DEF Kinds, TypeOK
<1>2. Orders(R, walked)
    BY <1>1, WordOrder
<1>3. \E p \in walked : \A q \in walked \ {p} : <<p, q>> \in R
    <2> HIDE DEF R
    <2> QED
        BY <1>1, <1>2, FirstOf
<1>4. \E p \in walked : \A q \in walked \ {p} : Before(p, q)
    BY <1>3
<1> QED
    BY <1>4 DEF First

\* The types are kept by every step.
LEMMA KindsKept ==
    ASSUME Kinds, Next PROVE Kinds'
<1> USE DEF Kinds
<1>1. /\ entry \in [Dirs -> [Names -> Entries]]
      /\ closed \subseteq Dirs /\ touched \subseteq Dirs \X Names /\ changes \in 0 .. MaxChanges
      /\ at \in Nat /\ Len(args) \in Nat /\ Names \subseteq Nat
    BY ExpandAssumption DEF TypeOK
<1>2. ASSUME TakeDirectory PROVE Kinds'
    <2>1. args[at] \in Seq(Names) /\ at \in 1 .. Len(args)
        BY <1>2 DEF TakeDirectory, TypeOK
    <2> QED
        BY <1>2, <2>1 DEF TakeDirectory, TypeOK, world, result
<1>3. ASSUME TakeOther PROVE Kinds'
    <2>1. args[at] \in Seq(Names) /\ at \in 1 .. Len(args)
        BY <1>3 DEF TakeOther, TypeOK
    <2>2. IsFiniteSet(walked')
        BY <1>3, FS_Singleton DEF TakeOther
    <2> QED
        BY <1>3, <2>1, <2>2 DEF TakeOther, TypeOK, world, walk, result
<1>4. ASSUME NEW p \in pending, ListFails(p) PROVE Kinds'
    BY <1>4 DEF ListFails, TypeOK, world
<1>5. ASSUME NEW p \in pending, List(p) PROVE Kinds'
    <2>1. subs' \subseteq Names /\ names' \subseteq Names
        BY <1>5 DEF List
    <2>2. p \in Seq(Names)
        BY <1>5 DEF List, TypeOK
    <2> QED
        BY <1>5, <2>1, <2>2 DEF List, TypeOK, world, result
<1>6. ASSUME AskName PROVE Kinds'
    <2> DEFINE name == CHOOSE n \in names : \A m \in names : n <= m
               p == Append(root, name)
    <2>1. name \in names
        <3>1. names \subseteq Nat /\ names # {}
            BY <1>1, <1>6 DEF AskName, TypeOK
        <3>2. \E n \in names : \A m \in names : n <= m
            BY <3>1, Least
        <3> QED
            BY <3>2
    <2>2. p \in Seq(Names)
        BY <2>1 DEF TypeOK
    <2>3. /\ names' = names \ {name}
          /\ walked' = IF Resolve(p) \in Files THEN walked \cup {p} ELSE walked
        BY <1>6 DEF AskName
    <2>4. walked' \subseteq Seq(Names) /\ IsFiniteSet(walked')
        <3> HIDE DEF p
        <3> QED
            BY <2>2, <2>3, FS_AddElement DEF TypeOK
    <2> HIDE DEF name, p
    <2> QED
        BY <1>6, <2>3, <2>4 DEF AskName, TypeOK, world, result
<1>7. ASSUME Descend PROVE Kinds'
    <2>1. \A n \in subs : Append(root, n) \in Seq(Names)
        BY DEF TypeOK
    <2>2. pending' \subseteq Seq(Names)
        BY <1>7, <2>1 DEF Descend, TypeOK
    <2> QED
        BY <1>7, <2>2 DEF Descend, TypeOK, world, result
<1>8. ASSUME WalkEnds PROVE Kinds'
    BY <1>8 DEF WalkEnds, TypeOK, world, walk, result
<1>9. ASSUME Candidate PROVE Kinds'
    <2>1. First(walked) \in walked
        BY <1>9, FirstIsOne DEF Candidate
    <2>2. /\ walked' = walked \ {First(walked)}
          /\ IF Real(First(walked)) \in seen THEN UNCHANGED <<seen, found, kept>>
             ELSE Keep(First(walked))
          /\ UNCHANGED <<world, args, pc, at, walk, failures>>
        BY <1>9 DEF Candidate
    <2>3. walked' \subseteq Seq(Names) /\ IsFiniteSet(walked') /\ First(walked) \in Seq(Names)
        BY <2>1, <2>2, FS_RemoveElement DEF TypeOK
    <2>4. /\ found' \in Seq(Seq(Names)) /\ IsFiniteSet(seen') /\ Len(found') = Cardinality(seen')
          /\ kept' \in Seq(Places \X Seq(Names)) /\ Len(kept') = Len(found')
        <3>1. CASE Real(First(walked)) \in seen
            BY <2>2, <3>1 DEF TypeOK
        <3>2. CASE Real(First(walked)) \notin seen
            <4> DEFINE r == Real(First(walked))
            <4>1. /\ found' = Append(found, First(walked)) /\ kept' = Append(kept, r)
                  /\ seen' = seen \cup {r}
                BY <2>2, <3>2 DEF Keep
            <4>2. r \in Places \X Seq(Names)
                BY <2>3, <1>1, RealLeads DEF Worlds
            <4> HIDE DEF r
            <4>3. IsFiniteSet(seen') /\ Cardinality(seen') = Cardinality(seen) + 1
                BY <3>2, <4>1, FS_AddElement DEF r
            <4>4. /\ found' \in Seq(Seq(Names)) /\ Len(found') = Len(found) + 1
                  /\ kept' \in Seq(Places \X Seq(Names)) /\ Len(kept') = Len(kept) + 1
                BY <2>3, <4>1, <4>2
            <4> QED
                BY <4>3, <4>4 DEF TypeOK
        <3> QED
            BY <3>1, <3>2
    <2> QED
        BY <2>2, <2>3, <2>4 DEF TypeOK, world, walk
<1>10. ASSUME NextArgument PROVE Kinds'
    BY <1>1, <1>10 DEF NextArgument, TypeOK, world, walk, result
<1>11. ASSUME Expanded PROVE Kinds'
    BY <1>1, <1>11 DEF Expanded, TypeOK, world, walk, result
<1>12. ASSUME Others PROVE Kinds'
    <2>1. Disturbed
        BY <1>12, OthersDisturb
    <2> QED
        BY <2>1 DEF Disturbed, TypeOK, Worlds, elsewhere, walk, result
<1>13. ASSUME Terminated PROVE Kinds'
    BY <1>13 DEF Terminated, vars, TypeOK, world, walk, result
<1> QED
    BY <1>2, <1>3, <1>4, <1>5, <1>6, <1>7, <1>8, <1>9, <1>10, <1>11, <1>12, <1>13 DEF Next, Walk
-----------------------------------------------------------------------------
(* What is wanted is found.                                                *)

\* A path goes on from an argument through entries that are no links.
OnTheWay(e, arg, path) ==
    LET way == Trail(e, path) IN
    \/ path = arg
    \/ /\ Len(arg) <= Len(path) /\ \A k \in 1 .. Len(arg) : path[k] = arg[k]
       /\ way[Len(arg)] \in Dirs
       /\ \A k \in Len(arg) + 1 .. Len(path) - 1 :
             ~(way[k - 1] \in Dirs /\ e[way[k - 1]][path[k]].link)

\* What wanted means of the nodes on the way.
WantedMeans ==
    \A i \in 1 .. Len(args), path \in Seq(Names) :
        Wanted(i, path) <=>
            OnTheWay(entry, args[i], path) /\ Steady(path) /\ Trail(entry, path)[Len(path)] \in Files

LEMMA WantedWay == Kinds => WantedMeans
<1> SUFFICES ASSUME Kinds, NEW i \in 1 .. Len(args), NEW path \in Seq(Names)
             PROVE  Wanted(i, path) <=> /\ OnTheWay(entry, args[i], path) /\ Steady(path)
                                        /\ Trail(entry, path)[Len(path)] \in Files
    BY DEF WantedMeans
<1> DEFINE arg == args[i]
           way == Trail(entry, path)
<1>1. /\ entry \in Worlds /\ arg \in Seq(Names)
      /\ Len(arg) \in Nat /\ Len(path) \in Nat
    BY DEF Kinds, TypeOK, Worlds
<1>2. IsPrefix(arg, path) <=> Len(arg) <= Len(path) /\ \A k \in 1 .. Len(arg) : path[k] = arg[k]
    <2>1. IsPrefix(arg, path) <=> Len(arg) <= Len(path) /\ arg = SubSeq(path, 1, Len(arg))
        <3>1. Len(arg) \in 0 .. Len(arg)
            BY <1>1
        <3> HIDE DEF arg
        <3>2. SubSeq(arg, 1, Len(arg)) = arg
            BY <1>1, <3>1, Beginning
        <3> QED
            BY <3>2 DEF IsPrefix
    <2>2. ASSUME Len(arg) <= Len(path)
          PROVE  arg = SubSeq(path, 1, Len(arg)) <=> \A k \in 1 .. Len(arg) : path[k] = arg[k]
        <3> DEFINE start == SubSeq(path, 1, Len(arg))
        <3>1. /\ start \in Seq(Names) /\ Len(start) = Len(arg)
              /\ \A k \in 1 .. Len(arg) : start[k] = path[k]
            BY <1>1, <2>2, Beginning
        <3>2. (\A k \in 1 .. Len(arg) : path[k] = arg[k]) => arg = start
            <4> HIDE DEF start, arg
            <4> QED
                BY <1>1, <3>1, SeqEqual
        <3> QED
            BY <3>1, <3>2
    <2> QED
        BY <2>1, <2>2
<1>3. ASSUME Len(arg) <= Len(path), \A k \in 1 .. Len(arg) : path[k] = arg[k]
      PROVE  Resolve(arg) = way[Len(arg)]
    <2>1. Len(arg) \in 0 .. Len(arg)
        BY <1>1
    <2> HIDE DEF arg
    <2> QED
        BY <1>1, <1>3, <2>1, TrailPrefix DEF Resolve
<1>4. ASSUME NEW k \in Len(arg) + 1 .. Len(path) - 1
      PROVE  IsLink(SubSeq(path, 1, k)) <=> way[k - 1] \in Dirs /\ entry[way[k - 1]][path[k]].link
    <2>1. k \in 0 .. Len(path) /\ k - 1 \in 0 .. Len(path) /\ k > 0
        BY <1>1
    <2>2. Front(SubSeq(path, 1, k)) = SubSeq(path, 1, k - 1) /\ Last(SubSeq(path, 1, k)) = path[k]
        BY <2>1, Beginning
    <2>3. Resolve(SubSeq(path, 1, k - 1)) = way[k - 1]
        BY <1>1, <2>1, ResolveBeginning
    <2> QED
        BY <2>2, <2>3 DEF IsLink
<1> HIDE DEF arg, way
<1>5. Walkable(arg, path) <=>
          /\ Len(arg) <= Len(path) /\ \A k \in 1 .. Len(arg) : path[k] = arg[k]
          /\ way[Len(arg)] \in Dirs
          /\ \A k \in Len(arg) + 1 .. Len(path) - 1 :
                ~(way[k - 1] \in Dirs /\ entry[way[k - 1]][path[k]].link)
    BY <1>2, <1>3, <1>4 DEF Walkable
<1> QED
    BY <1>5 DEF Wanted, Resolve, OnTheWay, arg, way

LEMMA WantedWayNext == Kinds' => WantedMeans'
BY WantedWay, PTL

\* A file that is wanted after a change by others was so before, and is the
\* same file.
LEMMA WantedBefore ==
    ASSUME Kinds, Disturbed, NEW i \in 1 .. Len(args), NEW path \in Seq(Names),
           Wanted(i, path)'
    PROVE  Wanted(i, path) /\ Resolve(path)' = Resolve(path)
<1> DEFINE arg == args[i]
           old == Trail(entry, path)
           new == Trail(entry', path)
<1>1. /\ args' = args /\ arg \in Seq(Names)
      /\ Len(arg) \in Nat /\ Len(path) \in Nat
    BY DEF Kinds, Disturbed, elsewhere
<1>2. Kinds'
    BY DEF Kinds, Disturbed, TypeOK, Worlds, elsewhere, walk, result
<1>3. OnTheWay(entry', arg, path) /\ Steady(path)' /\ new[Len(path)] \in Files
    <2>1. WantedMeans'
        BY <1>2, WantedWayNext
    <2> QED
        BY <1>1, <2>1 DEF WantedMeans
<1>4. /\ Steady(path)
      /\ \A k \in 0 .. Len(path) : new[k] = old[k]
      /\ \A k \in 1 .. Len(path) : old[k - 1] \in Dirs =>
            entry'[old[k - 1]][path[k]] = entry[old[k - 1]][path[k]]
    BY <1>3, SteadyStays
<1> HIDE DEF old, new, arg
<1>5. OnTheWay(entry, arg, path)
    <2> SUFFICES ASSUME path # arg PROVE OnTheWay(entry, arg, path)
        BY DEF OnTheWay
    <2>1. /\ Len(arg) <= Len(path) /\ \A k \in 1 .. Len(arg) : path[k] = arg[k]
          /\ new[Len(arg)] \in Dirs
          /\ \A k \in Len(arg) + 1 .. Len(path) - 1 :
                ~(new[k - 1] \in Dirs /\ entry'[new[k - 1]][path[k]].link)
        BY <1>3 DEF OnTheWay, new
    <2>2. old[Len(arg)] \in Dirs
        BY <1>1, <1>4, <2>1
    <2>3. ASSUME NEW k \in Len(arg) + 1 .. Len(path) - 1
          PROVE  ~(old[k - 1] \in Dirs /\ entry[old[k - 1]][path[k]].link)
        <3>1. k \in 1 .. Len(path) /\ k - 1 \in 0 .. Len(path)
            BY <1>1
        <3>2. new[k - 1] = old[k - 1]
            BY <1>4, <3>1
        <3> QED
            BY <1>4, <2>1, <3>1, <3>2
    <2> QED
        BY <2>1, <2>2, <2>3 DEF OnTheWay, old
<1>6. old[Len(path)] \in Files /\ new[Len(path)] = old[Len(path)]
    BY <1>1, <1>3, <1>4
<1>7. Wanted(i, path)
    BY <1>4, <1>5, <1>6, WantedWay DEF WantedMeans, arg, old
<1> QED
    BY <1>6, <1>7 DEF Resolve, old, new

\* What a step that leaves the world alone leaves of a wanted file.
LEMMA WantedSame ==
    ASSUME UNCHANGED <<world, args>>, NEW i, NEW path
    PROVE  /\ Wanted(i, path)' <=> Wanted(i, path)
           /\ Resolve(path)' = Resolve(path) /\ Steady(path)' = Steady(path)
BY DEF world, Wanted, Walkable, IsLink, Steady, Resolve

\* A file once settled remains so, if the walk only goes on or others change what
\* is not on its way.
LEMMA SettledStays ==
    ASSUME Kinds, NEW path, Settled(path), Resolve(path)' = Resolve(path), failures \subseteq failures',
           Len(found) <= Len(found'), Len(found') \in Nat,
           \A i \in 1 .. Len(found) :
              /\ found'[i] = found[i] /\ kept'[i] = kept[i]
              /\ Steady(found[i])' => Steady(found[i]) /\ Resolve(found[i])' = Resolve(found[i])
    PROVE  Settled(path)'
<1>1. CASE Holds(Resolve(path))
    <2>1. PICK j \in 1 .. Len(found) :
              /\ kept[j] = <<Resolve(path), <<>>>>
              /\ Steady(found[j]) => Resolve(found[j]) = Resolve(path)
        BY <1>1 DEF Holds
    <2>2. j \in 1 .. Len(found') /\ kept'[j] = <<Resolve(path)', <<>>>>
        BY <2>1 DEF Kinds
    <2>3. Steady(found[j])' => Resolve(found[j])' = Resolve(path)'
        BY <2>1
    <2>4. Holds(Resolve(path))'
        BY <2>2, <2>3 DEF Holds
    <2> QED
        BY <2>4 DEF Settled
<1>2. CASE \E k \in 0 .. Len(path) : SubSeq(path, 1, k) \in failures
    BY <1>2 DEF Settled
<1> QED
    BY <1>1, <1>2 DEF Settled

\* The file and its directories, seen from the argument being walked.
LEMMA WantedBelow ==
    ASSUME Kinds, NEW path \in Seq(Names), at \in 1 .. Len(args), Wanted(at, path),
           NEW k \in Len(args[at]) .. Len(path) - 1
    PROVE  LET here == SubSeq(path, 1, k) IN
           /\ k \in 0 .. Len(path) /\ path[k + 1] \in Names
           /\ Append(here, path[k + 1]) = SubSeq(path, 1, k + 1)
           /\ k + 1 = Len(path) => SubSeq(path, 1, k + 1) = path
           /\ Resolve(here) \in Dirs
           /\ entry[Resolve(here)][path[k + 1]].to = Resolve(SubSeq(path, 1, k + 1))
           /\ k + 1 = Len(path) => Resolve(SubSeq(path, 1, k + 1)) \in Files
           /\ k + 1 # Len(path) => /\ Resolve(SubSeq(path, 1, k + 1)) \in Dirs
                                   /\ ~IsLink(SubSeq(path, 1, k + 1))
<1> DEFINE way == Trail(entry, path)
           n == Len(path)
<1>1. /\ entry \in Worlds /\ args[at] \in Seq(Names) /\ Len(args[at]) \in Nat /\ n \in Nat
    BY DEF Kinds, TypeOK, Worlds
<1>2. k \in 0 .. n /\ k + 1 \in 0 .. n /\ k + 1 \in 1 .. n /\ k < n
    BY <1>1
<1>3. /\ path[k + 1] \in Names /\ Append(SubSeq(path, 1, k), path[k + 1]) = SubSeq(path, 1, k + 1)
      /\ k + 1 = n => SubSeq(path, 1, k + 1) = path
    BY <1>2, Beginning
<1>4. Resolve(SubSeq(path, 1, k)) = way[k] /\ Resolve(SubSeq(path, 1, k + 1)) = way[k + 1]
    BY <1>1, <1>2, ResolveBeginning
<1>5. way[n] \in Files
    BY DEF Wanted, Resolve
<1>6. \A j \in 0 .. n - 1 : way[j] \in Dirs
    <2>1. way[n] # Absent
        BY <1>5, ExpandAssumption
    <2> QED
        BY <1>1, <2>1, DirectoriesOnTheWay
<1>7. way[k + 1] = Step(entry, way[k], path[k + 1])
    <2>1. (k + 1) - 1 = k
        BY <1>2
    <2> QED
        BY <1>1, <1>2, <2>1, TrailSteps
<1> HIDE DEF way
<1>8. ASSUME k + 1 # n PROVE way[k + 1] \in Dirs /\ ~IsLink(SubSeq(path, 1, k + 1))
    <2>1. k + 1 \in 0 .. n - 1 /\ k + 1 \in Len(args[at]) + 1 .. n - 1 /\ path # args[at]
        BY <1>1, <1>2, <1>8
    <2>2. Walkable(args[at], path)
        BY <2>1 DEF Wanted
    <2> QED
        BY <1>6, <2>1, <2>2 DEF Walkable
<1>9. k \in 0 .. n - 1
    BY <1>1, <1>2
<1> QED
    BY <1>2, <1>3, <1>4, <1>5, <1>6, <1>7, <1>8, <1>9 DEF Step

LEMMA TrackKept ==
    ASSUME Kinds, Remembered, Walk, NEW i \in 1 .. Len(args), NEW path \in Seq(Names),
           Wanted(i, path), Track(i, path)
    PROVE  Track(i, path)'
<1>1. /\ entry \in Worlds /\ at \in Nat /\ Len(args) \in Nat
      /\ i \in Nat /\ Len(path) \in Nat /\ args[i] \in Seq(Names) /\ Len(args[i]) \in Nat
    BY DEF Kinds, TypeOK, Worlds
<1>2. /\ UNCHANGED <<world, args>> /\ failures \subseteq failures'
      /\ UNCHANGED <<found, kept>> \/ \E p : found' = Append(found, p) /\ kept' = Append(kept, Real(p))
    BY DEF Walk, TakeDirectory, TakeOther, ListFails, List, AskName, Descend, WalkEnds,
           Candidate, Keep, NextArgument, Expanded, world, walk, result
<1>3. Resolve(path)' = Resolve(path) /\ (Settled(path) => Settled(path)')
    <2>1. Resolve(path)' = Resolve(path)
        BY <1>2, WantedSame
    <2>2. /\ Len(found) <= Len(found') /\ Len(found') \in Nat
          /\ \A j \in 1 .. Len(found) : found'[j] = found[j] /\ kept'[j] = kept[j]
        <3>1. /\ found \in Seq(Seq(Names)) /\ kept \in Seq(Places \X Seq(Names))
              /\ Len(kept) = Len(found)
            BY DEF Kinds, TypeOK
        <3>2. ASSUME NEW p, found' = Append(found, p), kept' = Append(kept, Real(p))
              PROVE  /\ Len(found) <= Len(found') /\ Len(found') \in Nat
                     /\ \A j \in 1 .. Len(found) : found'[j] = found[j] /\ kept'[j] = kept[j]
            <4> DEFINE r == Real(p)
            <4> HIDE DEF r
            <4>1. kept' = Append(kept, r)
                BY <3>2 DEF r
            <4> QED
                BY <3>1, <3>2, <4>1
        <3> QED
            BY <1>2, <3>1, <3>2
    <2>3. \A j \in 1 .. Len(found) :
              Steady(found[j])' => Steady(found[j]) /\ Resolve(found[j])' = Resolve(found[j])
        BY <1>2, <2>2 DEF world, Steady, Resolve
    <2> QED
        BY <1>2, <2>1, <2>2, <2>3, SettledStays
<1>4. CASE Settled(path)
    BY <1>3, <1>4 DEF Track
<1>5. CASE i # at /\ at' = at
    BY <1>3, <1>5 DEF Track
<1>6. CASE i = at /\ ~Settled(path)
    <2> USE <1>6
    <2>1. CASE TakeDirectory
        <3>1. /\ Resolve(args[at]) \in Dirs /\ pending' = {args[at]} /\ pc' = "walk"
              /\ pc = "argument" /\ at' = at
            BY <2>1 DEF TakeDirectory
        <3>2. path # args[at]
            BY <3>1, ExpandAssumption DEF Wanted
        <3>3. /\ Len(args[at]) <= Len(path) /\ \A k \in 1 .. Len(args[at]) : path[k] = args[at][k]
            BY <1>1, <3>2, WantedWay DEF WantedMeans, OnTheWay
        <3>4. SubSeq(path, 1, Len(args[at])) = args[at]
            <4>1. Len(args[at]) \in 0 .. Len(path)
                BY <1>1, <3>3
            <4> DEFINE start == SubSeq(path, 1, Len(args[at]))
            <4>2. /\ start \in Seq(Names) /\ Len(start) = Len(args[at])
                  /\ \A k \in 1 .. Len(args[at]) : start[k] = path[k]
                BY <4>1, Beginning
            <4> HIDE DEF start
            <4>3. start = args[at]
                BY <1>1, <3>3, <4>2, SeqEqual
            <4> QED
                BY <4>3 DEF start
        <3>5. Len(args[at]) # Len(path)
            <4>1. SubSeq(path, 1, Len(path)) = path
                BY <1>1, Beginning
            <4> QED
                BY <3>2, <3>4, <4>1
        <3>6. Len(args[at]) \in Len(args[at]) .. Len(path) - 1
            BY <1>1, <3>3, <3>5
        <3>7. args' = args
            BY <1>2
        <3>8. Ahead(path)'
            BY <3>1, <3>4, <3>6, <3>7 DEF Ahead
        <3> QED
            BY <1>1, <3>1, <3>8 DEF Track
    <2>2. CASE TakeOther
        <3>1. /\ Resolve(args[at]) \notin Dirs /\ walked' = {args[at]} /\ pc' = "real" /\ at' = at
            BY <2>2 DEF TakeOther
        <3>2. path = args[at]
            <4>1. ~Walkable(args[at], path)
                BY <3>1 DEF Walkable
            <4> QED
                BY <4>1 DEF Wanted
        <3> QED
            BY <1>1, <3>1, <3>2 DEF Track, Ahead
    <2>3. ASSUME NEW p \in pending, ListFails(p) PROVE Track(i, path)'
        <3>1. /\ pc = "walk" /\ pc' = pc /\ at' = at /\ pending' = pending \ {p} /\ walked' = walked
              /\ failures' = failures \cup {p} /\ args' = args
            BY <1>2, <2>3 DEF ListFails
        <3>2. Ahead(path)
            BY <3>1 DEF Track
        <3>3. CASE path \in walked
            BY <1>1, <3>1, <3>3 DEF Track, Ahead
        <3>4. ASSUME NEW k \in Len(args[at]) .. Len(path) - 1, SubSeq(path, 1, k) \in pending
              PROVE  Track(i, path)'
            <4>1. CASE SubSeq(path, 1, k) = p
                <5>1. k \in 0 .. Len(path)
                    BY <1>1
                <5>2. Settled(path)'
                    BY <3>1, <4>1, <5>1 DEF Settled
                <5> QED
                    BY <1>1, <3>1, <5>2 DEF Track
            <4>2. CASE SubSeq(path, 1, k) # p
                <5>1. Ahead(path)'
                    BY <3>1, <3>4, <4>2 DEF Ahead
                <5> QED
                    BY <1>1, <3>1, <5>1 DEF Track
            <4> QED
                BY <4>1, <4>2
        <3> QED
            BY <3>1, <3>2, <3>3, <3>4 DEF Ahead
    <2>4. ASSUME NEW p \in pending, List(p) PROVE Track(i, path)'
        <3>1. /\ pc = "walk" /\ pc' = "names" /\ at' = at /\ pending' = pending \ {p}
              /\ walked' = walked /\ args' = args /\ root' = p
            BY <1>2, <2>4 DEF List
        <3>2. Ahead(path) /\ at \in 1 .. Len(args)
            BY <3>1 DEF Track
        <3>3. CASE path \in walked
            BY <1>1, <3>1, <3>3 DEF Track, Ahead
        <3>4. ASSUME NEW k \in Len(args[at]) .. Len(path) - 1, SubSeq(path, 1, k) \in pending
              PROVE  Ahead(path)'
            <4>1. CASE SubSeq(path, 1, k) = p
                <5> DEFINE here == {n \in Names : entry[Resolve(p)][n] # NoEntry}
                           e == entry[Resolve(p)][path[k + 1]]
                <5>1. /\ path[k + 1] \in Names
                      /\ k + 1 = Len(path) => e.to \in Files
                      /\ k + 1 # Len(path) => e.to \in Dirs
                    BY <3>2, <4>1, WantedBelow
                <5>2. subs' = {n \in here : entry[Resolve(p)][n].to \in Dirs} /\ names' = here \ subs'
                    BY <2>4 DEF List
                <5>3. path[k + 1] \in here
                    BY <5>1, ExpandAssumption DEF NoEntry
                <5>4. path[k + 1] \in (IF k + 1 = Len(path) THEN names' ELSE subs')
                    BY <5>1, <5>2, <5>3, ExpandAssumption
                <5> QED
                    BY <3>1, <4>1, <5>4 DEF Ahead
            <4>2. CASE SubSeq(path, 1, k) # p
                BY <3>1, <3>4, <4>2 DEF Ahead
            <4> QED
                BY <4>1, <4>2
        <3>5. Ahead(path)'
            BY <3>1, <3>2, <3>3, <3>4 DEF Ahead
        <3> QED
            BY <1>1, <3>1, <3>5 DEF Track
    <2>5. CASE AskName
        <3> DEFINE name == CHOOSE n \in names : \A m \in names : n <= m
        <3>1. /\ pc = "names" /\ pc' = pc /\ at' = at /\ args' = args
              /\ UNCHANGED <<pending, root, subs>> /\ names' = names \ {name}
              /\ walked' = IF Resolve(Append(root, name)) \in Files
                           THEN walked \cup {Append(root, name)} ELSE walked
            BY <1>2, <2>5 DEF AskName
        <3>2. Ahead(path) /\ at \in 1 .. Len(args) /\ walked \subseteq walked'
            BY <3>1 DEF Track
        <3> HIDE DEF name
        <3>3. path \in walked => Ahead(path)'
            BY <3>2 DEF Ahead
        <3>4. ASSUME NEW k \in Len(args[at]) .. Len(path) - 1,
                     \/ SubSeq(path, 1, k) \in pending
                     \/ /\ pc = "names" /\ root = SubSeq(path, 1, k)
                        /\ path[k + 1] \in (IF k + 1 = Len(path) THEN names ELSE subs)
              PROVE  Ahead(path)'
            <4>1. CASE SubSeq(path, 1, k) \in pending
                BY <3>1, <4>1 DEF Ahead
            <4>2. CASE root = SubSeq(path, 1, k) /\ k + 1 = Len(path) /\ path[k + 1] = name
                <5>1. Append(root, name) = path /\ Resolve(path) \in Files
                    BY <3>2, <4>2, WantedBelow
                <5> QED
                    BY <3>1, <5>1 DEF Ahead
            <4>3. CASE /\ root = SubSeq(path, 1, k)
                       /\ path[k + 1] \in (IF k + 1 = Len(path) THEN names' ELSE subs')
                BY <3>1, <4>3 DEF Ahead
            <4> QED
                BY <3>1, <3>4, <4>1, <4>2, <4>3
        <3>5. Ahead(path)'
            BY <3>2, <3>3, <3>4 DEF Ahead
        <3> QED
            BY <1>1, <3>1, <3>5 DEF Track
    <2>6. CASE Descend
        <3>1. /\ pc = "names" /\ pc' = "walk" /\ at' = at /\ args' = args /\ names = {}
              /\ pending' = pending \cup {p \in {Append(root, n) : n \in subs} : ~IsLink(p)}
              /\ walked' = walked
            BY <1>2, <2>6 DEF Descend
        <3>2. Ahead(path) /\ at \in 1 .. Len(args)
            BY <3>1 DEF Track
        <3>3. path \in walked => Ahead(path)'
            BY <3>1 DEF Ahead
        <3>4. ASSUME NEW k \in Len(args[at]) .. Len(path) - 1,
                     \/ SubSeq(path, 1, k) \in pending
                     \/ /\ pc = "names" /\ root = SubSeq(path, 1, k)
                        /\ path[k + 1] \in (IF k + 1 = Len(path) THEN names ELSE subs)
              PROVE  Ahead(path)'
            <4>1. CASE SubSeq(path, 1, k) \in pending
                BY <3>1, <4>1 DEF Ahead
            <4>2. CASE root = SubSeq(path, 1, k) /\ k + 1 # Len(path) /\ path[k + 1] \in subs
                <5>1. Append(root, path[k + 1]) = SubSeq(path, 1, k + 1) /\ ~IsLink(SubSeq(path, 1, k + 1))
                    BY <3>2, <4>2, WantedBelow
                <5>2. SubSeq(path, 1, k + 1) \in pending'
                    BY <3>1, <4>2, <5>1
                <5>3. k + 1 \in Len(args[at]) .. Len(path) - 1
                    BY <1>1, <4>2
                <5> QED
                    BY <3>1, <5>2, <5>3 DEF Ahead
            <4> QED
                BY <3>1, <3>4, <4>1, <4>2
        <3>5. Ahead(path)'
            BY <3>2, <3>3, <3>4 DEF Ahead
        <3> QED
            BY <1>1, <3>1, <3>5 DEF Track
    <2>7. CASE WalkEnds
        <3>1. /\ pc = "walk" /\ pc' = "real" /\ at' = at /\ pending = {} /\ walked' = walked
            BY <2>7 DEF WalkEnds, walk
        <3>2. path \in walked
            BY <3>1 DEF Track, Ahead
        <3> QED
            BY <1>1, <3>1, <3>2 DEF Track, Ahead
    <2>8. CASE Candidate
        <3>1. /\ pc = "real" /\ pc' = pc /\ at' = at /\ walked' = walked \ {First(walked)}
              /\ IF Real(First(walked)) \in seen THEN UNCHANGED <<seen, found, kept>>
                 ELSE Keep(First(walked))
            BY <2>8 DEF Candidate
        <3>2. path \in walked
            BY <3>1 DEF Track
        <3>3. CASE path = First(walked)
            <4>1. Resolve(path) \in Nodes
                BY DEF Wanted, Nodes
            <4>2. Real(path) = <<Resolve(path), <<>>>>
                BY <1>1, <4>1, RealLeads
            <4>3. ASSUME Real(path) \in seen PROVE Settled(path)'
                <5>1. UNCHANGED <<found, kept, world>>
                    BY <1>2, <3>1, <3>3, <4>3
                <5>2. PICK j \in 1 .. Len(found) : kept[j] = Real(path)
                    BY <4>3 DEF Remembered, Kinds, TypeOK
                <5>3. Steady(found[j]) => Resolve(found[j]) = Resolve(path)
                    <6>1. found[j] \in Seq(Names)
                        BY <5>2 DEF Kinds
                    <6> QED
                        BY <1>1, <4>1, <4>2, <5>2, <6>1, RealLeads DEF Remembered
                <5>4. Settled(path)
                    BY <4>2, <5>2, <5>3 DEF Settled, Holds
                <5> QED
                    BY <1>6, <5>4
            <4>4. ASSUME Real(path) \notin seen PROVE Settled(path)'
                <5> PICK n \in Nat : n = Len(found)
                    BY DEF Kinds
                <5>1. found' = Append(found, path) /\ kept' = Append(kept, Real(path))
                    BY <3>1, <3>3, <4>4 DEF Keep
                <5>2. /\ n + 1 \in 1 .. Len(found') /\ found'[n + 1] = path
                      /\ kept'[n + 1] = <<Resolve(path)', <<>>>>
                    <6>1. found \in Seq(Seq(Names)) /\ kept \in Seq(Places \X Seq(Names)) /\ Len(kept) = n
                        BY DEF Kinds, TypeOK
                    <6>2. kept' = Append(kept, <<Resolve(path)', <<>>>>)
                        BY <1>3, <4>2, <5>1
                    <6>3. Len(found') = n + 1 /\ found'[n + 1] = path
                        BY <5>1, <6>1
                    <6>4. kept'[n + 1] = <<Resolve(path)', <<>>>>
                        BY <6>1, <6>2
                    <6> QED
                        BY <6>3, <6>4
                <5>3. Resolve(found[n + 1])' = Resolve(path)'
                    BY <5>2 DEF Resolve
                <5> QED
                    BY <5>2, <5>3 DEF Settled, Holds
            <4>5. Settled(path)'
                BY <4>3, <4>4
            <4> QED
                BY <1>1, <3>1, <4>5 DEF Track
        <3>4. CASE path # First(walked)
            BY <1>1, <3>1, <3>2, <3>4 DEF Track, Ahead
        <3> QED
            BY <3>3, <3>4
    <2>9. CASE NextArgument
        BY <2>9 DEF NextArgument, Track
    <2>10. CASE Expanded
        BY <1>1, <2>10 DEF Expanded, Track
    <2> QED
        BY <2>1, <2>2, <2>3, <2>4, <2>5, <2>6, <2>7, <2>8, <2>9, <2>10 DEF Walk
<1>7. CASE i # at /\ at' # at
    <2>1. NextArgument
        BY <1>7 DEF Walk, TakeDirectory, TakeOther, ListFails, List, AskName, Descend, WalkEnds,
                    Candidate, Expanded
    <2>2. at' = at + 1 /\ pc' = "argument"
        BY <2>1 DEF NextArgument
    <2> QED
        BY <1>1, <1>3, <1>7, <2>2 DEF Track
<1> QED
    BY <1>4, <1>5, <1>6, <1>7

LEMMA TrackUndisturbed ==
    ASSUME Kinds, Disturbed, NEW i \in 1 .. Len(args), NEW path \in Seq(Names),
           Wanted(i, path)', Track(i, path)
    PROVE  Track(i, path)'
<1>1. Resolve(path)' = Resolve(path)
    BY WantedBefore
<1>2. /\ found' = found /\ kept' = kept /\ args' = args /\ pc' = pc /\ at' = at /\ pending' = pending /\ root' = root
      /\ names' = names /\ subs' = subs /\ walked' = walked /\ seen' = seen /\ failures' = failures
    BY DEF Disturbed, elsewhere, walk, result
<1>3. Settled(path) => Settled(path)'
    <2>1. ASSUME NEW j \in 1 .. Len(found), Steady(found[j])'
          PROVE  Steady(found[j]) /\ Resolve(found[j])' = Resolve(found[j])
        <3>1. found[j] \in Seq(Names)
            BY DEF Kinds
        <3>2. PICK p \in Seq(Names) : p = found[j]
            BY <3>1
        <3>3. Steady(p)' /\ Len(p) \in 0 .. Len(p)
            BY <1>2, <2>1, <3>2 DEF Steady
        <3>4. Steady(p) /\ Resolve(p)' = Resolve(p)
            BY <3>3, SteadyStays DEF Resolve
        <3> QED
            BY <1>2, <3>2, <3>4 DEF Resolve
    <2>2. Len(found) \in Nat
        BY DEF Kinds
    <2> QED
        BY <1>1, <1>2, <2>1, <2>2, SettledStays
<1>4. Ahead(path) => Ahead(path)'
    BY <1>2 DEF Ahead
<1> QED
    BY <1>2, <1>3, <1>4 DEF Track

LEMMA TrackedKept ==
    ASSUME Kinds, Remembered, Tracked, Next PROVE Tracked'
<1>1. args' = args
    <2>1. Walk \/ Terminated => args' = args
        BY DEF Walk, TakeDirectory, TakeOther, ListFails, List, AskName, Descend, WalkEnds,
               Candidate, NextArgument, Expanded, Terminated, vars
    <2>2. Others => args' = args
        BY OthersDisturb DEF Disturbed, elsewhere
    <2> QED
        BY <2>1, <2>2 DEF Next
<1> SUFFICES ASSUME NEW i \in 1 .. Len(args), NEW path \in Seq(Names), Wanted(i, path)'
             PROVE  Track(i, path)'
    BY <1>1 DEF Tracked
<1>2. CASE Walk
    <2>1. UNCHANGED <<world, args>>
        BY <1>2 DEF Walk, TakeDirectory, TakeOther, ListFails, List, AskName, Descend, WalkEnds,
                    Candidate, NextArgument, Expanded
    <2>2. Wanted(i, path)
        BY <2>1, WantedSame
    <2> QED
        BY <1>2, <2>2, TrackKept DEF Tracked
<1>3. CASE Others
    <2>1. Disturbed
        BY <1>3, OthersDisturb
    <2>2. Wanted(i, path)
        BY <2>1, WantedBefore
    <2> QED
        BY <2>1, <2>2, TrackUndisturbed DEF Tracked
<1>4. CASE Terminated
    <2>1. UNCHANGED vars
        BY <1>4 DEF Terminated
    <2>2. Wanted(i, path) /\ Resolve(path)' = Resolve(path)
        BY <2>1, WantedSame DEF vars
    <2>3. Track(i, path)
        BY <2>2 DEF Tracked
    <2> QED
        BY <2>1, <2>2, <2>3 DEF vars, world, walk, result, Track, Settled, Holds, Steady, Resolve, Ahead
<1> QED
    BY <1>2, <1>3, <1>4 DEF Next
-----------------------------------------------------------------------------
(* What is found is found once.                                            *)

LEMMA RememberedKept ==
    ASSUME Kinds, Remembered, Next PROVE Remembered'
<1>1. /\ found \in Seq(Seq(Names)) /\ Len(found) \in Nat /\ Len(kept) = Len(found)
      /\ kept \in Seq(Places \X Seq(Names)) /\ entry \in Worlds
      /\ \A i \in 1 .. Len(found) : found[i] \in Seq(Names)
    BY DEF Kinds, TypeOK, Worlds
<1>2. ASSUME UNCHANGED world, UNCHANGED <<seen, found, kept>> PROVE Remembered'
    <2>1. \A i \in 1 .. Len(found) : Steady(found[i])' = Steady(found[i]) /\ Real(found[i])' = Real(found[i])
        BY <1>2 DEF world, Steady, Real
    <2> QED
        BY <1>2, <2>1 DEF Remembered
<1>3. CASE Candidate
    <2> DEFINE p == First(walked)
               n == Len(found)
    <2>1. UNCHANGED world
        BY <1>3 DEF Candidate
    <2>2. CASE UNCHANGED <<seen, found, kept>>
        BY <1>2, <2>1, <2>2
    <2>3. CASE /\ Real(p) \notin seen /\ found' = Append(found, p) /\ kept' = Append(kept, Real(p))
               /\ seen' = seen \cup {Real(p)}
        <3>1. /\ Len(found') = n + 1 /\ found'[n + 1] = p /\ \A i \in 1 .. n : found'[i] = found[i]
              /\ Len(kept') = n + 1 /\ kept'[n + 1] = Real(p) /\ \A i \in 1 .. n : kept'[i] = kept[i]
            BY <1>1, <2>3
        <3>2. \A i \in 1 .. n + 1 : Steady(found[i])' = Steady(found'[i]) /\ Real(found[i])' = Real(found'[i])
            BY <2>1 DEF world, Steady, Real
        <3> DEFINE r == Real(p)
        <3> HIDE DEF p, n, r
        <3>3. seen' = {kept'[i] : i \in 1 .. Len(kept')}
            BY <1>1, <2>3, <3>1 DEF Remembered, n
        <3>4. \A i \in 1 .. n : kept[i] # Real(p)
            BY <1>1, <2>3 DEF Remembered, n
        <3>5. ASSUME NEW i \in 1 .. n + 1, NEW j \in 1 .. n + 1, i # j
              PROVE  kept'[i] # kept'[j]
            <4>1. CASE i \in 1 .. n /\ j \in 1 .. n
                BY <1>1, <3>1, <3>5, <4>1 DEF Remembered, n
            <4>2. CASE i = n + 1 \/ j = n + 1
                BY <1>1, <3>1, <3>4, <3>5, <4>2 DEF n
            <4> QED
                BY <1>1, <4>1, <4>2 DEF n
        <3>6. ASSUME NEW i \in 1 .. n + 1, Steady(found'[i]) PROVE Real(found'[i]) = kept'[i]
            <4>1. CASE i \in 1 .. n
                BY <3>1, <3>6, <4>1 DEF Remembered, n
            <4>2. CASE i = n + 1
                BY <3>1, <4>2
            <4> QED
                BY <1>1, <4>1, <4>2 DEF n
        <3> QED
            BY <3>1, <3>2, <3>3, <3>5, <3>6 DEF Remembered
    <2> QED
        BY <1>3, <2>2, <2>3 DEF Candidate, Keep
<1>4. CASE Others
    <2>1. Disturbed
        BY <1>4, OthersDisturb
    <2>2. UNCHANGED <<seen, found, kept>>
        BY <2>1 DEF Disturbed, elsewhere, result
    <2>3. ASSUME NEW path \in Seq(Names), Steady(path)'
          PROVE  Steady(path) /\ Real(path)' = Real(path)
        <3>1. Steady(path) /\ \A k \in 0 .. Len(path) : Trail(entry', path)[k] = Trail(entry, path)[k]
            BY <2>1, <2>3, SteadyStays
        <3>2. /\ Trail(entry', path) \in [0 .. Len(path) -> Places]
              /\ Trail(entry, path) \in [0 .. Len(path) -> Places]
            BY <1>1, <2>1, TrailSteps DEF Disturbed
        <3>3. Trail(entry', path) = Trail(entry, path)
            BY <3>1, <3>2
        <3> QED
            BY <3>1, <3>3 DEF Real
    <2> QED
        BY <1>1, <2>2, <2>3 DEF Remembered
<1>5. CASE Terminated
    BY <1>2, <1>5 DEF Terminated, vars, result
<1>6. CASE Walk /\ ~Candidate
    <2>1. UNCHANGED world /\ UNCHANGED <<seen, found, kept>>
        BY <1>6 DEF Walk, TakeDirectory, TakeOther, ListFails, List, AskName, Descend, WalkEnds,
                    NextArgument, Expanded, result
    <2> QED
        BY <1>2, <2>1
<1> QED
    BY <1>3, <1>4, <1>5, <1>6 DEF Next

LEMMA TreeKept ==
    ASSUME Kinds, IsTree(entry), Next PROVE IsTree(entry)'
<1>1. CASE Walk \/ Terminated
    <2>1. entry' = entry
        BY <1>1 DEF Walk, TakeDirectory, TakeOther, ListFails, List, AskName, Descend, WalkEnds,
                    Candidate, NextArgument, Expanded, Terminated, vars, world
    <2> QED
        BY <2>1
<1>2. CASE Others
    BY <1>2, OthersDisturb DEF Disturbed
<1> QED
    BY <1>1, <1>2 DEF Next

\* Along a path without links from an argument, each node is the own entry of
\* the one before.
LEMMA StraightSteps ==
    ASSUME NEW e \in Worlds, NEW arg \in Seq(Names), NEW p \in Seq(Names), Extends(arg, p),
           Straight(e, arg, p), Trail(e, p)[Len(p)] \in Dirs
    PROVE  /\ \A k \in 0 .. Len(p) : Trail(e, p)[k] \in Dirs
           /\ \A k \in Len(arg) + 1 .. Len(p) :
                 /\ p[k] \in Names /\ k - 1 \in 0 .. Len(p)
                 /\ Own(e, Trail(e, p)[k - 1], p[k])
                 /\ e[Trail(e, p)[k - 1]][p[k]].to = Trail(e, p)[k]
<1> DEFINE way == Trail(e, p)
           n == Len(p)
<1>1. n \in Nat /\ Len(arg) \in Nat /\ Absent \notin Dirs
    BY ExpandAssumption
<1>2. \A k \in 0 .. n - 1 : way[k] \in Dirs
    BY <1>1, DirectoriesOnTheWay
<1>3. \A k \in 0 .. n : way[k] \in Dirs
    BY <1>1, <1>2
<1>4. ASSUME NEW k \in Len(arg) + 1 .. n
      PROVE  /\ p[k] \in Names /\ k - 1 \in 0 .. n
             /\ Own(e, way[k - 1], p[k]) /\ e[way[k - 1]][p[k]].to = way[k]
    <2>1. k \in 1 .. n /\ k - 1 \in 0 .. n /\ k \in 0 .. n
        BY <1>1
    <2>2. p[k] \in Names
        BY <2>1
    <2>3. way[k] = Step(e, way[k - 1], p[k])
        BY <2>1, TrailSteps
    <2>4. ~e[way[k - 1]][p[k]].link
        BY <1>3, <2>1 DEF Straight
    <2> HIDE DEF way
    <2> QED
        BY <1>1, <1>3, <2>1, <2>2, <2>3, <2>4 DEF Step, Own
<1> QED
    BY <1>3, <1>4

\* Of two such paths to the same directory, the last entries are the same, and
\* those before.
LEMMA Backwards ==
    ASSUME NEW e \in Worlds, IsTree(e), NEW arg \in Seq(Names), NEW p \in Seq(Names), NEW q \in Seq(Names),
           Extends(arg, p), Straight(e, arg, p), Extends(arg, q), Straight(e, arg, q),
           Trail(e, p)[Len(p)] = Trail(e, q)[Len(q)], Trail(e, p)[Len(p)] \in Dirs
    PROVE  \A j \in Nat :
              /\ j <= Len(p) - Len(arg) /\ j <= Len(q) - Len(arg) =>
                    Trail(e, p)[Len(p) - j] = Trail(e, q)[Len(q) - j]
              /\ j < Len(p) - Len(arg) /\ j < Len(q) - Len(arg) => p[Len(p) - j] = q[Len(q) - j]
<1> DEFINE P == Trail(e, p)
           Q == Trail(e, q)
           a == Len(p)
           b == Len(q)
           t == Len(arg)
           S == {j \in Nat : j <= a - t /\ j <= b - t => P[a - j] = Q[b - j]}
<1>1. a \in Nat /\ b \in Nat /\ t \in Nat
    OBVIOUS
<1>2. /\ \A k \in 0 .. a : P[k] \in Dirs
      /\ \A k \in t + 1 .. a : /\ p[k] \in Names /\ k - 1 \in 0 .. a
                               /\ Own(e, P[k - 1], p[k]) /\ e[P[k - 1]][p[k]].to = P[k]
    BY StraightSteps
<1>3. /\ \A k \in 0 .. b : Q[k] \in Dirs
      /\ \A k \in t + 1 .. b : /\ q[k] \in Names /\ k - 1 \in 0 .. b
                               /\ Own(e, Q[k - 1], q[k]) /\ e[Q[k - 1]][q[k]].to = Q[k]
    BY StraightSteps
<1>4. P[a] = Q[b]
    OBVIOUS
<1> HIDE DEF P, Q, a, b, t
<1>5. ASSUME NEW j \in Nat, j \in S, j < a - t, j < b - t
      PROVE  P[a - (j + 1)] = Q[b - (j + 1)] /\ p[a - j] = q[b - j]
    <2>1. P[a - j] = Q[b - j]
        BY <1>1, <1>5
    <2>2. /\ a - j \in t + 1 .. a /\ (a - j) - 1 = a - (j + 1)
          /\ b - j \in t + 1 .. b /\ (b - j) - 1 = b - (j + 1)
        BY <1>1, <1>5
    <2> DEFINE c == P[a - (j + 1)]
               d == Q[b - (j + 1)]
    <2>3. /\ c \in Dirs /\ p[a - j] \in Names /\ Own(e, c, p[a - j]) /\ e[c][p[a - j]].to = P[a - j]
          /\ d \in Dirs /\ q[b - j] \in Names /\ Own(e, d, q[b - j]) /\ e[d][q[b - j]].to = Q[b - j]
        BY <1>2, <1>3, <2>2
    <2> HIDE DEF c, d
    <2>4. c = d /\ p[a - j] = q[b - j]
        BY <2>1, <2>3 DEF IsTree
    <2> QED
        BY <2>4 DEF c, d
<1>6. \A j \in Nat : j \in S
    <2>1. 0 \in S
        BY <1>1, <1>4
    <2>2. ASSUME NEW j \in Nat, j \in S PROVE j + 1 \in S
        BY <1>1, <1>5, <2>2
    <2> HIDE DEF S
    <2> QED
        BY <2>1, <2>2, Induct
<1> SUFFICES ASSUME NEW j \in Nat
             PROVE  /\ j <= a - t /\ j <= b - t => P[a - j] = Q[b - j]
                    /\ j < a - t /\ j < b - t => p[a - j] = q[b - j]
    BY DEF P, Q, a, b, t
<1> QED
    BY <1>5, <1>6

\* A path that goes on leads to another directory than the argument.
LEMMA Deeper ==
    ASSUME NEW e \in Worlds, IsTree(e), NEW arg \in Seq(Names), NEW p \in Seq(Names), Extends(arg, p),
           Straight(e, arg, p), Trail(e, p)[Len(p)] \in Dirs
    PROVE  \A k \in Len(arg) + 1 .. Len(p) : Trail(e, p)[k] # Trail(e, p)[Len(arg)]
<1> DEFINE P == Trail(e, p)
           n == Len(p)
           t == Len(arg)
<1>1. n \in Nat /\ t \in Nat /\ t <= n
    BY DEF Extends
<1>2. /\ \A k \in 0 .. n : P[k] \in Dirs
      /\ \A k \in t + 1 .. n : /\ p[k] \in Names /\ k - 1 \in 0 .. n
                               /\ Own(e, P[k - 1], p[k]) /\ e[P[k - 1]][p[k]].to = P[k]
    BY StraightSteps
<1>3. PICK depth \in [Dirs -> 0 .. Cardinality(Dirs)] :
          \A d \in Dirs, m \in Names : Own(e, d, m) /\ e[d][m].to \in Dirs => depth[e[d][m].to] > depth[d]
    BY DEF IsTree
<1>4. \A d \in Dirs : depth[d] \in Int
    OBVIOUS
<1> DEFINE S == {j \in Nat : t + 1 + j <= n => depth[P[t + 1 + j]] > depth[P[t]]}
<1> HIDE DEF P, n, t
<1>5. ASSUME NEW k \in t + 1 .. n PROVE depth[P[k]] > depth[P[k - 1]]
    <2>1. k \in 0 .. n /\ k - 1 \in 0 .. n
        BY <1>1
    <2> DEFINE d == P[k - 1]
    <2>2. d \in Dirs /\ p[k] \in Names /\ Own(e, d, p[k]) /\ e[d][p[k]].to = P[k] /\ P[k] \in Dirs
        BY <1>2, <2>1
    <2> HIDE DEF d
    <2>3. depth[e[d][p[k]].to] > depth[d]
        BY <1>3, <2>2
    <2> QED
        BY <2>2, <2>3 DEF d
<1>6. \A j \in Nat : j \in S
    <2> SUFFICES Nat \subseteq S
        OBVIOUS
    <2>1. 0 \in S
        <3>1. CASE t + 1 <= n
            <4>1. t + 1 \in t + 1 .. n /\ (t + 1) - 1 = t /\ t + 1 + 0 = t + 1
                BY <1>1, <3>1
            <4> QED
                BY <1>5, <4>1
        <3> QED
            BY <1>1, <3>1
    <2>2. ASSUME NEW j \in Nat, j \in S PROVE j + 1 \in S
        <3> SUFFICES ASSUME t + 1 + (j + 1) <= n
                     PROVE  depth[P[t + 1 + (j + 1)]] > depth[P[t]]
            OBVIOUS
        <3>1. /\ t + 1 + (j + 1) \in t + 1 .. n /\ (t + 1 + (j + 1)) - 1 = t + 1 + j
              /\ t + 1 + (j + 1) \in 0 .. n /\ t + 1 + j \in 0 .. n /\ t \in 0 .. n
            BY <1>1
        <3>2. depth[P[t + 1 + (j + 1)]] > depth[P[t + 1 + j]] /\ depth[P[t + 1 + j]] > depth[P[t]]
            BY <1>1, <1>5, <2>2, <3>1
        <3>3. /\ depth[P[t + 1 + (j + 1)]] \in Int /\ depth[P[t + 1 + j]] \in Int
              /\ depth[P[t]] \in Int
            BY <1>2, <1>4, <3>1
        <3> QED
            BY <3>2, <3>3
    <2> HIDE DEF S
    <2> QED
        BY <2>1, <2>2, Induct
<1>7. ASSUME NEW k \in t + 1 .. n PROVE P[k] # P[t]
    <2>1. k - (t + 1) \in Nat /\ t + 1 + (k - (t + 1)) = k
        BY <1>1
    <2>2. k <= n /\ t \in 0 .. n /\ k \in 0 .. n
        BY <1>1
    <2>3. depth[P[k]] > depth[P[t]]
        <3>1. \A j \in Nat : t + 1 + j <= n => depth[P[t + 1 + j]] > depth[P[t]]
            BY <1>6
        <3> QED
            BY <2>1, <2>2, <3>1
    <2> QED
        BY <1>2, <1>4, <2>2, <2>3
<1> QED
    BY <1>7 DEF P, n, t

\* Neither of two such paths goes on longer than the other.
LEMMA NotLonger ==
    ASSUME NEW e \in Worlds, IsTree(e), NEW arg \in Seq(Names), NEW p \in Seq(Names), NEW q \in Seq(Names),
           Extends(arg, p), Straight(e, arg, p), Extends(arg, q), Straight(e, arg, q),
           Trail(e, p)[Len(p)] = Trail(e, q)[Len(q)], Trail(e, p)[Len(p)] \in Dirs
    PROVE  Len(q) <= Len(p)
<1> SUFFICES ASSUME Len(p) < Len(q) PROVE FALSE
    OBVIOUS
<1> DEFINE t == Len(arg)
           j == Len(p) - t
           k == Len(q) - j
<1>1. /\ Len(p) \in Nat /\ Len(q) \in Nat /\ t \in Nat /\ t <= Len(p) /\ t <= Len(q)
      /\ \A i \in 1 .. t : p[i] = arg[i] /\ q[i] = arg[i]
    BY DEF Extends
<1>2. j \in Nat /\ j <= Len(p) - t /\ j <= Len(q) - t /\ Len(p) - j = t /\ k \in t + 1 .. Len(q)
    BY <1>1
<1>3. Trail(e, p)[Len(p) - j] = Trail(e, q)[Len(q) - j]
    <2> HIDE DEF j, k
    <2> QED
        BY <1>2, Backwards
<1>4. Trail(e, p)[t] = Trail(e, q)[t]
    <2>1. t \in 0 .. t /\ \A i \in 1 .. t : p[i] = q[i]
        BY <1>1
    <2> HIDE DEF t
    <2> QED
        BY <1>1, <2>1, TrailPrefix
<1> QED
    BY <1>2, <1>3, <1>4, Deeper

\* In a tree, one such path at most leads to a directory.
LEMMA Distinct ==
    ASSUME NEW e \in Worlds, IsTree(e), NEW arg \in Seq(Names), NEW p \in Seq(Names), NEW q \in Seq(Names),
           Extends(arg, p), Straight(e, arg, p), Extends(arg, q), Straight(e, arg, q),
           Trail(e, p)[Len(p)] = Trail(e, q)[Len(q)], Trail(e, p)[Len(p)] \in Dirs
    PROVE  p = q
<1>1. Len(p) \in Nat /\ Len(q) \in Nat /\ Len(arg) \in Nat
    OBVIOUS
<1>2. Len(p) = Len(q)
    <2>1. Len(q) <= Len(p)
        BY NotLonger
    <2>2. Len(p) <= Len(q)
        BY NotLonger
    <2> QED
        BY <1>1, <2>1, <2>2
<1>3. ASSUME NEW k \in 1 .. Len(p) PROVE p[k] = q[k]
    <2>1. CASE k <= Len(arg)
        BY <1>1, <2>1 DEF Extends
    <2>2. CASE k > Len(arg)
        <3> DEFINE j == Len(p) - k
        <3>1. /\ j \in Nat /\ j < Len(p) - Len(arg) /\ j < Len(q) - Len(arg)
              /\ Len(p) - j = k /\ Len(q) - j = k
            BY <1>1, <1>2, <2>2
        <3> HIDE DEF j
        <3>2. \A i \in Nat : i < Len(p) - Len(arg) /\ i < Len(q) - Len(arg) =>
                  p[Len(p) - i] = q[Len(q) - i]
            BY Backwards
        <3> QED
            BY <3>1, <3>2
    <2> QED
        BY <1>1, <2>1, <2>2
<1> QED
    BY <1>2, <1>3, SeqEqual

\* The walk goes down a tree: what it comes to it has not come to before.
LEMMA DescendKeeps ==
    ASSUME Kinds, Descends, Descend PROVE Descends' /\ Idle'
<1> DEFINE new == {p \in {Append(root, n) : n \in subs} : ~IsLink(p)}
           arg == args[at]
<1>1. /\ pc = "names" /\ pc' = "walk" /\ pending' = pending \cup new /\ args' = args /\ at' = at
      /\ entry' = entry /\ listed' = listed /\ touched' = touched
    BY DEF Descend, world
<1>2. /\ entry \in Worlds /\ arg \in Seq(Names) /\ root \in Seq(Names) /\ subs \subseteq Names
    BY <1>1 DEF Kinds, TypeOK, Worlds
<1>3. /\ root \in listed /\ \A n \in subs : Append(root, n) \notin Reached
      /\ Extends(arg, root) /\ (Steady(root) => Straight(entry, arg, root))
    BY <1>1 DEF Descends, Reached
<1>4. \A p : Steady(p)' = Steady(p)
    BY <1>1 DEF Steady
<1> HIDE DEF arg
<1>5. ASSUME NEW n \in subs, ~IsLink(Append(root, n))
      PROVE  LET p == Append(root, n) IN
             /\ Extends(arg, p) /\ (Steady(p) => Straight(entry, arg, p))
             /\ Front(p) \in listed /\ p \notin listed
    <2> DEFINE p == Append(root, n)
               m == Len(root)
    <2>1. /\ m \in Nat /\ Len(arg) \in Nat /\ p \in Seq(Names) /\ Len(p) = m + 1 /\ p[m + 1] = n
          /\ \A k \in 1 .. m : p[k] = root[k]
        BY <1>2
    <2>2. Front(p) = root /\ Last(p) = n
        BY <1>2, ResolveAppend
    <2>3. Extends(arg, p)
        BY <1>3, <2>1 DEF Extends
    <2>4. \A k \in 0 .. m : Trail(entry, p)[k] = Trail(entry, root)[k]
        <3>1. m <= Len(root) /\ m <= Len(p)
            BY <2>1
        <3> HIDE DEF p, m
        <3> QED
            BY <1>2, <2>1, <3>1, TrailPrefix
    <2>5. p \notin listed
        BY <1>3 DEF Reached
    <2> HIDE DEF p
    <2>6. ~(Trail(entry, p)[m] \in Dirs /\ entry[Trail(entry, p)[m]][n].link)
        BY <1>5, <2>1, <2>2, <2>4 DEF IsLink, Resolve, p
    <2>7. ASSUME Steady(p) PROVE Straight(entry, arg, p)
        <3>1. \A k \in 1 .. m : k - 1 \in 0 .. m /\ k \in 1 .. Len(p)
            BY <2>1
        <3>2. Steady(root)
            BY <2>1, <2>4, <2>7, <3>1 DEF Steady, m
        <3>3. \A k \in Len(arg) + 1 .. m : k \in 1 .. m
            BY <2>1
        <3>4. ASSUME NEW k \in Len(arg) + 1 .. Len(p)
              PROVE  ~(Trail(entry, p)[k - 1] \in Dirs /\ entry[Trail(entry, p)[k - 1]][p[k]].link)
            <4>1. CASE k = m + 1
                <5>1. k - 1 = m
                    BY <2>1, <4>1
                <5> QED
                    BY <2>1, <2>6, <4>1, <5>1
            <4>2. CASE k # m + 1
                <5>1. k \in Len(arg) + 1 .. m
                    BY <2>1, <4>2
                <5> QED
                    BY <1>3, <2>1, <2>4, <3>1, <3>2, <3>3, <5>1 DEF Straight, m
            <4> QED
                BY <4>1, <4>2
        <3> QED
            BY <3>4 DEF Straight
    <2> QED
        BY <1>3, <2>2, <2>3, <2>5, <2>7 DEF p
<1>6. \A p \in new : /\ Extends(arg, p) /\ (Steady(p) => Straight(entry, arg, p))
                     /\ Front(p) \in listed /\ p \notin listed
    BY <1>5
<1> HIDE DEF new
<1>7. \A p \in Reached' :
          Extends(arg, p) /\ (Steady(p) => Straight(entry, arg, p)) /\ (p # arg => Front(p) \in listed)
    BY <1>1, <1>6 DEF Descends, Reached, arg
<1>8. pending' \cap listed' = {}
    BY <1>1, <1>6 DEF Descends
<1>9. Descends'
    BY <1>1, <1>4, <1>7, <1>8 DEF Descends, arg
<1> QED
    BY <1>1, <1>9 DEF Idle

LEMMA ListKeeps ==
    ASSUME Kinds, Descends, NEW p \in pending, List(p) PROVE Descends' /\ Idle'
<1> DEFINE arg == args[at]
<1>1. /\ pc = "walk" /\ pc' = "names" /\ pending' = pending \ {p} /\ listed' = listed \cup {p}
      /\ root' = p /\ args' = args /\ at' = at /\ entry' = entry /\ touched' = touched
      /\ subs' \subseteq Names
    BY DEF List, world
<1>2. arg \in Seq(Names) /\ p \in Seq(Names)
    BY <1>1 DEF Kinds, TypeOK
<1>3. Reached' = Reached /\ \A q : Steady(q)' = Steady(q)
    BY <1>1 DEF Reached, Steady
<1>4. /\ pending \cap listed = {}
      /\ \A q \in Reached :
            Extends(arg, q) /\ (Steady(q) => Straight(entry, arg, q)) /\ (q # arg => Front(q) \in listed)
    BY <1>1 DEF Descends
<1> HIDE DEF arg
<1>5. ASSUME NEW n \in Names PROVE Append(p, n) \notin Reached
    <2> SUFFICES ASSUME Append(p, n) \in Reached PROVE FALSE
        OBVIOUS
    <2>1. Len(arg) <= Len(p)
        BY <1>4 DEF Reached, Extends
    <2>2. Append(p, n) # arg
        BY <1>2, <2>1
    <2>3. entry \in Worlds
        BY DEF Kinds, TypeOK, Worlds
    <2>4. Front(Append(p, n)) = p
        BY <1>2, <2>3, ResolveAppend
    <2> QED
        BY <1>4, <2>2, <2>4
<1>6. \A q \in Reached' : /\ Extends(args'[at'], q) /\ (Steady(q)' => Straight(entry', args'[at'], q))
                          /\ q # args'[at'] => Front(q) \in listed'
    BY <1>1, <1>3, <1>4 DEF arg
<1>7. /\ pending' \cap listed' = {}
      /\ root' \in listed' /\ \A n \in subs' : Append(root', n) \notin Reached'
    BY <1>1, <1>3, <1>4, <1>5
<1> QED
    BY <1>1, <1>6, <1>7 DEF Descends, Idle

LEMMA OthersKeepWalk ==
    ASSUME Kinds, Descends, Idle, Disturbed PROVE Descends' /\ Idle'
<1>1. /\ UNCHANGED <<pc, at, args, pending, root, subs, listed>>
      /\ entry \in Worlds /\ entry' \in Worlds
      /\ pending \subseteq Seq(Names) /\ listed \subseteq Seq(Names)
    BY DEF Disturbed, elsewhere, walk, Kinds, TypeOK, Worlds
<1>2. ASSUME NEW arg \in Seq(Names), NEW p \in Seq(Names), Steady(p) => Straight(entry, arg, p), Steady(p)'
      PROVE  Straight(entry', arg, p)
    <2>1. /\ Steady(p) /\ \A k \in 0 .. Len(p) : Trail(entry', p)[k] = Trail(entry, p)[k]
          /\ \A k \in 1 .. Len(p) : Trail(entry, p)[k - 1] \in Dirs =>
                 entry'[Trail(entry, p)[k - 1]][p[k]] = entry[Trail(entry, p)[k - 1]][p[k]]
        BY <1>2, SteadyStays
    <2>2. \A k \in Len(arg) + 1 .. Len(p) : k \in 1 .. Len(p) /\ k - 1 \in 0 .. Len(p)
        OBVIOUS
    <2> QED
        BY <1>2, <2>1, <2>2 DEF Straight
<1>3. Reached' = Reached /\ Reached \subseteq Seq(Names)
    BY <1>1 DEF Reached
<1>4. ASSUME pc \in {"walk", "names"} PROVE args[at] \in Seq(Names)
    BY <1>4 DEF Kinds, TypeOK
<1> QED
    BY <1>1, <1>2, <1>3, <1>4 DEF Descends, Idle

LEMMA WalkKeeps ==
    ASSUME Kinds, Descends, Idle, Next PROVE Descends' /\ Idle'
<1>1. args \in Seq(Seq(Names)) /\ at \in Nat /\ Len(args) \in Nat
    BY DEF Kinds, TypeOK
<1>2. CASE TakeDirectory
    <2>1. /\ pc' = "walk" /\ pending' = {args[at]} /\ listed' = {} /\ UNCHANGED <<args, at>>
          /\ args[at] \in Seq(Names)
        BY <1>1, <1>2 DEF TakeDirectory, Kinds, TypeOK
    <2>2. Reached' = {args[at]}
        BY <2>1 DEF Reached
    <2>3. Extends(args[at], args[at]) /\ \A e : Straight(e, args[at], args[at])
        BY <2>1 DEF Extends, Straight
    <2> QED
        BY <2>1, <2>2, <2>3 DEF Descends, Idle
<1>3. ASSUME NEW p \in pending, ListFails(p) PROVE Descends' /\ Idle'
    <2>1. /\ pc = "walk" /\ pc' = pc /\ pending' = pending \ {p} /\ listed' = listed
          /\ UNCHANGED <<entry, touched, args, at>>
        BY <1>3 DEF ListFails, world
    <2>2. Reached' \subseteq Reached /\ \A q : Steady(q)' = Steady(q)
        BY <2>1 DEF Reached, Steady
    <2> QED
        BY <2>1, <2>2 DEF Descends, Idle
<1>4. ASSUME NEW p \in pending, List(p) PROVE Descends' /\ Idle'
    BY <1>4, ListKeeps
<1>5. CASE Descend
    BY <1>5, DescendKeeps
<1>6. CASE AskName \/ Terminated
    <2>1. UNCHANGED <<entry, touched, args, at, pc, pending, root, subs, listed>>
        BY <1>6 DEF AskName, Terminated, vars, world, walk
    <2>2. Reached' = Reached /\ \A q : Steady(q)' = Steady(q)
        BY <2>1 DEF Reached, Steady
    <2> QED
        BY <2>1, <2>2 DEF Descends, Idle
<1>7. CASE WalkEnds \/ TakeOther \/ Candidate \/ NextArgument \/ Expanded
    <2>1. /\ pending = {} /\ pending' = pending /\ pc' \notin {"walk", "names"}
        BY <1>7 DEF WalkEnds, TakeOther, Candidate, NextArgument, Expanded, walk, Idle
    <2> QED
        BY <2>1 DEF Descends, Idle
<1>8. CASE Others
    BY <1>8, OthersDisturb, OthersKeepWalk
<1> QED
    BY <1>2, <1>3, <1>4, <1>5, <1>6, <1>7, <1>8 DEF Next, Walk
-----------------------------------------------------------------------------
(* The theorems.                                                           *)

LEMMA Start == Init => IInv
<1> SUFFICES ASSUME Init PROVE IInv
    OBVIOUS
<1>1. /\ IsTree(entry) /\ entry \in [Dirs -> [Names -> Entries]] /\ args \in Seq(Seq(Names))
      /\ pc = "argument" /\ at = 1 /\ pending = {} /\ root = <<>> /\ names = {} /\ subs = {}
      /\ listed = {} /\ walked = {} /\ seen = {} /\ found = <<>> /\ kept = <<>> /\ failures = {}
      /\ closed = {} /\ touched = {} /\ changes = 0
    BY ExpandAssumption DEF Init, Trees
<1>2. Kinds
    <2>1. Cardinality({}) = 0 /\ IsFiniteSet({})
        BY FS_EmptySet
    <2> QED
        BY <1>1, <2>1, ExpandAssumption DEF Kinds, TypeOK
<1>3. Tracked /\ Remembered
    BY <1>1 DEF Tracked, Track, Remembered
<1>4. Descends /\ Idle
    BY <1>1 DEF Descends, Idle
<1> QED
    BY <1>1, <1>2, <1>3, <1>4 DEF IInv

LEMMA Idling ==
    ASSUME IInv, UNCHANGED vars PROVE IInv'
<1> USE DEF IInv
<1>1. UNCHANGED <<entry, closed, touched, changes, args, pc, at, pending, root, names, subs, listed,
                  walked, seen, found, kept, failures>>
    BY DEF vars, world, walk, result
<1>2. Kinds'
    BY <1>1 DEF Kinds, TypeOK
<1>3. Remembered'
    <2>1. \A p : Steady(p)' = Steady(p) /\ Real(p)' = Real(p)
        BY <1>1 DEF Steady, Real
    <2> QED
        BY <1>1, <2>1 DEF Remembered
<1>4. IsTree(entry)' /\ Idle'
    BY <1>1 DEF Idle
<1>5. Descends'
    <2>1. Reached' = Reached /\ \A p : Steady(p)' = Steady(p)
        BY <1>1 DEF Reached, Steady
    <2> QED
        BY <1>1, <2>1 DEF Descends
<1>6. Tracked'
    <2>1. ASSUME NEW i, NEW path
          PROVE  Wanted(i, path)' = Wanted(i, path) /\ Settled(path)' = Settled(path) /\ Ahead(path)' = Ahead(path)
        BY <1>1 DEF Ahead, Wanted, Settled, Holds, Walkable, IsLink, Steady, Resolve
    <2> QED
        BY <1>1, <2>1 DEF Tracked, Track
<1> QED
    BY <1>2, <1>3, <1>4, <1>5, <1>6

LEMMA Invariance == Spec => []IInv
<1>1. IInv /\ [Next]_vars => IInv'
    <2>1. CASE Next
        BY <2>1, KindsKept, TrackedKept, RememberedKept, TreeKept, WalkKeeps DEF IInv
    <2> QED
        BY <2>1, Idling
<1> QED
    BY <1>1, Start, PTL DEF Spec

\* The types of every variable, and that every file found has a real path of
\* its own, however the directories change.
THEOREM TypeCorrect == Spec => []TypeOK
<1>1. IInv => TypeOK
    BY DEF IInv, Kinds
<1> QED
    BY <1>1, Invariance, PTL

\* For any tree, command line and changes by others: when _expand is done
\* (cli.py:543-571), a file that stayed below an argument was found, under a
\* path that leads to it unless others changed that one, or the failure to
\* list a directory on its way is kept for the report.
THEOREM NothingIsMissed == Spec => []NothingMissed
<1>1. IInv => NothingMissed
    <2> SUFFICES ASSUME IInv, pc \in {"usage", "hash"}, NEW i \in 1 .. Len(args), NEW path \in Paths,
                        Wanted(i, path)
                 PROVE  Settled(path)
        BY DEF NothingMissed
    <2>1. path \in Seq(Names)
        BY DEF Paths
    <2>2. at = Len(args) + 1 /\ Len(args) \in Nat /\ Track(i, path)
        BY <2>1 DEF IInv, Kinds, Tracked
    <2> QED
        BY <2>2 DEF Track
<1> QED
    BY <1>1, Invariance, PTL

\* For any tree, command line and changes by others: no two paths found lead to
\* the same file, and os.walk comes to no directory twice below one argument,
\* as long as nobody changes the paths.
THEOREM FoundOnce == Spec => []OnceEach
<1>1. ASSUME IInv PROVE FilesOnce
    <2> SUFFICES ASSUME NEW i \in 1 .. Len(found), NEW j \in 1 .. Len(found), i < j,
                        Steady(found[i]), Steady(found[j]),
                        Resolve(found[i]) = Resolve(found[j]), Resolve(found[i]) # Absent
                 PROVE  FALSE
        BY DEF FilesOnce
    <2>1. /\ found[i] \in Seq(Names) /\ found[j] \in Seq(Names) /\ entry \in Worlds
          /\ Len(kept) = Len(found) /\ Len(found) \in Nat
        BY <1>1 DEF IInv, Kinds, TypeOK, Worlds
    <2>2. Resolve(found[i]) \in Nodes
        <3>1. Len(found[i]) \in 0 .. Len(found[i])
            BY <2>1
        <3>2. Resolve(found[i]) \in Places
            BY <2>1, <3>1, TrailSteps DEF Resolve
        <3> QED
            BY <3>2 DEF Places
    <2>3. Real(found[i]) = Real(found[j])
        BY <2>1, <2>2, RealLeads
    <2>4. kept[i] # kept[j]
        BY <1>1, <2>1 DEF IInv, Remembered
    <2> QED
        BY <1>1, <2>3, <2>4 DEF IInv, Remembered
<1>2. ASSUME IInv PROVE ListedOnce
    <2> SUFFICES ASSUME NEW p \in pending, NEW q \in listed, Steady(p), Steady(q),
                        Resolve(p) \in Dirs, Resolve(p) = Resolve(q)
                 PROVE  FALSE
        BY DEF ListedOnce
    <2>1. pc \in {"walk", "names"}
        BY <1>2 DEF IInv, Idle
    <2>2. /\ p \in Seq(Names) /\ q \in Seq(Names) /\ args[at] \in Seq(Names) /\ entry \in Worlds
        BY <1>2, <2>1 DEF IInv, Kinds, TypeOK, Worlds
    <2>3. /\ Extends(args[at], p) /\ Straight(entry, args[at], p)
          /\ Extends(args[at], q) /\ Straight(entry, args[at], q) /\ p # q
        BY <1>2, <2>1 DEF IInv, Descends, Reached
    <2> QED
        BY <1>2, <2>2, <2>3, Distinct DEF IInv, Resolve
<1>3. IInv => OnceEach
    BY <1>1, <1>2 DEF OnceEach
<1> QED
    BY <1>3, Invariance, PTL
=============================================================================
