------------------------------- MODULE Expand --------------------------------
(***************************************************************************)
(* The start of `eous hash': `_expand' of src/eous/cli.py turns the paths  *)
(* of the command line into the files to analyse, by os.walk, isfile and   *)
(* realpath, while other programs may change the directories.  What it     *)
(* finds is the batch of Hash, and its failures are Hash's `unwalked'.     *)
(*                                                                         *)
(* A path is a sequence of names from the working directory.  An entry of  *)
(* a directory is the node itself, or a link to one (a link that leads     *)
(* nowhere or to itself leads to Absent); a node has one entry at most.    *)
(***************************************************************************)
EXTENDS Integers, FiniteSets, SequencesExt

CONSTANTS
    Dirs, Files,  \* nodes
    Cwd,          \* the working directory
    Absent,       \* no node
    Names,        \* names of entries, ordered
    Arguments,    \* the command lines tried
    MaxChanges    \* bound: changes by others

ASSUME ExpandAssumption ==
    /\ Dirs \cap Files = {} /\ Cwd \in Dirs /\ Absent \notin Dirs \cup Files
    /\ IsFiniteSet(Dirs) /\ IsFiniteSet(Files)
    /\ Names \subseteq Nat /\ IsFiniteSet(Names) /\ MaxChanges \in Nat
    /\ Arguments \subseteq Seq(Seq(Names))

Nodes == Dirs \cup Files
Entries == [to : Nodes \cup {Absent}, link : BOOLEAN]
NoEntry == [to |-> Absent, link |-> FALSE]
VARIABLES
    entry,     \* [Dirs -> [Names -> Entries]]
    closed,    \* directories that cannot be listed
    touched,   \* history: entries others have changed
    changes,   \* how many
    args,      \* args.paths
    pc,        \* where `_expand' stands
    at,        \* the argument it is at
    pending,   \* directories os.walk has still to list
    root,      \* the directory it has listed
    names,     \* entries of root still to be asked for
    subs,      \* entries of root that are directories
    walked,    \* candidates of this argument
    seen,      \* real paths
    found,     \* the files
    kept,      \* history: their real paths when they were taken
    failures,  \* directories that could not be listed
    listed     \* history: paths listed for this argument

world == <<entry, closed, touched, changes>>
walk == <<pending, root, names, subs, listed>>
result == <<seen, found, kept, failures>>
vars == <<world, args, pc, at, walk, walked, result>>

\* An entry that is the node itself.
Own(e, d, n) == ~e[d][n].link /\ e[d][n].to # Absent

\* Every node has one entry at most, and no directory is below itself.
IsTree(e) ==
    /\ \A c, d \in Dirs, m, n \in Names :
          Own(e, c, m) /\ Own(e, d, n) /\ e[c][m].to = e[d][n].to => c = d /\ m = n
    /\ \A d \in Dirs, n \in Names : Own(e, d, n) => e[d][n].to # Cwd
    /\ \E depth \in [Dirs -> 0 .. Cardinality(Dirs)] :
          \A d \in Dirs, n \in Names :
              Own(e, d, n) /\ e[d][n].to \in Dirs => depth[e[d][n].to] > depth[d]

Trees == {e \in [Dirs -> [Names -> Entries]] : IsTree(e)}

Init ==
    /\ entry \in Trees
    /\ args \in Arguments
    /\ closed = {} /\ touched = {} /\ changes = 0
    /\ pc = "argument" /\ at = 1
    /\ pending = {} /\ root = <<>> /\ names = {} /\ subs = {} /\ listed = {}
    /\ walked = {} /\ seen = {} /\ found = <<>> /\ kept = <<>> /\ failures = {}

\* The nodes a path leads through, from the working directory.
Step(e, node, name) == IF node \in Dirs THEN e[node][name].to ELSE Absent
Trail(e, path) ==
    LET node[k \in 0 .. Len(path)] ==
            IF k = 0 THEN Cwd ELSE Step(e, node[k - 1], path[k])
    IN  node
Resolve(path) == Trail(entry, path)[Len(path)]
IsLink(path) ==
    LET above == Resolve(Front(path)) IN above \in Dirs /\ entry[above][Last(path)].link

\* Mutant: files are told apart by the path they are named by.
RealAsNamed(path) == <<Absent, path>>

\* os.path.realpath: the last node on the way that is there, and the names that
\* are left, none if the path leads somewhere.
Real(path) ==
    LET way == Trail(entry, path)
        last == CHOOSE k \in 0 .. Len(path) :
                    way[k] # Absent /\ \A j \in k + 1 .. Len(path) : way[j] = Absent
    IN  <<way[last], SubSeq(path, last + 1, Len(path))>>

\* sorted() compares paths name by name.
Before(p, q) ==
    \E k \in 1 .. Len(q) :
        /\ k <= Len(p) + 1 /\ \A i \in 1 .. k - 1 : p[i] = q[i]
        /\ k <= Len(p) => p[k] < q[k]
First(paths) == CHOOSE p \in paths : \A q \in paths \ {p} : Before(p, q)
-----------------------------------------------------------------------------
(* One argument after the other.                                           *)

TakeDirectory ==
    /\ pc = "argument" /\ at <= Len(args)
    /\ Resolve(args[at]) \in Dirs
    /\ pending' = {args[at]} /\ listed' = {} /\ pc' = "walk"
    /\ UNCHANGED <<world, args, at, root, names, subs, walked, result>>

\* Anything else is left to the analysis, also what is not there.
TakeOther ==
    /\ pc = "argument" /\ at <= Len(args)
    /\ Resolve(args[at]) \notin Dirs
    /\ walked' = {args[at]} /\ pc' = "real"
    /\ UNCHANGED <<world, args, at, walk, result>>

Listable(path) == Resolve(path) \in Dirs \ closed

\* Mutant: os.walk without onerror.
ListFailsSilently(path) ==
    /\ pc = "walk" /\ path \in pending /\ ~Listable(path)
    /\ pending' = pending \ {path}
    /\ UNCHANGED <<world, args, pc, at, root, names, subs, listed, walked, result>>

ListFails(path) ==
    /\ pc = "walk" /\ path \in pending /\ ~Listable(path)
    /\ pending' = pending \ {path}
    /\ failures' = failures \cup {path}
    /\ UNCHANGED <<world, args, pc, at, root, names, subs, listed, walked, seen, found, kept>>

List(path) ==
    /\ pc = "walk" /\ path \in pending /\ Listable(path)
    /\ LET here == {n \in Names : entry[Resolve(path)][n] # NoEntry} IN
          /\ subs' = {n \in here : entry[Resolve(path)][n].to \in Dirs}
          /\ names' = here \ subs'
    /\ pending' = pending \ {path} /\ root' = path
    /\ listed' = listed \cup {path}
    /\ pc' = "names"
    /\ UNCHANGED <<world, args, at, walked, result>>

\* isfile follows links.  By now the entry may have changed.
AskName ==
    /\ pc = "names" /\ names # {}
    /\ LET name == CHOOSE n \in names : \A m \in names : n <= m
           p == Append(root, name) IN
          /\ names' = names \ {name}
          /\ walked' = IF Resolve(p) \in Files THEN walked \cup {p} ELSE walked
    /\ UNCHANGED <<world, args, pc, at, pending, root, subs, listed, result>>

\* os.walk goes down after it was asked for the files, and not through links.
\* Which of the directories comes next is left open.
Descend ==
    /\ pc = "names" /\ names = {}
    /\ pending' = pending \cup {p \in {Append(root, n) : n \in subs} : ~IsLink(p)}
    /\ pc' = "walk"
    /\ UNCHANGED <<world, args, at, root, names, subs, listed, walked, result>>

WalkEnds ==
    /\ pc = "walk" /\ pending = {}
    /\ pc' = "real"
    /\ UNCHANGED <<world, args, at, walk, walked, result>>

\* Mutant: the real path is not remembered.
KeepUnseen(candidate) ==
    /\ found' = Append(found, candidate) /\ kept' = Append(kept, Real(candidate))
    /\ UNCHANGED seen

Keep(candidate) ==
    /\ found' = Append(found, candidate) /\ kept' = Append(kept, Real(candidate))
    /\ seen' = seen \cup {Real(candidate)}

Candidate ==
    /\ pc = "real" /\ walked # {}
    /\ LET p == First(walked) IN
          /\ walked' = walked \ {p}
          /\ IF Real(p) \in seen THEN UNCHANGED <<seen, found, kept>> ELSE Keep(p)
    /\ UNCHANGED <<world, args, pc, at, walk, failures>>

NextArgument ==
    /\ pc = "real" /\ walked = {}
    /\ pc' = "argument" /\ at' = at + 1
    /\ UNCHANGED <<world, args, walk, walked, result>>

\* _run_hash: nothing to hash and nothing to report is an error of usage.
Expanded ==
    /\ pc = "argument" /\ at > Len(args)
    /\ pc' = IF found = <<>> /\ failures = {} THEN "usage" ELSE "hash"
    /\ UNCHANGED <<world, args, at, walk, walked, result>>
-----------------------------------------------------------------------------
(* Other programs.                                                         *)

elsewhere == <<args, pc, at, walk, walked, result>>
Busy == pc \notin {"usage", "hash"} /\ changes < MaxChanges

\* The entries become these, nodes or links or nothing.
Become(e, slots) ==
    /\ e \in Trees \ {entry}
    /\ entry' = e /\ touched' = touched \cup slots /\ changes' = changes + 1
    /\ UNCHANGED <<closed, elsewhere>>

\* One entry is made, removed, or replaced.
Change(d, n, new) == Busy /\ Become([entry EXCEPT ![d][n] = new], {<<d, n>>})

\* An entry is moved, over another if there is one.
Move(d, n, c, m) ==
    /\ Busy /\ entry[d][n] # NoEntry
    /\ Become([entry EXCEPT ![d][n] = NoEntry, ![c][m] = entry[d][n]], {<<d, n>>, <<c, m>>})

Deny(d) ==
    /\ Busy /\ d \notin closed
    /\ closed' = closed \cup {d}
    /\ changes' = changes + 1
    /\ UNCHANGED <<entry, touched, elsewhere>>

Terminated == pc \in {"usage", "hash"} /\ UNCHANGED vars
-----------------------------------------------------------------------------
Walk ==
    \/ TakeDirectory \/ TakeOther
    \/ \E p \in pending : ListFails(p) \/ List(p)
    \/ AskName \/ Descend \/ WalkEnds \/ Candidate \/ NextArgument \/ Expanded

Others ==
    \E d \in Dirs :
        \/ Deny(d)
        \/ \E n \in Names : \/ \E new \in Entries : Change(d, n, new)
                            \/ \E c \in Dirs, m \in Names : Move(d, n, c, m)

Next == Walk \/ Others \/ Terminated

Spec == Init /\ [][Next]_vars
-----------------------------------------------------------------------------
(* Properties.                                                             *)

TypeOK ==
    /\ entry \in [Dirs -> [Names -> Entries]]
    /\ closed \subseteq Dirs /\ touched \subseteq Dirs \X Names /\ changes \in 0 .. MaxChanges
    /\ pc \in {"argument", "walk", "names", "real", "usage", "hash"}
    /\ at \in 1 .. Len(args) + 1
    /\ pending \subseteq Seq(Names) /\ root \in Seq(Names)
    /\ names \subseteq Names /\ subs \subseteq Names /\ listed \subseteq Seq(Names)
    /\ walked \subseteq Seq(Names) /\ failures \subseteq Seq(Names)
    /\ Len(found) = Cardinality(seen)   \* one real path for each file
    /\ Len(kept) = Len(found)

\* Nobody changed an entry on the way of the path.
Steady(path) ==
    LET way == Trail(entry, path) IN
    \A k \in 1 .. Len(path) : <<way[k - 1], path[k]>> \notin touched

\* os.walk leads from the argument along the path: through directories only.
Walkable(arg, path) ==
    /\ IsPrefix(arg, path) /\ Resolve(arg) \in Dirs
    /\ \A k \in Len(arg) + 1 .. Len(path) - 1 : ~IsLink(SubSeq(path, 1, k))

\* A file that stays where it is, at argument i or below it
Wanted(i, path) ==
    /\ Resolve(path) \in Files /\ Steady(path)
    /\ path = args[i] \/ Walkable(args[i], path)

\* A path found led to the node when it was taken, and leads to it still, unless
\* others changed an entry on the way of that path.
Holds(node) ==
    \E j \in 1 .. Len(found) :
        /\ kept[j] = <<node, <<>>>>
        /\ Steady(found[j]) => Resolve(found[j]) = node

\* It was found, or a directory on the way reported.
Settled(path) ==
    \/ Holds(Resolve(path))
    \/ \E k \in 0 .. Len(path) : SubSeq(path, 1, k) \in failures

\* Bound: every path of the directories, and one name more.
Depth == Cardinality(Dirs) + 1
Paths == UNION {[1 .. k -> Names] : k \in 0 .. Depth}

\* Whatever happens to other entries meanwhile, a file that stays where it is
\* below an argument is found: under its own path or another that led to it when
\* it was taken, and leads to it still if nobody changed that one either; or a
\* directory on the way is reported.  So is a file named itself.  No more is true:
\* when a link to the file came first and is then pointed elsewhere, the file's
\* own path was dropped as one already seen, and it is not hashed
\* (cli.py:562-565).  The error of usage is never given while there was a file
\* to hash (cli.py:235-250).
NothingMissed ==
    pc \in {"usage", "hash"} =>
        \A i \in 1 .. Len(args), path \in Paths : Wanted(i, path) => Settled(path)

\* Two paths that lead to the same file for as long as the command runs are
\* not both hashed (cli.py:561-565).
FilesOnce ==
    \A i, j \in 1 .. Len(found) :
        (i < j /\ Steady(found[i]) /\ Steady(found[j])) =>
            Resolve(found[i]) # Resolve(found[j]) \/ Resolve(found[i]) = Absent

\* No directory is listed twice below an argument, links into its own parents
\* included, by paths that nobody changed.  A directory that is replaced by a
\* link to its parent after os.walk asked islink of it, and before its own
\* listing, does list the parent again (cli.py:555).
ListedOnce ==
    \A p \in pending, q \in listed :
        (Steady(p) /\ Steady(q) /\ Resolve(p) \in Dirs) => Resolve(p) # Resolve(q)
OnceEach == FilesOnce /\ ListedOnce
=============================================================================
