# A TLA+ model of eous

eous digests PE and ELF executables: it disassembles the code of a file, turns
it into shingles of three instruction roots, and sketches them into 512 bits.
`hash` digests files in worker processes, `compare`, `match` and `cross` score
digests. These modules model the parts of eous in which the order of steps, a
failure at the wrong moment or a boundary decides what the user gets. TLC
checks them on small instances. TLAPS proves for every size the worker pool and
the promise it keeps, the limits inside a worker, the walk over the arguments,
the exit code of `hash`, the verdict on a file, the shingles of a digest and
the sketch read back from it, and the commands that score.

## The system

| part | code | state | operations |
|---|---|---|---|
| worker pool | `pool.py` | the slots (`process`, `connection`, `index`, `deadline`), the queue, `done`, `following`; in each worker the task and the alarm | `analyse`, `_start`, `_assign`, `_replace`; `_work`, `_limit_time`, `_limit_memory` |
| hash command | `cli.py` | `refused`, `failed`, `records`, the buffer of stdout | `_run_hash`, `_print_line`, `main` |
| verdict of a file | `report.py` | none kept; the exception in flight | `analyse`, `_analyse`, `_compressed_share` |
| loader | `loader.py` | the bytes read and copied | `load`, `_check_pe_sections`, `_check_overlap`, `read_clr`, `_arch`, `_bits` |
| shingles | `lib.rs` | `key`, `filled`, `keys`, `compact_at`, `previous`, `repeated` | `push`, `end_run`, `compact`, `disassemble`, `digest_of` |
| sketch | `lib.rs`, `digest.py` | 256 minima | `permute`, `sketch`; `unpack` |
| scores | `digest.py` | none | `parse`, `score`, `compare`, `_containment` |
| compare, match, cross | `cli.py` | the lists read from the file, the loops and counts of `cross` | `_as_digest`, `_read_digests`, `_run_match`, `_run_cross` |
| expansion of paths | `cli.py` | the real paths seen, the failures of the walk | `_expand` |
| memory limits | `pool.py`, `_jobs.py` | rlimit or job object of a worker | `_limit_memory`, `limit_memory` |
| the rest | argument parsing, wording, versions, the Python binding | none | |

How they meet: `_run_hash` pulls analyses out of the generator `pool.analyse`;
the generator hands files to worker processes over pipes, and each worker runs
`report.analyse`, which calls the loader and the native digest. Nothing is
shared but the pipes, and the parent's sentinel that each worker watches. The
generator only runs while its caller asks for the next analysis, so a slow
reader of stdout stops the pool's clock, but not the workers'. Exceptions of
the pool and of printing meet in `main`, which tells them apart by errno alone.

What is hard here: processes that die, hang or answer late, at any point of the
parent's round over a snapshot of readable pipes; replacements that fail, or
die at once; a batch that is dropped, interrupted or loses its parent; limits
set anew in a process that keeps what earlier files left; directories that
change while they are walked; streams whose readers leave; headers that lie;
arithmetic at the width of its words; boundaries of scores and loops.
`PROJECT.json` lists these hazards, each at its line.

What makes each part correct:

- pool: every file is settled exactly once, on evidence, delivered in order;
  nobody waits on nobody; the batch and its shutdown end; no process stays.
- worker: limit and alarm are those of the file in hand, whatever came before.
- expansion: a file that stays is found once, or a failure on its way reported,
  as far as others leave the paths to it alone.
- hash: the exit code and the output account for every file.
- verdict and loader: a digest speaks for most of the code, a refusal names a
  cause the file has, neither hides an earlier check, and lying headers do not
  cost more memory than the file.
- shingles and sketch: the keys are the windows of the input, no more and no
  fewer, and what is read back are the minima that plain arithmetic gives.
- scoring: symmetric, bounded, complete over the pairs, labels kept aligned.

## Modules

**`Batch`** is the promise of the pool to its caller: each file is decided once
and for good, analyses come out in the order of the files, and the batch may
close at any time. It does not know of workers.

**`Pool`** models `pool.py`. `pc` and `turn` say where the generator stands and
at which slot its loops are; `holder` and `late` are `_Worker.index` and
whether the deadline has passed; `worker[w]` is the process of slot w and what
its pipe carries (a task, the `None` that ends it, the answer), `work` being
the file it has begun. `stray` are slots whose process no entry of `workers`
leads to, as while the first list is still being built or `_assign` has not
returned. The steps are as fine as another process can observe:

| code | actions |
|---|---|
| line 48 | `StartWorker`, `StartFails` |
| `_assign` at 52 and 77 | `NothingToHand`, `SendTask`, `ReplaceAndSend`, `HandFails` |
| lines 53-57 | `LoopTest`, `WaitReturns` (the snapshot `ready`) |
| lines 58-76 | `PassBy`, `TakeAnswer`, `RecvFails`, `FindCrashed`, `GiveUpLate`, `ReplaceFails` |
| lines 78-80 | `Deliver`, `Resume` |
| leaving the `try`, lines 81-90 | `CloseEarly`, `Interrupt`, `SendNone`, `Reap`, `InterruptAgain` |
| `_work` | `Take`, `Answer`, `Leave`, `Orphaned` |
| the system | `Die`, `Expire`, `Alarm`, `ParentDies` |

The constant `Faults` switches the failures on, so that one module serves every
run. Abstractions: time is one bit per slot; an answer arrives whole; a
worker's analysis is free to answer, hang or die; `Interrupt` strikes between
two steps of the model or in the middle of a replacement, and `InterruptAgain`
once more in the shutdown, which then stays `abandoned`; a worker that was
killed leaves only an answer already sent. The alarm is set at least a second
past the deadline. Under `Prompt` the parent's own steps take less than that,
and the alarm strikes only while the parent is not looking: at a yield, in the
shutdown, or gone. Without, a parent that is slow to start a replacement may be
overtaken anywhere; all runs but `pool_alarm` and all proofs allow for that.

**`Worker`** is the same worker from inside: `_work` through a sequence of
files, the limit on memory of each platform, the alarm, and an analysis that
allocates, is denied, returns, raises or panics. Memory is counted in units and
time in half seconds, so that the rounding of the alarm shows. `base`, `spent`
and `wanted` remember what the limit and the alarm started from.

**`Expand`** models `_expand` as it walks: listing a directory, asking for each
name, descending, taking real paths, with other programs at work between any
two of these. A path is a sequence of names, and a link may lead anywhere. The
others make, remove or replace an entry by any other, link or not, move one to
another place, over what is there, or take away a permission, one at a time;
whatever they do, the directories stay a tree. `touched` remembers the entries
they changed, `kept` the real path each file had when it was taken. What the
walk finds is the batch of `Hash`; its failures are `Unwalked` there.

Two weak places of the code under such changes are stated beside its properties.
A link to a file may be taken first and pointed elsewhere afterwards; the file's
own path is then dropped as one already seen, so `NothingMissed` promises no
more than a path that led to the file when it was taken (`cli.py:562-565`). And
a directory replaced by a link to its parent after `os.walk` asked `islink` of
it is listed as its parent, so `OnceEach` speaks of paths that nobody changed
(`cli.py:555`).

**`Hash`** models `_run_hash` and `main` on top of `Batch`: one step per
analysis taken, line printed, document printed, clause of an `except`, flush.
The readers of stdout and stderr leave, and the device of stdout is full, at
any moment. `buffer` says that a JSON document waits in the buffer of stdout.
The start of the command, with the error of usage when there is nothing to
hash, is in `Expand`. Without a file but with a directory that could not be
walked there is no pool, and the refusals are reported all the same; N may be 0.

**`Verdict`** models `report.analyse` and `loader.load` for one file, which is
a record of what the checks tell apart. The environment may fail to read, the
parser may raise anything at any step, and memory may run out at any step.
Entropy is a property of a region. The `except` clauses are a list (`Clauses`),
and the first that fits the class of an exception takes it. The section table
is modelled header by header: where it starts, how many it counts, and what
each says of its data, which the code cuts to the file and adds up (`Claimed`);
what LIEF makes of the same headers is left open. The CLR header is what
`read_clr` can find there.

**`Shingles`** models `disassemble`, `Shingles` and the decision of `digest_of`
over the output of the decoder, which is external. `input` remembers what the
decoder yielded, so that the properties can say what the shingles should be.

**`Sketch`**, which it extends, is the arithmetic of the sketch with its widths:
`Permute` folds a product of two words as `permute` does, `Smallest` and
`SketchOf` take the minima and pack their low bits into bytes, `Unpack` is what
`digest.py` reads back.

**`Score`** holds the arithmetic of `digest.py` in exact fractions, without the
margin of error. **`Known`** models the commands that score: the file of
digests is read line by line, `match` ranks, `cross` goes pair by pair, the
score from a slice of the members (`Rows`) and the label from the members
themselves, and may lose its reader on the way. The label of a digest is the
number of its line.

`MCPool`, `MCWorker`, `MCExpand`, `MCShingles` and `MCKnown` hold values for
constants; `Hash` and `Verdict` are checked as they are. `PoolProofs`,
`WorkerProofs`, `ExpandProofs`, `HashProofs`, `VerdictProofs`, `ShinglesProofs`
(which includes `Sketch`) and `KnownProofs` (which includes `Score`) prove about
the module each is named for. `Induction` holds what they need of induction.

## Runs

| run | shows | bounds |
|---|---|---|
| `pool_safety` | the safety of the pool, and that it implements `Batch` | 3 files, 2 workers, all faults but the death of the parent |
| `pool_complete` | every batch completes although workers hang and die, and the pool never gives up without a failure | 3 files, 2 workers, all faults but Ctrl-C and the death of the parent |
| `pool_orphans` | no worker outlives its parent, killed or interrupted twice; whatever ended a batch, its shutdown ends | 3 files, 2 workers, all faults but a worker that dies on its own (its alarm kills it) and a caller that leaves (as Ctrl-C at a yield) |
| `worker` | the alarm and the limit on memory fit the file in hand | 3 tasks, 2 budgets, 2 times, 3 platforms, a hard limit or none |
| `expand` | what stays is found or a failure reported, once | every tree of 2 directories and 2 files with any links, 2 names, the top directory alone or before or after one of its entries, 1 change or move |
| `hash` | output and exit code account for every file | 3 files, 1 directory, both modes, `--quiet` or not |
| `verdict` | verdicts fit the file | a file of 6 bytes, at most 2 regions of 0, 3 or 6, section headers of 2 bytes, at most 3 counted, sizes 0, 2, 3 and 18 at 0, 3, 5 and 7 |
| `shingles` | the keys are the windows of the input, and the sketch read back is theirs | 6 steps of the decoder, 3 mnemonics of which 2 share a root, compaction from 2 keys on; modulus 7 in words of 6 bits, 8 permutations |
| `known` | scoring, ranking, pairing | 4 lines, 6 digests in the file, 13 given |
| `pool_alarm` | violation: the alarm ends a worker of a live parent | 2 files, 2 workers, no fault at all, a `Prompt` parent |
| `hash_json` | violation: a refusal lost from the exit code under `--json` | 2 files |
| `hash_pool` | violation: a worker's broken pipe ends in exit code 0 | 2 files |

Why the bounds are enough. Three files on two workers is the least in which a
slot gets a second file while another still works on its first, and in which a
replacement is made while files wait; what holds beyond that is proved. Three
tasks let what the first left behind meet a larger and a smaller budget after
it; that too is proved. Two directories are the least with a link from the
lower one to its parent, two files the least in which one vanishes and another
stays; one change is enough to fall between any two steps, and two arguments
list a directory again, or take again what was taken. Regions of half the file
and all of it reach the half share from both sides, overlap and empty code;
three headers of a third of the file each lead the table to its last byte and
past it; their data lie within the file, end with it, are cut by it or begin
beyond it, and add up to less and more than twice the file. Six steps reach the
fourth repetition with something before or after it, two runs of three, and a
second compaction. Seven is the least modulus of the form 2^e - 1 with an inner
bit, words hold 8 times as much as in the code, and eight permutations fill two
bytes. Four lines are the least with two targets of two digests each, or with a
skipped line before a triangle of three.

Deadlock is checked for the pool, the worker, the walk and the command, whose
ends are explicit stuttering steps (`Terminated`). The other three modules
describe computations that stop when they are done.

The run `hash` leaves out the fault `poolpipe`, as `hash_pool` shows what it
does; every other fault of that module is on.

### Fairness

`Live` assumes that the parent takes its steps, its caller keeps asking, and
every clock advances: the generator only waits in `wait`, with a timeout, and
in `join`, with a limit. Nothing is assumed of workers: an analysis may hang
for ever. That is why a deadline is needed, and why `BatchCompletes` fails when
`wait` has none (a mutant). `OrphanLive` assumes besides that a live worker's own
loop runs and the kernel delivers the alarm; the analysis may still hang. It
needs `HasAlarm`, that is, not Windows. What it assumes of the parent matters to
`ShutdownEnds` alone: `OrphansEnd` begins when the parent has stopped.

An exception of the pool (`start`, `stillborn`, `unpickle`) ends the batch, so
`BatchCompletes` counts a generator that gave up as an end. `GivesUpOnFailure`
says that nothing else makes it give up. Ctrl-C may strike at any line and would
excuse every early end; it is off in `pool_complete` and on in `pool_orphans`.

### What the violations say

1. The comment at `pool.py:169` says the alarm only ends a worker whose parent
   is gone. While the generator is held at its yield, by a caller that waits
   for the reader of its output, nobody enforces deadlines, and the alarm
   ends a worker of a live parent. The file is then reported as crashed, not
   as having exceeded its limit.
2. `test_cli.py:171` says that a refusal outlives a closed reader. Under
   `--json` the document may wait in the buffer until `main` flushes it, past
   the clause in `_run_hash` that keeps the exit code; the run ends with 0.
3. The epilogue (`cli.py:52`) says 0 means every file digested or the output
   closed early. When a replacement worker dies before its task is sent, the
   second `send` of `_assign` raises `BrokenPipeError`, which `main` takes for
   a closed stdout.

A fourth, not stated as a run because no text of the repository speaks of it:
when the reader of *stderr* leaves, the refusal that cannot be printed ends the
loop, and digests that stdout would still take are not printed. The exit code
is 1, as the property `ExitExplains` requires.

## Proofs

Eight modules hold proofs. Each assumes the named assumption of the module it is
about, so it holds for every value of the constants, and nothing else unless
said here.

**`Induction`**: the theorems of the library about induction take an operator,
which no backend here can supply, so this module states induction of sets. That
every set of numbers has a least one (`Least`) follows from one fact of the
library, that the finite subsets of a set are well-founded. From it follow
induction (`Induct`), that a function may be defined by recursion (`Recursion`),
and that a finite set in which any two elements are ordered has a first one
(`FirstOf`). Each recursive function of the models is a CHOOSE, so its equations
are proved by showing with `Recursion` that something solves them: `Trail` of
`Expand`; `Packed`, `Body` and `Shifted` of `Sketch`.

**`PoolProofs`**: `TypeCorrect`, `EveryFileAccounted`, `ResultsInOrder`,
`WaitsOnWork`, `SlotsStayBusy`, `BegunOnce` and `NoProcessLeft`, the invariants
of `pool_safety`; `VerdictsEarned` and `NeverGivesUp`, action properties; and
`PoolKeepsPromise`, the refinement of `Batch` under the mapping of the verdict
of a file to what `out` or `done` hold of it.

None of the invariants is inductive alone. That a file is in one place
(`Accounted`) breaks if a pipe may carry an answer about another file than the
slot holds, so `PipesMatch` is needed: a pipe carries at most one of task, work
and answer, about the file of the slot. `HeadInWork`, by which `min()` never
meets an empty list, needs `Loops`: while a file is queued no slot is free
outside `_assign`. That blame rests on evidence needs `Snapshot`: what `wait`
returned remains readable until the round is there, so "ready and no answer"
still means the process is gone. `Earned` promises to record an answer that was
in the pipe when `wait` returned, and no other: one that comes later, but in
time, is lost with its worker if the deadline passes before its turn in the
round (`pool.py:57`, `70-72`). `LeavesNoProcess` needs `Strays`. Their
conjunction `IInv` is proved inductive in `Invariance`, one lemma per conjunct,
one step per action. What the three ways of settling a file have in common is
stated once (`SettlingFacts`), and steps that leave the record of the batch
alone are collected in `Quiet`.

**`WorkerProofs`**: the five properties of `worker`, for any budgets, times and
limits. `WInv` says of each place in `_work` that the limit is the budget of the
task in hand counted from `base` (or the hard limit), and that what is left of
the alarm reaches a second past its time; without the first a limit left by the
file before would be possible, without the second an alarm left behind.

**`HashProofs`**: the types, `NobodySilent` and `ExitTruthful`, for any number
of files and failures of the walk. `HInv` ties the flags to the analyses taken,
the place of an error in flight to the stream it came from, and the lines
printed to those taken, one by one. `ExitTruthful` assumes that no broken pipe
escapes from the pool, as `hash_pool` shows what one does.

**`VerdictProofs`**: the five properties of `verdict`, for files, regions and
tables of any size, and headers of any sizes and pointers. `VInv` carries what
every check has left behind from place to place; `Accepted` reads off what is
known by the time a verdict on the code is given, which is `LoadedWhole`.
`ClaimsCounted` shows that what the loader adds up over the section table is what
it would hand out, byte by byte: both sums are over the same functions, and are
compared as wholes, so that no induction is needed. `Refusals` evaluates the list
of clauses for each exception.

**`ShinglesProofs`**: types, `KeysAreWindows`, `ListBounded` and
`DigestIsFaithful`, for code of any length over any vocabulary. The properties
speak of the whole input, the code keeps five numbers of it, and `SInv` says
what they mean: `Repeats`, that the last k + 1 instructions are of one mnemonic
exactly for k below `repeated`; `Filled`, that `filled` tells whether
there are one or two kept instructions in the run still open and that the low
roots of `key` are theirs. From the first follows that the code keeps an
instruction exactly when it is not the fourth of a streak (`RepeatsDecode`),
from the second that one kept instruction closes exactly one window
(`WindowsGrow`, `PushExact`). `PackedAlike` shows packing injective, which makes
the number of keys the number of windows.

`SketchIsFaithful` goes on from the keys to what `digest.py` reads. The two
folds and one subtraction of `permute` are multiplication and addition modulo
`BASE - 1` (`PermuteExact`), for every base of at least 4 and every word with
room for one bit more; so also for 2^61 and 2^64, which TLC cannot reach. A slot
is the least of these (`SmallestOf`). Four slots to a byte and bytes to a number
are taken apart again as they were put together (`PackedFour`, `BodySteps`;
`ColumnOf`, `ByteOf`), so that `Unpack` returns the low bits of every slot
(`ReadBack`). `Sketched` says that a digest remains the sketch of the keys.

**`ExpandProofs`**: the three properties of `expand`, for any tree, command
line and number of changes by others. The walk keeps only what is still to do,
while `NothingMissed` speaks of all that was. `Track` therefore says of every
file that stays, at each moment, how far the walk is with it: its argument is
still to come, or a directory on its way is pending or in hand, or it is
settled; and `Remembered`, that `seen` holds what `kept` lists, each with the
path it was found under. Changes by others can only make fewer files stay
(`SteadyStays`, `TrackUndisturbed`).

That a directory is not listed twice is harder, as the tree changes under the
walk. `Descends` says of every path the walk has come to that it goes on from the
argument, was entered from a path that was listed, and passes through no link
below the argument unless others touched it (`Straight`), and that nothing is
pending that was listed. In a tree two such paths to one directory are the same
path: `Backwards` takes them back step by step from where they meet, `Deeper`
and `NotLonger` show that neither goes round again, as depth grows along both,
and `Distinct` concludes. `FirstIsOne` shows that the order of `sorted()` has a
first among any files still to be taken.

**`KnownProofs`**: all six properties of `known`. `LabelsStay` holds for files of
any length. `ComparisonAlike` and `ContainmentIsSound` hold for any digests: the
scores are products of unbounded integers, so each inequality is taken down to
one use of `Times`, and that containment never exceeds the whole rests on the
bound of `Similarity` (`SimilarityShare`). A list in order is the set of which
the k-th element comes after k - 1 others; that this names one element for each
k is proved by counting (`Lists`), and gives `BestAreRanked` for every `top` and
minimum, ties included. For `EveryPairIsScored`, `Counting` says at every pair
of the triangle which pairs lie behind it: the targets before, the rows before,
and the rest of this row; what was printed and what `total` and `below` count
are these, and `RowsFitLabels` that slice and label lead to the same member.
`DigestLines` takes the result back from indices to lines, as labels
rise.

Only model-checked: liveness (`BatchCompletes`, `ShutdownEnds`, `OrphansEnd`),
which rests on fairness and ENABLED and so is out of the prover's reach. Every
other property of a run that passes is a theorem.

## Not modelled

- Answers of which only a part is written when a worker dies.
- Hard links in `Expand`: a node has one entry at most. Files that change while
  they are read appear only as reads that fail.
- What the decoder makes of its width: `Digest` records the width and the target,
  each taken from its own field of the header, and no property speaks of them.
- The margin of error of a score, which needs a square root, and floating point
  altogether: scores are exact fractions, and the limit of 2^53 on a cardinality
  is what justifies that.
- Memory that is freed in the middle of an analysis; the structures passed to
  Windows for a job object.
- The decoder, the vocabulary, the hashes of names and coefficients: external.
- Argument parsing, wording, layout, versions, and the binding to Python, which
  keep no state.

## Plan

1. The margin of error of a score, bounded in integers as `Score` does the rest.
2. A cover of `BatchCompletes` by safety: a measure that no step of the parent
   raises and every round of it lowers, which can be proved, unlike the
   liveness that follows from it.
