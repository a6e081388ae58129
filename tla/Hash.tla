-------------------------------- MODULE Hash ---------------------------------
(***************************************************************************)
(* `eous hash' of src/eous/cli.py: _run_hash takes the analyses of a batch *)
(* one by one, prints them and remembers refusals; main flushes and turns  *)
(* what happened into an exit code.  The pool is Batch, its promise.  The  *)
(* reader of stdout or stderr may leave and the device may be full at any  *)
(* moment.  What a line or a record looks like is left out.                *)
(***************************************************************************)
EXTENDS Naturals, Sequences, SequencesExt

CONSTANTS
    N,        \* files to analyse; with none there is no pool
    Unwalked, \* directories that may not be walked, at most
    Modes,    \* the values of --json tried
    Faults    \* what may go wrong in this instance

FaultNames == {"stdout",    \* the reader of stdout leaves
               "full",      \* a write to stdout fails otherwise
               "stderr",    \* the reader of stderr leaves
               "poolpipe",  \* a broken worker pipe escapes from the pool
               "poolerror"} \* any other exception does

ASSUME HashAssumption ==
    /\ N \in Nat /\ Unwalked \in Nat
    /\ Modes \subseteq BOOLEAN /\ Faults \subseteq FaultNames

\* What the caller of the pool tells apart: a digest, a refusal with a cause
\* in the file, and the refusal worded `internal_error'.
Kinds == {"digest", "refused", "internal"}

OK == 0
REFUSED == 1
INTERNAL == 3
Uncaught == 4   \* an exception leaves main
Running == 5    \* no exit code yet

VARIABLES
    verdict, out, open,  \* the batch
    json, quiet,         \* the options
    unwalked,            \* directory refusals still to report
    step,                \* where _run_hash or main stands
    refused, failed,     \* its flags
    item,                \* the analysis in hand
    error,               \* the exception in flight
    code,                \* what _run_hash returned
    buffer,              \* a JSON document waits in the buffer of stdout
    stdout, stderr,      \* the streams, as their readers leave them
    quietened,           \* stdout was pointed at the null device
    shown, told,         \* what reached their readers
    exit

Analyses == INSTANCE Batch

pool == <<verdict, out, open>>
options == <<json, quiet>>
flags == <<refused, failed>>
streams == <<stdout, stderr, quietened>>
printed == <<buffer, shown, told>>
vars == <<pool, options, unwalked, step, flags, item, error, code, printed, streams, exit>>

Nobody == [of |-> 0, kind |-> "refused"]   \* a directory, not a file of the batch

Init ==
    /\ Analyses!Init
    /\ json \in Modes /\ quiet \in BOOLEAN /\ unwalked \in 0 .. Unwalked
    /\ N = 0 => unwalked > 0   \* or it was an error of usage
    /\ step = "loop" /\ refused = FALSE /\ failed = FALSE /\ item = Nobody
    /\ error = "none" /\ code = OK /\ buffer = FALSE
    /\ stdout = "open" /\ stderr = "open" /\ quietened = FALSE
    /\ shown = <<>> /\ told = <<>>
    /\ exit = Running
-----------------------------------------------------------------------------
(* _run_hash                                                               *)

\* The flags are set before anything is printed.
Seen(analysis) ==
    /\ item' = analysis
    /\ refused' = (refused \/ analysis.kind # "digest")
    /\ failed' = (failed \/ analysis.kind = "internal")
    /\ step' = "print"

\* Mutant: an off-by-one in the list of unwalked directories.
NextUnwalkedTooOften ==
    /\ step = "loop" /\ unwalked >= 0
    /\ unwalked' = unwalked - 1
    /\ Seen(Nobody)
    /\ UNCHANGED <<pool, options, error, code, printed, streams, exit>>

NextUnwalked ==
    /\ step = "loop" /\ unwalked > 0
    /\ unwalked' = unwalked - 1
    /\ Seen(Nobody)
    /\ UNCHANGED <<pool, options, error, code, printed, streams, exit>>

NextAnalysis ==
    /\ step = "loop" /\ unwalked = 0
    /\ Analyses!Emit
    /\ Seen(Last(out'))
    /\ UNCHANGED <<options, unwalked, error, code, printed, streams, exit>>

Exhausted ==
    /\ step = "loop" /\ unwalked = 0 /\ Len(out) = N
    /\ Analyses!Close
    /\ step' = IF json THEN "json" ELSE "return"
    /\ UNCHANGED <<options, unwalked, flags, item, error, code, printed, streams, exit>>

\* The exception drops the generator, which closes the batch.
Raise(what) ==
    /\ error' = what
    /\ step' = "raised"
    /\ open' = FALSE
    /\ UNCHANGED <<verdict, out, options, unwalked, flags, item, code, printed, streams, exit>>

\* The errors an exception of the pool can be taken for.
PoolErrors == {what \in {"epipe", "other"} :
                  (IF what = "epipe" THEN "poolpipe" ELSE "poolerror") \in Faults}

PoolRaises ==
    /\ step = "loop" /\ unwalked = 0 /\ N > 0 /\ open
    /\ \E what \in PoolErrors : Raise(what)

WriteFails == IF stdout = "closed" THEN Raise("epipe") ELSE Raise("other")

\* Mutant: --quiet silences the digests too.
KeepAllSilent ==
    /\ step = "print" /\ (json \/ quiet)
    /\ step' = "loop"
    /\ UNCHANGED <<pool, options, unwalked, flags, item, error, code, printed, streams, exit>>

\* A record of --json, or a refusal under --quiet.
KeepSilent ==
    /\ step = "print"
    /\ json \/ (quiet /\ item.kind # "digest")
    /\ step' = "loop"
    /\ UNCHANGED <<pool, options, unwalked, flags, item, error, code, printed, streams, exit>>

\* A digest is flushed with its line.
PrintDigest ==
    /\ step = "print" /\ ~json /\ item.kind = "digest"
    /\ IF stdout = "open"
       THEN /\ shown' = Append(shown, item)
            /\ step' = "loop"
            /\ UNCHANGED <<pool, options, unwalked, flags, item, error, code, buffer, told,
                           streams, exit>>
       ELSE WriteFails

PrintRefusal ==
    /\ step = "print" /\ ~json /\ item.kind # "digest" /\ ~quiet
    /\ IF stderr = "open"
       THEN /\ told' = Append(told, item)
            /\ step' = "loop"
            /\ UNCHANGED <<pool, options, unwalked, flags, item, error, code, buffer, shown,
                           streams, exit>>
       ELSE Raise("epipe")

\* A small document stays in the buffer of stdout, a large one is written.
PrintJson ==
    /\ step = "json"
    /\ \/ /\ buffer' = TRUE
          /\ step' = "return"
          /\ UNCHANGED <<pool, options, unwalked, flags, item, error, code, shown, told,
                         streams, exit>>
       \/ IF stdout = "open"
          THEN /\ shown' = out
               /\ step' = "return"
               /\ UNCHANGED <<pool, options, unwalked, flags, item, error, code, buffer, told,
                              streams, exit>>
          ELSE WriteFails

\* Mutant: every exception goes to main.
CatchNothing ==
    /\ step = "raised" /\ step' = "main"
    /\ UNCHANGED <<pool, options, unwalked, flags, item, error, code, printed, streams, exit>>

\* except OSError: with a refusal behind it a closed pipe is not raised again.
Catch ==
    /\ step = "raised"
    /\ IF refused /\ error = "epipe"
       THEN step' = "return" /\ quietened' = TRUE
       ELSE step' = "main" /\ quietened' = quietened
    /\ UNCHANGED <<pool, options, unwalked, flags, item, error, code, printed, stdout, stderr, exit>>

Return ==
    /\ step = "return"
    /\ code' = IF failed THEN INTERNAL ELSE IF refused THEN REFUSED ELSE OK
    /\ step' = "flush"
    /\ UNCHANGED <<pool, options, unwalked, flags, item, error, printed, streams, exit>>
-----------------------------------------------------------------------------
(* main                                                                    *)

Exit(with) ==
    /\ exit' = with
    /\ step' = "exited"
    /\ UNCHANGED <<pool, options, unwalked, flags, item, code, told, stdout, stderr>>

Flush ==
    /\ step = "flush"
    /\ IF ~buffer \/ stdout = "open" \/ quietened
       THEN /\ shown' = IF buffer /\ ~quietened THEN out ELSE shown
            /\ buffer' = FALSE
            /\ Exit(code)
            /\ UNCHANGED <<error, quietened>>
       ELSE /\ error' = IF stdout = "closed" THEN "epipe" ELSE "other"
            /\ step' = "main"
            /\ UNCHANGED <<pool, options, unwalked, flags, item, code, printed, streams, exit>>

\* A closed pipe ends the run quietly; anything else is an internal error,
\* and telling so may itself fail.
MainCatches ==
    /\ step = "main"
    /\ IF error = "epipe"
       THEN Exit(OK) /\ quietened' = TRUE
       ELSE /\ Exit(IF stderr = "open" THEN INTERNAL ELSE Uncaught)
            /\ quietened' = (quietened \/ (buffer /\ stdout # "open" /\ stderr = "open"))
    /\ UNCHANGED <<buffer, shown, error>>
-----------------------------------------------------------------------------
(* The surroundings                                                        *)

Decide ==
    /\ Analyses!Decide
    /\ UNCHANGED <<options, unwalked, step, flags, item, error, code, printed, streams, exit>>

StreamFails ==
    /\ step # "exited"
    /\ \/ "stdout" \in Faults /\ stdout = "open" /\ stdout' = "closed" /\ stderr' = stderr
       \/ "full" \in Faults /\ stdout = "open" /\ stdout' = "full" /\ stderr' = stderr
       \/ "stderr" \in Faults /\ stderr = "open" /\ stderr' = "closed" /\ stdout' = stdout
    /\ UNCHANGED <<pool, options, unwalked, step, flags, item, error, code, printed, quietened,
                   exit>>

Terminated == step = "exited" /\ UNCHANGED vars

Next ==
    \/ NextUnwalked \/ NextAnalysis \/ Exhausted \/ PoolRaises \/ KeepSilent
    \/ PrintDigest \/ PrintRefusal \/ PrintJson \/ Catch \/ Return
    \/ Flush \/ MainCatches \/ Decide \/ StreamFails \/ Terminated

Spec == Init /\ [][Next]_vars
-----------------------------------------------------------------------------
(* Properties                                                              *)

Items == [of : 0 .. N, kind : Kinds]

TypeOK ==
    /\ json \in BOOLEAN /\ quiet \in BOOLEAN /\ unwalked \in 0 .. Unwalked
    /\ step \in {"loop", "print", "json", "raised", "return", "flush", "main", "exited"}
    /\ refused \in BOOLEAN /\ failed \in BOOLEAN /\ item \in Items
    /\ error \in {"none", "epipe", "other"} /\ code \in {OK, REFUSED, INTERNAL}
    /\ buffer \in BOOLEAN /\ stderr \in {"open", "closed"}
    /\ stdout \in {"open", "closed", "full"} /\ quietened \in BOOLEAN
    /\ shown \in Seq(Items) /\ told \in Seq(Items)
    /\ exit \in {OK, REFUSED, INTERNAL, Uncaught, Running}

IsDigest(a) == a.kind = "digest"
Digests == {out[i] : i \in {j \in DOMAIN out : IsDigest(out[j])}}
Refusals == {out[i] : i \in {j \in DOMAIN out : ~IsDigest(out[j])}}
AllDigested == Len(out) = N /\ \A i \in 1 .. N : IsDigest(out[i])

\* The directories come first, then the files in their order.
InOrder(list) ==
    \A i, j \in DOMAIN list : (i < j /\ list[j].of # 0) => list[i].of < list[j].of

\* When the streams held and the pool raised nothing, every file of the batch
\* was printed as a digest or, unless --quiet, named with its cause, each list
\* in the order of the files.
NothingSilent ==
    (exit # Running /\ error = "none") =>
        /\ Len(out) = N
        /\ IF json THEN stdout = "open" => shown = out
           ELSE /\ InOrder(shown) /\ ToSet(shown) = Digests
                /\ InOrder(told)
                /\ quiet \/ ToSet(told) \ {Nobody} = Refusals

\* The exit code never claims more than happened: 0 when every file got its
\* digest or the reader of stdout left early, 1 only for refusals none of
\* which is internal, 3 only for an internal refusal or another failure; and
\* printing line by line, no failure of a stream hides what was seen.
ExitExplains ==
    /\ exit = OK => AllDigested \/ stdout = "closed"
    /\ exit = REFUSED => refused /\ ~failed
    /\ exit = INTERNAL => failed \/ error = "other"
    /\ (exit # Running /\ ~json) => /\ refused => exit # OK
                                    /\ failed => exit \in {INTERNAL, Uncaught}

\* A refusal that was seen is in the exit code even when the reader of stdout
\* leaves, whatever is printed around it (test_cli.py:171).
RefusalOutlivesReader == exit = OK => ~refused

\* The epilogue of the command: exit code 0 means that every file got a
\* digest, or that the reader of stdout closed it.
OkMeansDigested == exit = OK => AllDigested \/ stdout = "closed"
=============================================================================
