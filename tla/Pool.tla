-------------------------------- MODULE Pool ---------------------------------
(***************************************************************************)
(* The worker pool of src/eous/pool.py: the generator `analyse' in the     *)
(* parent process, one worker process per slot running `_work', the pipe   *)
(* between them, the deadline of each file and the worker's own alarm.     *)
(*                                                                         *)
(* Time is abstract: late[w] says that the deadline of the file slot w     *)
(* holds has passed.  Sizes, budgets and the analysis itself are left out: *)
(* a worker may answer, hang or die at any moment.                         *)
(***************************************************************************)
EXTENDS Naturals, Sequences, FiniteSets

CONSTANTS
    N,         \* files in the batch; no caller passes an empty list
    Cpus,      \* _worker_count()
    Faults,    \* what may go wrong in this instance
    HasAlarm,  \* POSIX has signal.alarm, Windows has not
    Prompt     \* the parent's own steps take less than the alarm's slack

FaultNames == {"die",        \* a worker dies
               "stillborn",  \* a replacement dies before its first task
               "start",      \* a process cannot be started
               "unpickle",   \* an exception arrives that cannot be built again
               "interrupt",  \* Ctrl-C in the parent, once or twice
               "close",      \* the caller drops the generator at a yield
               "parent"}     \* the parent is killed

ASSUME PoolAssumption ==
    /\ N \in Nat \ {0}
    /\ Cpus \in Nat \ {0}
    /\ Faults \subseteq FaultNames
    /\ HasAlarm \in BOOLEAN /\ Prompt \in BOOLEAN

Files == 1 .. N
S == IF N < Cpus THEN N ELSE Cpus
Slots == 1 .. S
None == 0

Kinds == {"report", "failed", "crashed", "overran"}
Nothing == [of |-> None, kind |-> "none"]
Outcome == [of : Files, kind : Kinds]
\* In the pipe an exception is still an exception; the parent words it.
Answers == [of : Files, kind : {"report", "raised"}]

WorkerStates == [proc : {"none", "live", "dead", "alarmed"},
                 task : Files \cup {None}, bye : BOOLEAN,
                 work : Files \cup {None}, answer : Answers \cup {Nothing}]
Fresh == [proc |-> "live", task |-> None, bye |-> FALSE,
          work |-> None, answer |-> Nothing]
Unstarted == [Fresh EXCEPT !.proc = "none"]

VARIABLES
    pc,         \* where the generator stands
    turn,       \* the slot a loop over the workers is at
    ready,      \* slots whose connection `wait' returned: a snapshot
    next,       \* the head of `queue'
    done,       \* outcomes not yet handed out
    following,  \* the next file to hand out
    out,        \* history: what the caller received
    holder,     \* _Worker.index of each slot
    late,       \* the slot's deadline has passed
    worker,     \* the process of each slot and its pipe
    stray,      \* slots whose process no entry of `workers' leads to
    tried       \* history: files some worker began

batch == <<ready, next, done, following, out>>
book == <<holder, late>>
vars == <<pc, turn, batch, book, worker, stray, tried>>

Init ==
    /\ pc = "start" /\ turn = 1 /\ ready = {} /\ next = 1 /\ following = 1
    /\ done = [f \in Files |-> Nothing]
    /\ out = <<>>
    /\ holder = [w \in Slots |-> None]
    /\ late = [w \in Slots |-> FALSE]
    /\ worker = [w \in Slots |-> Unstarted]
    /\ stray = {} /\ tried = {}

Alive(w) == worker[w].proc = "live"
Dead(w) == worker[w].proc \in {"dead", "alarmed"}
Busy == {w \in Slots : holder[w] # None}
Readable(w) == worker[w].answer # Nothing \/ Dead(w)
\* `abandoned': the shutdown itself was interrupted.
Open == pc \notin {"closing", "reap", "ended", "abandoned", "gone"}

\* What is left of the process of slot w: only an answer it already sent.
Remains(w, how) == [Fresh EXCEPT !.proc = how, !.answer = worker[w].answer]

\* A loop over the slots moves on, or goes to `after' past the last.
NextTurn(after) ==
    IF turn = S THEN pc' = after /\ turn' = 1
                ELSE pc' = pc /\ turn' = turn + 1
-----------------------------------------------------------------------------
(* The parent: starting the workers.  A failure here is outside the try.   *)

StartWorker ==
    /\ pc = "start"
    /\ worker' = [worker EXCEPT ![turn] = Fresh]
    /\ NextTurn("assign")
    /\ stray' = IF turn = S THEN {} ELSE stray \cup {turn}
    /\ UNCHANGED <<batch, book, tried>>

StartFails ==
    /\ pc = "start" /\ "start" \in Faults
    /\ pc' = "ended"
    /\ UNCHANGED <<turn, batch, book, worker, stray, tried>>

(* _assign, for every slot before the loop and for one slot after its file *)
(* is settled.  The first list of workers is replaced as a whole, so a     *)
(* replacement made while it is built stays stray until the last slot.     *)

Assigning == pc \in {"assign", "hand"}

Handed(replaced) ==
    IF pc = "assign"
    THEN /\ NextTurn("wait")
         /\ stray' = IF turn = S THEN {} ELSE stray \cup replaced
    ELSE /\ pc' = IF turn = S THEN "deliver" ELSE "round"
         /\ turn' = IF turn = S THEN 1 ELSE turn + 1
         /\ stray' = stray \ {turn}

\* Mutant: a replacement is not given a file.
NothingForReplacement ==
    /\ Assigning /\ (next > N \/ turn \in stray)
    /\ Handed({})
    /\ UNCHANGED <<batch, book, worker, tried>>

NothingToHand ==
    /\ Assigning /\ next > N
    /\ Handed({})
    /\ UNCHANGED <<batch, book, worker, tried>>

Hold ==
    /\ next' = next + 1
    /\ holder' = [holder EXCEPT ![turn] = next]
    /\ late' = [late EXCEPT ![turn] = FALSE]
    /\ UNCHANGED <<ready, done, following, out, tried>>

SendTask ==
    /\ Assigning /\ next <= N /\ Alive(turn)
    /\ worker' = [worker EXCEPT ![turn].task = next]
    /\ Hold
    /\ Handed({})

ReplaceAndSend ==
    /\ Assigning /\ next <= N /\ ~Alive(turn)
    /\ worker' = [worker EXCEPT ![turn] = [Fresh EXCEPT !.task = next]]
    /\ Hold
    /\ Handed({turn})

\* _replace kills the old process and then cannot start another, or is
\* interrupted between starting it and returning it.
ReplaceRaises ==
    \/ /\ "start" \in Faults
       /\ worker' = [worker EXCEPT ![turn] = Remains(turn, "dead")]
       /\ stray' = stray \ {turn}
    \/ /\ "interrupt" \in Faults
       /\ worker' = [worker EXCEPT ![turn] = Fresh]
       /\ stray' = stray \cup {turn}

\* The exception leaves the generator with the file taken off the queue:
\* no replacement, or a replacement that is gone before its task is sent.
HandFails ==
    /\ Assigning /\ next <= N /\ ~Alive(turn)
    /\ \/ ReplaceRaises
       \/ /\ "stillborn" \in Faults
          /\ worker' = [worker EXCEPT ![turn] = [Fresh EXCEPT !.proc = "dead"]]
          /\ stray' = stray \ {turn}
    /\ next' = next + 1
    /\ pc' = "closing"
    /\ UNCHANGED <<turn, ready, done, following, out, book, tried>>
-----------------------------------------------------------------------------
(* The parent: waiting, and one round over the workers.                    *)

\* Mutant: wait() without a timeout.
WaitForever ==
    /\ pc = "wait"
    /\ \E w \in Busy : Readable(w)
    /\ ready' = {w \in Busy : Readable(w)}
    /\ pc' = "round" /\ turn' = 1
    /\ UNCHANGED <<next, done, following, out, book, worker, stray, tried>>

\* min() needs a busy worker; wait() returns when one is readable or the
\* nearest deadline has passed.
WaitReturns ==
    /\ pc = "wait"
    /\ \E w \in Busy : Readable(w) \/ late[w]
    /\ ready' = {w \in Busy : Readable(w)}
    /\ pc' = "round" /\ turn' = 1
    /\ UNCHANGED <<next, done, following, out, book, worker, stray, tried>>

Visiting == pc = "round" /\ holder[turn] # None

PassBy ==
    /\ pc = "round"
    /\ holder[turn] = None \/ (turn \notin ready /\ ~late[turn])
    /\ NextTurn("deliver")
    /\ UNCHANGED <<batch, book, worker, stray, tried>>

Settle(outcome) ==
    /\ done' = [done EXCEPT ![holder[turn]] = outcome]
    /\ holder' = [holder EXCEPT ![turn] = None]
    /\ pc' = "hand"
    /\ UNCHANGED <<turn, ready, next, following, out, late, tried>>

TakeAnswer ==
    /\ Visiting /\ turn \in ready
    /\ LET a == worker[turn].answer IN
          /\ a # Nothing
          /\ Settle([a EXCEPT !.kind = IF a.kind = "raised" THEN "failed" ELSE a.kind])
    /\ worker' = [worker EXCEPT ![turn].answer = Nothing]
    /\ UNCHANGED stray

Crashed == turn \in ready /\ worker[turn].answer = Nothing
\* Mutant: the deadline comes before the answer.
OverranFirst == late[turn]

Overran == turn \notin ready /\ late[turn]

\* Mutant: the slot is freed and no verdict recorded.
SettleLostUnrecorded(why) ==
    /\ holder' = [holder EXCEPT ![turn] = None]
    /\ pc' = "hand"
    /\ worker' = [worker EXCEPT ![turn] = Fresh]
    /\ stray' = stray \cup {turn}
    /\ UNCHANGED <<turn, batch, late, tried>>

\* Mutant: the replacement inherits the old pipe, and an answer in it.
SettleLostSamePipe(why) ==
    /\ Settle([of |-> holder[turn], kind |-> why])
    /\ worker' = [worker EXCEPT ![turn] = [Fresh EXCEPT !.answer = worker[turn].answer]]
    /\ stray' = stray \cup {turn}

\* The replacement is not in `workers' until _assign returns.
SettleLost(why) ==
    /\ Settle([of |-> holder[turn], kind |-> why])
    /\ worker' = [worker EXCEPT ![turn] = Fresh]
    /\ stray' = stray \cup {turn}

\* Mutant: the replacement is sent the file that killed its predecessor.
FindCrashedRetries ==
    /\ Visiting /\ Crashed
    /\ worker' = [worker EXCEPT ![turn] = [Fresh EXCEPT !.task = holder[turn]]]
    /\ NextTurn("deliver")
    /\ UNCHANGED <<batch, book, stray, tried>>

FindCrashed == Visiting /\ Crashed /\ SettleLost("crashed")

\* An answer that arrived after the snapshot is killed with the worker.
GiveUpLate == Visiting /\ Overran /\ SettleLost("overran")

\* The verdict is recorded only after the replacement, so it is lost here.
ReplaceFails ==
    /\ Visiting /\ (Crashed \/ Overran)
    /\ ReplaceRaises
    /\ pc' = "closing"
    /\ UNCHANGED <<turn, batch, book, tried>>

\* recv() catches the end of the pipe and no other exception.
RecvFails ==
    /\ Visiting /\ turn \in ready /\ "unpickle" \in Faults
    /\ worker[turn].answer # Nothing /\ worker[turn].answer.kind = "raised"
    /\ worker' = [worker EXCEPT ![turn].answer = Nothing]
    /\ pc' = "closing"
    /\ UNCHANGED <<turn, batch, book, stray, tried>>
-----------------------------------------------------------------------------
(* The parent: handing out, and the end.                                   *)

\* Mutant: the file is taken without looking whether it is done.
SettledUnchecked == following <= N

Settled == following <= N /\ done[following] # Nothing

\* Mutant: results are handed out as they come.
DeliverUnordered ==
    /\ pc = "deliver"
    /\ \E f \in Files : /\ done[f] # Nothing
                        /\ out' = Append(out, done[f])
                        /\ done' = [done EXCEPT ![f] = Nothing]
    /\ pc' = "yield"
    /\ UNCHANGED <<turn, ready, next, following, book, worker, stray, tried>>

Deliver ==
    /\ pc = "deliver" /\ Settled
    /\ out' = Append(out, done[following])
    /\ done' = [done EXCEPT ![following] = Nothing]
    /\ pc' = "yield"
    /\ UNCHANGED <<turn, ready, next, following, book, worker, stray, tried>>

\* The caller asks for the next analysis.
Resume ==
    /\ pc = "yield"
    /\ following' = following + 1
    /\ pc' = "deliver"
    /\ UNCHANGED <<turn, ready, next, done, out, book, worker, stray, tried>>

\* Mutant: an off-by-one in the loop's test.
LoopTestOnceMore ==
    /\ pc = "deliver" /\ ~Settled
    /\ pc' = IF following <= N + 1 THEN "wait" ELSE "closing"
    /\ UNCHANGED <<turn, batch, book, worker, stray, tried>>

\* Mutant: an off-by-one that leaves the last file behind.
LoopTestEarly ==
    /\ pc = "deliver" /\ ~Settled
    /\ pc' = IF following < N THEN "wait" ELSE "closing"
    /\ UNCHANGED <<turn, batch, book, worker, stray, tried>>

LoopTest ==
    /\ pc = "deliver" /\ ~Settled
    /\ pc' = IF following <= N THEN "wait" ELSE "closing"
    /\ UNCHANGED <<turn, batch, book, worker, stray, tried>>

CloseEarly ==
    /\ pc = "yield" /\ "close" \in Faults
    /\ pc' = "closing"
    /\ UNCHANGED <<turn, batch, book, worker, stray, tried>>

Interrupt ==
    /\ Open /\ "interrupt" \in Faults
    /\ pc' = IF pc = "start" THEN "ended" ELSE "closing"
    /\ UNCHANGED <<turn, batch, book, worker, stray, tried>>

SendNone ==
    /\ pc = "closing"
    /\ worker' = [w \in Slots |-> IF w \in stray THEN worker[w]
                                  ELSE [worker[w] EXCEPT !.bye = TRUE]]
    /\ pc' = "reap" /\ turn' = 1
    /\ UNCHANGED <<batch, book, stray, tried>>

\* Mutant: a busy worker is joined for a while and not killed.
ReapJoinsOnly ==
    /\ pc = "reap"
    /\ worker' = IF turn \in stray \/ worker[turn].work # None THEN worker
                 ELSE [worker EXCEPT ![turn] = Remains(turn, "dead")]
    /\ NextTurn("ended")
    /\ UNCHANGED <<batch, book, stray, tried>>

\* Mutant: join() without a limit.
ReapJoinsForever ==
    /\ pc = "reap"
    /\ turn \in stray \/ ~Alive(turn)
    /\ NextTurn("ended")
    /\ UNCHANGED <<batch, book, worker, stray, tried>>

\* join() for what is left of SHUTDOWN_SECONDS, then kill().
Reap ==
    /\ pc = "reap"
    /\ worker' = IF turn \in stray THEN worker
                 ELSE [worker EXCEPT ![turn] = Remains(turn, "dead")]
    /\ NextTurn("ended")
    /\ UNCHANGED <<batch, book, stray, tried>>

\* A second Ctrl-C drops the list of workers; those not yet reaped are only
\* ended by the end of their pipe or of their parent.
InterruptAgain ==
    /\ pc \in {"closing", "reap"} /\ "interrupt" \in Faults
    /\ pc' = "abandoned"
    /\ UNCHANGED <<turn, batch, book, worker, stray, tried>>

ParentDies ==
    /\ pc \notin {"ended", "gone"} /\ "parent" \in Faults
    /\ pc' = "gone"
    /\ UNCHANGED <<turn, batch, book, worker, stray, tried>>
-----------------------------------------------------------------------------
(* The workers, the clock and the operating system.                        *)

elsewhere == <<pc, turn, batch, book, stray>>

Idle(w) == Alive(w) /\ worker[w].work = None

Take(w) ==
    /\ Idle(w) /\ worker[w].task # None
    /\ worker' = [worker EXCEPT ![w].task = None, ![w].work = worker[w].task]
    /\ tried' = tried \cup {worker[w].task}
    /\ UNCHANGED elsewhere

Answer(w, kind) ==
    /\ Alive(w) /\ worker[w].work # None
    /\ worker' = [worker EXCEPT ![w].work = None,
                                ![w].answer = [of |-> worker[w].work, kind |-> kind]]
    /\ UNCHANGED <<elsewhere, tried>>

Exit(w, how) ==
    /\ worker' = [worker EXCEPT ![w] = Remains(w, how)]
    /\ UNCHANGED <<elsewhere, tried>>

\* The worker reads None after any task sent before it.
Leave(w) == Idle(w) /\ worker[w].task = None /\ worker[w].bye /\ Exit(w, "dead")

\* Mutant: the worker does not watch its parent's sentinel.
OrphanedByPipe(w) ==
    /\ Idle(w) /\ worker[w].task = None
    /\ pc = "abandoned" \/ (pc = "ended" /\ w \in stray)
    /\ Exit(w, "dead")

\* No task is waiting, and the parent's sentinel or the end of the pipe is.
Orphaned(w) ==
    /\ Idle(w) /\ worker[w].task = None
    /\ pc \in {"gone", "abandoned"} \/ (pc = "ended" /\ w \in stray)
    /\ Exit(w, "dead")

Die(w) == Alive(w) /\ "die" \in Faults /\ Exit(w, "dead")

Expire(w) ==
    /\ holder[w] # None /\ ~late[w]
    /\ late' = [late EXCEPT ![w] = TRUE]
    /\ UNCHANGED <<pc, turn, batch, holder, worker, stray, tried>>

\* The alarm is set at least a second past the deadline.  By then a prompt
\* parent has acted, unless it is held at a yield, shutting down or gone; one
\* that is slow to start a replacement may not have.
Alarm(w) ==
    /\ HasAlarm /\ Alive(w) /\ worker[w].work # None /\ late[w]
    /\ Prompt => pc \in {"yield", "closing", "reap", "ended", "abandoned", "gone"}
    /\ Exit(w, "alarmed")

Terminated == pc \in {"ended", "abandoned", "gone"} /\ UNCHANGED vars
-----------------------------------------------------------------------------
Parent ==
    \/ StartWorker \/ NothingToHand \/ SendTask \/ ReplaceAndSend
    \/ WaitReturns \/ PassBy \/ TakeAnswer \/ FindCrashed \/ GiveUpLate
    \/ Deliver \/ Resume \/ LoopTest \/ SendNone \/ Reap

Failure ==
    \/ StartFails \/ HandFails \/ ReplaceFails \/ RecvFails
    \/ CloseEarly \/ Interrupt \/ InterruptAgain \/ ParentDies

WorkerStep(w) ==
    \/ Take(w) \/ Leave(w) \/ Orphaned(w) \/ Die(w) \/ Expire(w) \/ Alarm(w)
    \/ \E kind \in {"report", "raised"} : Answer(w, kind)

Next == Parent \/ Failure \/ Terminated \/ \E w \in Slots : WorkerStep(w)

Spec == Init /\ [][Next]_vars

\* The parent is scheduled and its caller keeps asking; clocks advance.  A
\* worker owes nothing: it may hang for ever.
Live == Spec /\ WF_vars(Parent) /\ \A w \in Slots : WF_vars(Expire(w))

\* The system acts as well: the worker's own loop, the clock and the alarm,
\* which is all that acts once the parent is gone.  The analysis inside a
\* worker may still hang.
OrphanLive ==
    /\ Live
    /\ \A w \in Slots : WF_vars(Take(w)) /\ WF_vars(Orphaned(w)) /\ WF_vars(Alarm(w))
-----------------------------------------------------------------------------
(* Properties.                                                             *)

ControlOK ==
    /\ pc \in {"start", "assign", "wait", "round", "hand", "deliver", "yield",
               "closing", "reap", "ended", "abandoned", "gone"}
    /\ turn \in Slots /\ ready \subseteq Slots /\ stray \subseteq Slots

BatchOK ==
    /\ next \in 1 .. N + 1 /\ following \in Nat \ {0}
    /\ done \in [Files -> Outcome \cup {Nothing}]
    /\ out \in Seq(Outcome)
    /\ holder \in [Slots -> Files \cup {None}]
    /\ late \in [Slots -> BOOLEAN]
    /\ tried \subseteq Files

WorkersOK == worker \in [Slots -> WorkerStates]

TypeOK == ControlOK /\ BatchOK /\ WorkersOK

\* While the batch runs every file is in exactly one place: in the queue,
\* with one worker, in `done', or handed out.  No crash, late answer or
\* replacement loses a file or settles it twice.
Accounted ==
    Open => \A f \in Files :
        /\ f >= next \/ (\E w \in Slots : holder[w] = f) \/ done[f] # Nothing
                     \/ f <= Len(out)
        /\ f >= next => done[f] = Nothing /\ f > Len(out)
        /\ f <= Len(out) => done[f] = Nothing
        /\ \A w \in Slots : holder[w] = f =>
              /\ f < next /\ done[f] = Nothing /\ f > Len(out)
              /\ \A v \in Slots : holder[v] = f => v = w

\* The caller receives the analyses in the order of its paths, each about
\* its own file: an answer sent by a replaced worker is never taken for the
\* file its slot holds now.
Attribution == \A i \in 1 .. Len(out) : out[i].of = i

\* Whenever the parent waits, a worker holds the very file it must hand out
\* next: `done' grows behind that file for no longer than its deadline, and
\* min() over the busy workers at pool.py:55 is never asked of an empty list.
HeadInWork == pc = "wait" => \E w \in Slots : holder[w] = following

\* The generator leaves its loop with files missing only when something
\* failed, or its caller or the user stopped it.  (An interrupt may strike
\* anywhere, so this says most where "interrupt" \notin Faults.)
GivesUpOnFailure ==
    [][(Open /\ ~Open' /\ Len(out) < N) => Failure]_vars

\* The parent does not sleep while a slot is free and a file is queued.
NoIdleSlot == pc = "wait" => (next > N \/ Busy = Slots)

\* A file is begun by one worker at most: what crashed or overran once is
\* not tried again on the replacement, whichever of the two sends failed.
AtMostOnce ==
    \A w \in Slots :
        worker[w].task # None =>
            /\ worker[w].task \notin tried
            /\ \A v \in Slots \ {w} : worker[v].task # worker[w].task

\* When the generator is over, every process it listed is gone.  A process
\* survives it only if start-up or a replacement raised, which a complete
\* batch never did.
LeavesNoProcess ==
    pc = "ended" => \A w \in Slots : Alive(w) => (w \in stray /\ Len(out) < N)

\* A slot is blamed for its file only on evidence: a crash when its process
\* is gone and left no answer, an overrun when its deadline has passed and there
\* was nothing to read when `wait' returned.  So an answer that was in the pipe
\* by then is recorded, though its deadline pass before its turn in the round.
\* One that comes later than `wait' returned is not safe: it is lost with its
\* worker if the deadline passes before its turn, even if it came in time
\* (pool.py:57, 70-72).
BlamedOnEvidence ==
    \A w \in Slots :
        LET f == holder[w] IN
        (f # None /\ holder'[w] = None) =>
            CASE done'[f].kind = "crashed" -> Dead(w) /\ worker[w].answer = Nothing
              [] done'[f].kind = "overran" -> late[w] /\ w \notin ready
              [] OTHER -> worker[w].answer.of = f

Earned == [][BlamedOnEvidence]_vars

\* The pool keeps the promise of Batch.
VerdictOf(f) ==
    IF f <= Len(out) THEN out[f].kind
    ELSE IF done[f] # Nothing THEN done[f].kind ELSE "pending"

Promise == INSTANCE Batch WITH verdict <- [f \in Files |-> VerdictOf(f)],
                               open <- Open

KeepsPromise == Promise!Spec

\* Every file is handed out, whatever the workers do, unless the generator
\* is stopped, which GivesUpOnFailure leaves to failures.
BatchCompletes == <>(Len(out) = N \/ ~Open)

\* Once the batch is closing, for whatever reason, it ends: no hung worker,
\* second Ctrl-C or process that could not be replaced holds the parent back.
ShutdownEnds == (pc \in {"closing", "reap"}) ~> (pc \in {"ended", "abandoned", "gone"})

\* A worker does not outlive a parent that is gone or has dropped it, even in
\* an analysis that never returns: the sentinel or the end of its pipe ends
\* an idle one and the alarm a busy one.
OrphansEnd == (pc \in {"ended", "abandoned", "gone"}) ~> (\A w \in Slots : ~Alive(w))

\* The comment of _limit_time: the alarm only ends a worker whose parent is
\* gone.
AlarmOnlyOrphans == \A w \in Slots : worker[w].proc = "alarmed" => pc = "gone"
=============================================================================
