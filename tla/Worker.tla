------------------------------- MODULE Worker --------------------------------
(***************************************************************************)
(* What one worker process does with its tasks: `_work' of                 *)
(* src/eous/pool.py with `_limit_memory', `_limit_time' and the Windows    *)
(* job object of _jobs.py.  Pool sees the same worker from outside, as     *)
(* Take, Answer, Leave, Orphaned, Die and Alarm.                           *)
(*                                                                         *)
(* Memory is counted in units and time in half seconds, so that the        *)
(* rounding of the alarm to whole seconds shows.                           *)
(***************************************************************************)
EXTENDS Integers, Sequences

CONSTANTS
    Platforms,  \* among "linux", "windows", "macos"
    Hards,      \* hard limits on memory a worker may inherit
    Start,      \* what a fresh worker holds
    Memory,     \* bound: what the machine has
    Budgets,    \* MEMORY_BASE + MEMORY_PER_BYTE * size
    Times,      \* TIME_BASE + TIME_PER_BYTE * size, in half seconds
    MaxTasks    \* bound: files sent to this worker

Infinity == -1    \* RLIM_INFINITY, also as seen from Python

ASSUME WorkerAssumption ==
    /\ Platforms \subseteq {"linux", "windows", "macos"}
    /\ Start \in Nat /\ Memory \in Nat /\ MaxTasks \in Nat
    /\ Hards \subseteq {Infinity} \cup {h \in Nat : Start <= h}
    /\ Budgets \subseteq Nat \ {0} /\ Times \subseteq Nat \ {0}

Idle == [budget |-> 0, seconds |-> 0]
Tasks == [budget : Budgets, seconds : Times]

VARIABLES
    platform,  \* sys.platform
    most,      \* the hard limit the worker inherited
    pc,        \* where `_work' stands
    task,      \* the task in hand, or Idle
    held,      \* memory the process holds
    hard,      \* RLIMIT_AS, hard
    limit,     \* RLIMIT_AS, soft, or the limit of the job object
    job,       \* _jobs._job exists
    alarm,     \* half seconds until SIGALRM, 0 when none is set
    pipe,      \* what the parent sent: "empty", "task", "none" or "closed"
    sent,      \* tasks sent
    answers,   \* answers sent
    base,      \* history: what the worker held when its limit was set
    spent,     \* history: half seconds since the alarm of the task was set
    wanted,    \* history: memory on top of base denied to this task, or 0
    ended      \* why the process is gone, or "no"

memory == <<held, hard, limit, job>>
parent == <<pipe, sent>>
history == <<base, spent, wanted>>
vars == <<platform, most, pc, task, memory, alarm, parent, answers, history, ended>>

Init ==
    /\ platform \in Platforms
    /\ most \in IF platform = "linux" THEN Hards ELSE {Infinity}
    /\ pc = "begin" /\ task = Idle
    /\ held = Start /\ hard = most /\ limit = most /\ job = FALSE
    /\ alarm = 0 /\ pipe = "empty" /\ sent = 0 /\ answers = 0
    /\ base = Start /\ spent = 0 /\ wanted = 0 /\ ended = "no"

Running == ended = "no"
At(place) == Running /\ pc = place
Fits(amount) == limit = Infinity \/ amount <= limit

Exit(why) ==
    /\ ended' = why
    /\ UNCHANGED <<platform, most, pc, task, memory, alarm, parent, answers, history>>
-----------------------------------------------------------------------------
(* The parent, as Pool describes it: one task at a time.                   *)

SendTask ==
    /\ Running /\ pipe = "empty" /\ sent = answers /\ sent < MaxTasks
    /\ pipe' = "task" /\ sent' = sent + 1
    /\ UNCHANGED <<platform, most, pc, task, memory, alarm, answers, history, ended>>

\* It sends None when it closes.  It may be gone, and a sibling may keep its
\* end of the pipe open: the sentinel then says so.
SendLast ==
    /\ Running /\ pipe = "empty"
    /\ pipe' \in {"none", "closed"}
    /\ UNCHANGED <<platform, most, pc, task, memory, alarm, sent, answers, history, ended>>

\* terminate() and kill(), or the system.
Killed == Running /\ Exit("killed")
-----------------------------------------------------------------------------
(* Between two files.                                                      *)

IgnoreInterrupt ==
    /\ At("begin")
    /\ pc' = "wait"
    /\ UNCHANGED <<platform, most, task, memory, alarm, parent, answers, history, ended>>

Receive ==
    /\ At("wait") /\ pipe = "task"
    /\ \E t \in Tasks : task' = t
    /\ pipe' = "empty" /\ pc' = "memory"
    /\ UNCHANGED <<platform, most, memory, alarm, sent, answers, history, ended>>

Leave == At("wait") /\ pipe \in {"none", "closed"} /\ Exit("left")

\* Nothing catches what is raised outside the analysis: an interrupt before it
\* is ignored, no memory left for a message, a system call that fails, an
\* answer nobody reads.
Fails == Running /\ pc \in {"begin", "wait", "memory", "send"} /\ Exit("failed")
-----------------------------------------------------------------------------
(* Limits.                                                                 *)

\* Mutant: the budget alone.
SoftAbsolute(budget) ==
    IF hard # Infinity /\ budget > hard THEN hard ELSE budget

\* Mutant: not cut to the hard limit.
SoftUncut(budget) == held + budget

Soft(budget) ==
    IF hard # Infinity /\ held + budget > hard THEN hard ELSE held + budget

LimitMemoryLinux ==
    /\ platform = "linux"
    /\ limit' = Soft(task.budget)
    /\ UNCHANGED <<hard, job>>

\* Mutant: the limits are set where the job is created.
LimitMemoryWindowsOnce ==
    /\ platform = "windows"
    /\ limit' = IF job THEN limit ELSE held + task.budget
    /\ job' = TRUE
    /\ UNCHANGED hard

\* One job for the life of the worker, its limit set anew for each file.
LimitMemoryWindows ==
    /\ platform = "windows"
    /\ limit' = held + task.budget
    /\ job' = TRUE
    /\ UNCHANGED hard

\* macOS enforces no limit.
LimitMemory ==
    /\ At("memory")
    /\ \/ LimitMemoryLinux
       \/ LimitMemoryWindows
       \/ platform = "macos" /\ UNCHANGED <<limit, hard, job>>
    /\ base' = held
    /\ pc' = "time"
    /\ UNCHANGED <<platform, most, task, held, alarm, parent, answers, spent, wanted, ended>>

\* ceil(seconds) + 1
AlarmFor(seconds) == 2 * ((seconds + 1) \div 2 + 1)

LimitTime ==
    /\ At("time")
    /\ alarm' = IF platform = "windows" THEN 0 ELSE AlarmFor(task.seconds)
    /\ spent' = 0
    /\ pc' = "analyse"
    /\ UNCHANGED <<platform, most, task, memory, parent, answers, base, wanted, ended>>

Tick ==
    /\ Running /\ alarm > 0
    /\ alarm' = alarm - 1 /\ spent' = spent + 1
    /\ ended' = IF alarm = 1 THEN "alarmed" ELSE ended
    /\ UNCHANGED <<platform, most, pc, task, memory, parent, answers, base, wanted>>
-----------------------------------------------------------------------------
(* The analysis and its answer.                                            *)

Allocate ==
    /\ At("analyse") /\ held < Memory /\ Fits(held + 1)
    /\ held' = held + 1
    /\ UNCHANGED <<platform, most, pc, task, hard, limit, job, alarm, parent, answers,
                   history, ended>>

\* MemoryError: report.analyse words it, and what it does not catch is
\* caught by `_work'.
Denied ==
    /\ At("analyse") /\ \E more \in 1 .. Memory :
        /\ ~Fits(held + more)
        /\ wanted' = held + more - base
    /\ pc' = "clear"
    /\ UNCHANGED <<platform, most, task, memory, alarm, parent, answers, base, spent, ended>>

\* Mutant: an exception is swallowed.
FinishSilently ==
    /\ At("analyse")
    /\ pc' = "wait" /\ alarm' = 0 /\ task' = Idle
    /\ UNCHANGED <<platform, most, memory, parent, answers, history, ended>>

\* It returns or raises.  Some of what it allocated may stay with the process.
Finish ==
    /\ At("analyse")
    /\ \E rest \in Start .. held : held' = rest
    /\ pc' = "clear"
    /\ UNCHANGED <<platform, most, task, hard, limit, job, alarm, parent, answers,
                   history, ended>>

\* A panic of the native code is not an Exception.
Panic == At("analyse") /\ Exit("failed")

\* Mutant: the alarm of the file is left set.
ClearForgotten ==
    /\ At("clear")
    /\ pc' = "send"
    /\ UNCHANGED <<platform, most, task, memory, alarm, parent, answers, history, ended>>

Clear ==
    /\ At("clear")
    /\ alarm' = 0
    /\ pc' = "send"
    /\ UNCHANGED <<platform, most, task, memory, parent, answers, history, ended>>

Answer ==
    /\ At("send")
    /\ answers' = answers + 1
    /\ task' = Idle /\ pc' = "wait" /\ wanted' = 0
    /\ UNCHANGED <<platform, most, memory, alarm, parent, base, spent, ended>>

Terminated == ~Running /\ UNCHANGED vars
-----------------------------------------------------------------------------
Next ==
    \/ SendTask \/ SendLast \/ Killed
    \/ IgnoreInterrupt \/ Receive \/ Leave \/ Fails
    \/ LimitMemory \/ LimitTime \/ Tick
    \/ Allocate \/ Denied \/ Finish \/ Panic \/ Clear \/ Answer
    \/ Terminated

Spec == Init /\ [][Next]_vars
-----------------------------------------------------------------------------
(* Properties.                                                             *)

Limits == {Infinity} \cup Nat

TypeOK ==
    /\ platform \in Platforms /\ most \in Limits
    /\ pc \in {"begin", "wait", "memory", "time", "analyse", "clear", "send"}
    /\ task \in Tasks \cup {Idle}
    /\ held \in Nat /\ hard \in Limits /\ limit \in Limits /\ job \in BOOLEAN
    /\ hard # Infinity => limit \in 0 .. hard   \* or setrlimit raises
    /\ alarm \in Nat /\ sent \in Nat /\ answers \in Nat
    /\ pipe \in {"empty", "task", "none", "closed"}
    /\ base \in Nat /\ spent \in Nat /\ wanted \in Nat
    /\ ended \in {"no", "left", "failed", "killed", "alarmed"}

\* SIGALRM only ends a worker at least a second past the time its file was
\* given, never between two files and never for the file before: what the
\* parent, which enforces that time itself, builds on (pool.py:160-165).
AlarmFitsTask ==
    ended = "alarmed" => task # Idle /\ spent >= task.seconds + 2

\* A file is denied memory only if it wants more than its own budget on top
\* of what the worker already held, whatever earlier files left behind, or
\* more than the hard limit the worker was born with (pool.py:176-188).
NotStarved ==
    wanted # 0 => \/ wanted > task.budget
                  \/ most # Infinity /\ base + wanted > most

\* Where a limit is enforced, a file never makes the worker grow by more than
\* the budget of that file, whatever limit an earlier file was given.
WithinBudget ==
    (platform # "macos" /\ pc \in {"analyse", "clear", "send"}) =>
        held <= base + task.budget

\* A worker that is not gone answers every task once and in turn: what the
\* parent's one question at a time builds on (pool.py:161-166).
OneAnswerEach ==
    sent = answers + (IF pipe = "task" \/ task # Idle THEN 1 ELSE 0)
=============================================================================
