---------------------------- MODULE WorkerProofs -----------------------------
(***************************************************************************)
(* Proofs about Worker, for any limits, budgets and times.  The inductive  *)
(* invariant says what the limit and the alarm are at each place of        *)
(* `_work': both belong to the task in hand.                               *)
(***************************************************************************)
EXTENDS Worker, TLAPS

Busy == {"memory", "time", "analyse", "clear", "send"}
Limited == {"time", "analyse", "clear", "send"}

\* A task is in hand exactly between its receipt and its answer.
InHand ==
    /\ (pc \in Busy) = (task \in Tasks) /\ (pc \notin Busy) = (task = Idle)
    /\ pipe = "task" => task = Idle

\* The hard limit is never lowered, and only Linux has one.
HardKept == hard = most /\ (platform # "linux" => most = Infinity)

\* While the alarm is set, what is left of it reaches a second past the time
\* of the task in hand.
Armed ==
    /\ pc \notin {"analyse", "clear"} => alarm = 0
    /\ alarm > 0 => alarm + spent >= task.seconds + 2
    /\ AlarmFitsTask

\* The limit is that of the task in hand, counted from what was held then.
LimitFits ==
    /\ platform = "macos" => limit = Infinity
    /\ (pc \in Limited /\ platform # "macos") =>
           /\ limit # Infinity /\ limit <= base + task.budget
           /\ \/ limit = base + task.budget
              \/ most # Infinity /\ limit = most
           /\ held <= base + task.budget
    /\ pc \in {"time", "analyse"} => base <= held
    /\ pc \notin {"clear", "send"} => wanted = 0
    /\ NotStarved

WInv == TypeOK /\ InHand /\ HardKept /\ Armed /\ LimitFits /\ OneAnswerEach

\* A task is never mistaken for Idle: its budget is not 0.
LEMMA TasksReal ==
    /\ \A t \in Tasks : /\ t.budget \in Nat \ {0} /\ t.seconds \in Nat \ {0}
    /\ Idle \notin Tasks
BY WorkerAssumption DEF Tasks, Idle

\* The invariant holds of a fresh worker.
LEMMA WorkerInit == Init => WInv
<1> SUFFICES ASSUME Init PROVE WInv
    OBVIOUS
<1>1. /\ most \in Limits /\ (platform # "linux" => most = Infinity)
      /\ most # Infinity => Start <= most
    <2>1. \A h \in Hards : h = Infinity \/ (h \in Nat /\ Start <= h)
        BY WorkerAssumption
    <2>2. most \in Hards \/ most = Infinity
        BY DEF Init
    <2>3. platform # "linux" => most = Infinity
        BY DEF Init
    <2> QED  BY <2>1, <2>2, <2>3 DEF Limits
<1>2. TypeOK
    <2>1. hard # Infinity => limit \in 0 .. hard
        BY <1>1 DEF Init, Limits
    <2> QED
        BY <1>1, <2>1, WorkerAssumption DEF Init, TypeOK
<1> QED
    BY <1>1, <1>2, WorkerAssumption, TasksReal
       DEF Init, WInv, InHand, HardKept, Armed, AlarmFitsTask, LimitFits, NotStarved,
           OneAnswerEach, Busy, Limited

\* Steps that leave the worker's place, task, memory and alarm alone.
LEMMA ElsewhereStep ==
    ASSUME WInv, SendTask \/ SendLast \/ Killed \/ Leave \/ Fails \/ Panic
    PROVE WInv'
<1> USE DEF WInv, TypeOK, InHand, HardKept, Armed, AlarmFitsTask, LimitFits, NotStarved,
            OneAnswerEach, Limits, memory, history, parent, Running
<1>1. CASE SendTask  BY <1>1 DEF SendTask
<1>2. CASE SendLast  BY <1>2 DEF SendLast
<1>3. CASE Killed \/ Leave \/ Fails \/ Panic
    BY <1>3 DEF Killed, Leave, Fails, Panic, Exit, At
<1> QED  BY <1>1, <1>2, <1>3

\* Steps between two tasks, and the answer.
LEMMA BetweenStep ==
    ASSUME WInv, IgnoreInterrupt \/ Receive \/ Answer
    PROVE WInv'
<1> USE TasksReal
    DEF WInv, TypeOK, InHand, HardKept, Armed, AlarmFitsTask, LimitFits, NotStarved,
        OneAnswerEach, Limits, memory, history, parent, Running, At, Busy, Limited
<1>1. CASE IgnoreInterrupt  BY <1>1 DEF IgnoreInterrupt
<1>2. CASE Receive  BY <1>2 DEF Receive
<1>3. CASE Answer  BY <1>3 DEF Answer
<1> QED  BY <1>1, <1>2, <1>3

\* The limit set for a task is counted from what is held, or the hard limit.
LEMMA LimitMemoryStep == WInv /\ LimitMemory => WInv'
<1> SUFFICES ASSUME WInv, LimitMemory PROVE WInv'
    OBVIOUS
<1>0. task \in Tasks /\ pc = "memory" /\ pc' = "time" /\ task' = task
    BY DEF WInv, InHand, LimitMemory, At, Busy
<1>1. base' = held /\ held' = held /\ wanted' = 0 /\ held \in Nat /\ task.budget \in Nat
    BY <1>0, TasksReal DEF WInv, TypeOK, LimitMemory, LimitFits
<1>2. hard' = hard
    BY DEF LimitMemory, LimitMemoryLinux, LimitMemoryWindows
<1>3. /\ platform = "macos" => limit' = limit
      /\ platform # "macos" =>
            /\ limit' # Infinity /\ limit' \in Nat /\ limit' <= held + task.budget
            /\ \/ limit' = held + task.budget
               \/ hard # Infinity /\ limit' = hard
            /\ hard # Infinity => limit' <= hard
    <2>1. CASE platform = "macos"
        BY <2>1 DEF LimitMemory, LimitMemoryLinux, LimitMemoryWindows
    <2>2. CASE platform = "linux"
        <3>1. limit' = Soft(task.budget)
            BY <2>2 DEF LimitMemory, LimitMemoryLinux, LimitMemoryWindows
        <3> QED  BY <3>1, <1>1, <2>2 DEF Soft, WInv, TypeOK, Limits, Infinity
    <2>3. CASE platform = "windows"
        <3>1. limit' = held + task.budget /\ hard = Infinity
            BY <2>3 DEF LimitMemory, LimitMemoryLinux, LimitMemoryWindows, WInv, HardKept
        <3> QED  BY <3>1, <1>1, <2>3 DEF Infinity
    <2> QED  BY <2>1, <2>2, <2>3, WorkerAssumption DEF WInv, TypeOK
<1>4. TypeOK'
    <2>1. limit' \in Limits /\ (hard # Infinity => limit' \in 0 .. hard)
        BY <1>3 DEF WInv, TypeOK, Limits
    <2> QED
      BY <1>0, <1>1, <1>2, <2>1
         DEF WInv, TypeOK, LimitMemory, LimitMemoryLinux, LimitMemoryWindows, parent
<1>5. LimitFits' /\ HardKept'
    BY <1>0, <1>1, <1>2, <1>3 DEF WInv, HardKept, LimitFits, NotStarved, LimitMemory
<1>6. InHand' /\ Armed' /\ OneAnswerEach'
    BY <1>0, <1>1 DEF WInv, InHand, Armed, AlarmFitsTask, OneAnswerEach, LimitMemory, Busy,
                      parent
<1> QED  BY <1>4, <1>5, <1>6 DEF WInv

\* The alarm covers the time of its task and a second more.
LEMMA AlarmCovers ==
    ASSUME NEW s \in Nat \ {0}
    PROVE AlarmFor(s) \in Nat /\ AlarmFor(s) >= s + 2
BY DEF AlarmFor

\* Setting the alarm, its ticks, and clearing it.
LEMMA AlarmStep ==
    ASSUME WInv, LimitTime \/ Tick \/ Clear
    PROVE WInv'
<1>1. CASE LimitTime
    <2>1. task \in Tasks /\ task' = task /\ pc' = "analyse" /\ spent' = 0
        BY <1>1 DEF WInv, InHand, LimitTime, At, Busy
    <2>2. alarm' \in Nat /\ (alarm' > 0 => alarm' + spent' >= task.seconds + 2)
        BY <1>1, <2>1, TasksReal, AlarmCovers DEF LimitTime
    <2> QED
        BY <1>1, <2>1, <2>2
           DEF WInv, TypeOK, InHand, HardKept, Armed, AlarmFitsTask, LimitFits, NotStarved,
               OneAnswerEach, LimitTime, At, Running, Busy, Limited, Limits, memory, parent
<1>2. CASE Tick
    <2>1. task \in Tasks /\ task' = task /\ task.seconds \in Nat /\ task # Idle
        BY <1>2, TasksReal DEF WInv, InHand, Armed, Tick, Busy, TypeOK
    <2>2. Armed'
        BY <1>2, <2>1 DEF WInv, TypeOK, Armed, AlarmFitsTask, Tick, Running
    <2> QED
        BY <1>2, <2>1, <2>2
           DEF WInv, TypeOK, InHand, HardKept, LimitFits, NotStarved, OneAnswerEach, Tick,
               Running, Limits, memory, parent
<1>3. CASE Clear
    BY <1>3
       DEF WInv, TypeOK, InHand, HardKept, Armed, AlarmFitsTask, LimitFits, NotStarved,
           OneAnswerEach, Clear, At, Running, Busy, Limited, Limits, memory, parent, history
<1> QED  BY <1>1, <1>2, <1>3

\* Memory asked for, denied and given back by the analysis.
LEMMA AnalysisStep ==
    ASSUME WInv, Allocate \/ Denied \/ Finish
    PROVE WInv'
<1>0. /\ task \in Tasks /\ task.budget \in Nat /\ pc = "analyse"
      /\ held \in Nat /\ base \in Nat /\ base <= held
      /\ limit \in Limits
    BY TasksReal DEF WInv, TypeOK, InHand, LimitFits, Allocate, Denied, Finish, At, Busy
<1>1. CASE Allocate
    BY <1>0, <1>1
       DEF WInv, TypeOK, InHand, HardKept, Armed, AlarmFitsTask, LimitFits, NotStarved,
           OneAnswerEach, Allocate, Fits, Limits, Limited, parent, history
<1>2. CASE Denied
    <2>1. PICK more \in 1 .. Memory : ~Fits(held + more) /\ wanted' = held + more - base
        BY <1>2 DEF Denied
    <2>2. /\ limit # Infinity /\ held + more > limit /\ platform # "macos"
          /\ \/ limit = base + task.budget
             \/ most # Infinity /\ limit = most
          /\ more \in Nat
        BY <1>0, <2>1, WorkerAssumption DEF Fits, WInv, LimitFits, Limits, Limited
    <2>3. wanted' \in Nat /\ NotStarved' /\ pc' = "clear" /\ task' = task
        BY <1>0, <1>2, <2>1, <2>2 DEF Denied, NotStarved, Limits, WInv, TypeOK
    <2> QED
        BY <1>0, <1>2, <2>3
           DEF WInv, TypeOK, InHand, HardKept, Armed, AlarmFitsTask, LimitFits,
               OneAnswerEach, Denied, At, Running, Busy, Limited, Limits, memory, parent
<1>3. CASE Finish
    <2>1. held' \in Nat /\ held' <= held /\ pc' = "clear"
        BY <1>0, <1>3, WorkerAssumption DEF Finish
    <2> QED
        BY <1>0, <1>3, <2>1
           DEF WInv, TypeOK, InHand, HardKept, Armed, AlarmFitsTask, LimitFits, NotStarved,
               OneAnswerEach, Finish, At, Running, Busy, Limited, Limits, parent, history
<1> QED  BY <1>1, <1>2, <1>3

\* The inductive invariant.
THEOREM WorkerInvariance == Spec => []WInv
<1>1. WInv /\ [Next]_vars => WInv'
    <2> SUFFICES ASSUME WInv, [Next]_vars PROVE WInv'
        OBVIOUS
    <2>1. CASE UNCHANGED vars
        BY <2>1 DEF vars, memory, parent, history, WInv, TypeOK, InHand, HardKept, Armed,
                    AlarmFitsTask, LimitFits, NotStarved, OneAnswerEach
    <2>2. CASE Next
        BY <2>1, <2>2, ElsewhereStep, BetweenStep, LimitMemoryStep, AlarmStep, AnalysisStep
           DEF Next, Terminated
    <2> QED  BY <2>1, <2>2
<1> QED  BY WorkerInit, <1>1, PTL DEF Spec

\* The types of a worker's state (pool.py:143-192).
THEOREM WorkerTypes == Spec => []TypeOK
BY WorkerInvariance, PTL DEF WInv

\* The alarm ends a worker at least a second past the time of the file it has
\* in hand (pool.py:160-165).
THEOREM AlarmNeverStale == Spec => []AlarmFitsTask
BY WorkerInvariance, PTL DEF WInv, Armed

\* No file is denied memory within its own budget and the hard limit
\* (pool.py:179-186, _jobs.py:70-86).
THEOREM BudgetGranted == Spec => []NotStarved
BY WorkerInvariance, PTL DEF WInv, LimitFits

\* No file makes its worker grow past the budget of that file.
THEOREM BudgetEnforced == Spec => []WithinBudget
<1>1. WInv => WithinBudget
    BY DEF WInv, LimitFits, WithinBudget, Limited
<1> QED  BY <1>1, WorkerInvariance, PTL

\* A worker that is there answers each task once.
THEOREM AnswersOnce == Spec => []OneAnswerEach
BY WorkerInvariance, PTL DEF WInv
=============================================================================
