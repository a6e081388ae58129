----------------------------- MODULE PoolProofs ------------------------------
(***************************************************************************)
(* Proofs about the worker pool, for every number of files and workers and *)
(* every combination of faults.                                            *)
(***************************************************************************)
EXTENDS Pool, TLAPS

\* A slot's pipe only ever carries the file the slot holds, in one form.
Carries(r, held) ==
    /\ r.task # None => r.task = held /\ r.work = None
    /\ r.work # None => r.work = held
    /\ r.answer # Nothing => r.answer.of = held /\ r.task = None /\ r.work = None

PipesMatch == \A w \in Slots : Carries(worker[w], holder[w])

\* What is recorded or handed out is about the right file.
Ordered ==
    /\ Len(out) <= N
    /\ Attribution
    /\ \A f \in Files : done[f] # Nothing => done[f].of = f
    /\ Open => following = IF pc = "yield" THEN Len(out) ELSE Len(out) + 1

\* No two slots hold one file, and only files off the queue are held.
Holding ==
    /\ \A v, w \in Slots : holder[v] = holder[w] /\ holder[v] # None => v = w
    /\ \A w \in Slots : holder[w] < next

\* A file waiting in a pipe was not begun, nor any file still queued.
Untried ==
    /\ \A f \in tried : f < next
    /\ \A w \in Slots : worker[w].task # None => worker[w].task \notin tried

\* Where the loops of the parent stand: who has been handed a file.
Loops ==
    /\ pc \in {"start", "assign"} =>
          /\ next = IF pc = "start" THEN 1 ELSE turn
          /\ \A w \in Slots : w >= next => holder[w] = None
          /\ \A w \in Slots : w < next => holder[w] = w
          /\ out = <<>>
    /\ pc = "hand" => /\ holder[turn] = None
                      /\ next <= N => \A w \in Slots \ {turn} : holder[w] # None
    /\ pc \in {"wait", "round", "deliver", "yield"} /\ next <= N =>
          \A w \in Slots : holder[w] # None

\* The snapshot stays true for the slots the round has not visited.
Snapshot ==
    pc \in {"round", "hand"} =>
        \A w \in ready : (w > turn \/ (w = turn /\ pc = "round")) =>
            holder[w] # None /\ Readable(w)

\* Which processes the parent would leave behind.
Strays ==
    /\ stray # {} => Len(out) < N
    /\ pc \in {"wait", "round", "deliver", "yield"} => stray = {}
    /\ pc = "hand" => stray \subseteq {turn}
    /\ pc = "start" => \A w \in Slots : Alive(w) => w \in stray
    /\ pc = "reap" => \A w \in Slots : w < turn /\ Alive(w) => w \in stray
    /\ pc = "ended" => \A w \in Slots : Alive(w) => w \in stray

IInv ==
    /\ TypeOK /\ PipesMatch /\ Ordered /\ Holding /\ Untried /\ Loops
    /\ Snapshot /\ Strays /\ Accounted /\ HeadInWork
-----------------------------------------------------------------------------
(* Types.                                                                  *)

\* There is at least one slot, and no more slots than files.
LEMMA SlotFacts ==
    /\ S \in Nat /\ 1 <= S /\ S <= N
    /\ N \in Nat /\ 1 <= N
    /\ None \notin Files
BY PoolAssumption DEF S, Files, None

\* What a process can be left as is a state a process can be in.
LEMMA WorkerTypes ==
    /\ Fresh \in WorkerStates /\ Unstarted \in WorkerStates
    /\ \A a \in Answers \cup {Nothing} : \A how \in {"dead", "alarmed"} :
          [Fresh EXCEPT !.proc = how, !.answer = a] \in WorkerStates
    /\ \A f \in Files : [Fresh EXCEPT !.task = f] \in WorkerStates
    /\ [Fresh EXCEPT !.proc = "dead"] \in WorkerStates
BY DEF Fresh, Unstarted, WorkerStates

\* The pool starts well typed.
LEMMA TypeInit == Init => TypeOK
<1> SUFFICES ASSUME Init PROVE TypeOK
    OBVIOUS
<1>1. ControlOK
    BY SlotFacts DEF Init, ControlOK, Slots
<1>2. BatchOK
    BY SlotFacts DEF Init, BatchOK
<1>3. WorkersOK
    BY WorkerTypes DEF Init, WorkersOK
<1> QED
    BY <1>1, <1>2, <1>3 DEF TypeOK

\* A loop over the slots stays on a slot.
LEMMA NextTurnTypes ==
    ASSUME turn \in Slots, NEW after, NextTurn(after)
    PROVE  turn' \in Slots /\ pc' \in {pc, after}
BY SlotFacts DEF NextTurn, Slots

\* Handing out leaves the parent at a slot it has.
LEMMA HandedTypes ==
    ASSUME ControlOK, Assigning, NEW gone \in SUBSET {turn}, Handed(gone)
    PROVE  turn' \in Slots /\ stray' \subseteq Slots /\ pc' \in {pc, "wait", "round", "deliver"}
<1>1. turn' \in Slots /\ pc' \in {pc, "wait", "round", "deliver"}
    BY SlotFacts DEF ControlOK, Handed, Assigning, NextTurn, Slots
<1>2. stray' \subseteq Slots
    BY DEF ControlOK, Handed, Assigning
<1> QED
    BY <1>1, <1>2

\* Every step of the parent and of a worker keeps the parent's loop counters
\* and sets of slots in range.
LEMMA ControlStep == TypeOK /\ [Next]_vars => ControlOK'
<1> SUFFICES ASSUME ControlOK, BatchOK, WorkersOK, [Next]_vars PROVE ControlOK'
    BY DEF TypeOK
<1> USE DEF batch, book
<1>1. CASE StartWorker
    BY <1>1, NextTurnTypes DEF StartWorker, ControlOK
<1>2. CASE NothingToHand \/ SendTask \/ ReplaceAndSend
    <2>1. Assigning /\ ready' = ready /\ \E gone \in SUBSET {turn} : Handed(gone)
        BY <1>2 DEF NothingToHand, SendTask, ReplaceAndSend, Hold
    <2> QED
        BY <2>1, HandedTypes DEF ControlOK
<1>3. CASE WaitReturns
    BY <1>3, SlotFacts DEF WaitReturns, Busy, ControlOK, Slots
<1>4. CASE PassBy
    BY <1>4, NextTurnTypes DEF PassBy, ControlOK
<1>5. CASE TakeAnswer \/ FindCrashed \/ GiveUpLate
    BY <1>5 DEF TakeAnswer, FindCrashed, GiveUpLate, SettleLost, Settle, ControlOK
<1>6. CASE \/ Deliver \/ Resume \/ LoopTest
           \/ StartFails \/ CloseEarly \/ Interrupt \/ InterruptAgain \/ ParentDies
    BY <1>6 DEF Deliver, Resume, LoopTest, StartFails, CloseEarly, Interrupt, InterruptAgain,
                ParentDies, ControlOK
<1>7. CASE SendNone
    BY <1>7, SlotFacts DEF SendNone, ControlOK, Slots
<1>8. CASE Reap
    BY <1>8, NextTurnTypes DEF Reap, ControlOK
<1>9. CASE HandFails \/ ReplaceFails \/ RecvFails
    BY <1>9 DEF HandFails, ReplaceFails, RecvFails, ReplaceRaises, ControlOK
<1>10. CASE \E w \in Slots : WorkerStep(w)
    BY <1>10 DEF WorkerStep, Take, Answer, Leave, Orphaned, Die, Alarm, Expire, Exit,
                 elsewhere, ControlOK
<1>11. CASE UNCHANGED vars
    BY <1>11 DEF vars, ControlOK
<1> QED
    BY <1>1, <1>2, <1>3, <1>4, <1>5, <1>6, <1>7, <1>8, <1>9, <1>10, <1>11
       DEF Next, Parent, Failure, Terminated

\* Every step keeps the parent's record of the batch well formed.
LEMMA BatchStep == TypeOK /\ [Next]_vars => BatchOK'
<1> SUFFICES ASSUME ControlOK, BatchOK, WorkersOK, [Next]_vars PROVE BatchOK'
    BY DEF TypeOK
<1> USE DEF batch, book
<1>1. CASE SendTask \/ ReplaceAndSend
    <2>1. next <= N /\ Hold
        BY <1>1 DEF SendTask, ReplaceAndSend
    <2>2. next \in Files /\ next + 1 \in 1 .. N + 1 /\ turn \in Slots
        BY <2>1, SlotFacts DEF BatchOK, ControlOK, Files
    <2> QED
        BY <2>1, <2>2 DEF Hold, BatchOK
<1>2. CASE TakeAnswer \/ FindCrashed \/ GiveUpLate
    <2>1. Visiting /\ turn \in Slots /\ holder[turn] \in Files
        BY <1>2 DEF TakeAnswer, FindCrashed, GiveUpLate, Visiting, ControlOK, BatchOK
    <2>2. \E o \in Outcome : Settle(o)
        <3>1. CASE TakeAnswer
            BY <3>1, <2>1 DEF TakeAnswer, WorkersOK, WorkerStates, Answers, Outcome, Kinds
        <3>2. CASE FindCrashed
            BY <3>2, <2>1 DEF FindCrashed, SettleLost, Outcome, Kinds
        <3>3. CASE GiveUpLate
            BY <3>3, <2>1 DEF GiveUpLate, SettleLost, Outcome, Kinds
        <3> QED
            BY <1>2, <3>1, <3>2, <3>3
    <2> QED
        BY <2>1, <2>2 DEF Settle, BatchOK
<1>3. CASE Deliver
    <2>1. following \in Files /\ done[following] \in Outcome
        BY <1>3 DEF Deliver, Settled, BatchOK, Files
    <2> QED
        BY <1>3, <2>1 DEF Deliver, BatchOK
<1>4. CASE Resume
    BY <1>4 DEF Resume, BatchOK
<1>5. CASE HandFails
    BY <1>5, SlotFacts DEF HandFails, BatchOK
<1>6. CASE \/ StartWorker \/ NothingToHand \/ WaitReturns \/ PassBy \/ LoopTest \/ SendNone
           \/ Reap \/ StartFails \/ CloseEarly \/ Interrupt
           \/ InterruptAgain \/ ParentDies \/ ReplaceFails \/ RecvFails
    BY <1>6 DEF StartWorker, NothingToHand, WaitReturns, PassBy, LoopTest, SendNone, Reap,
                StartFails, CloseEarly, Interrupt, InterruptAgain, ParentDies, ReplaceFails,
                RecvFails, BatchOK
<1>7. ASSUME NEW w \in Slots, WorkerStep(w) PROVE BatchOK'
    <2>1. CASE Take(w)
        BY <2>1, <1>7 DEF Take, elsewhere, BatchOK, WorkersOK, WorkerStates
    <2>2. CASE Expire(w)
        BY <2>2, <1>7 DEF Expire, BatchOK
    <2> QED
        BY <1>7, <2>1, <2>2
           DEF WorkerStep, Answer, Leave, Orphaned, Die, Alarm, Exit, elsewhere, BatchOK
<1>8. CASE UNCHANGED vars
    BY <1>8 DEF vars, BatchOK
<1> QED
    BY <1>1, <1>2, <1>3, <1>4, <1>5, <1>6, <1>7, <1>8 DEF Next, Parent, Failure, Terminated

\* What is left of a process is well typed.
LEMMA RemainsType ==
    ASSUME WorkersOK, NEW w \in Slots, NEW how \in {"dead", "alarmed"}
    PROVE  Remains(w, how) \in WorkerStates
BY WorkerTypes DEF Remains, WorkersOK, WorkerStates

\* Every step leaves each process and its pipe in a state it can be in.
LEMMA WorkersStep == TypeOK /\ [Next]_vars => WorkersOK'
<1> SUFFICES ASSUME ControlOK, BatchOK, WorkersOK, [Next]_vars PROVE WorkersOK'
    BY DEF TypeOK
<1>1. turn \in Slots
    BY DEF ControlOK
<1>2. ASSUME NEW w \in Slots, NEW r \in WorkerStates, worker' = [worker EXCEPT ![w] = r]
      PROVE  WorkersOK'
    BY <1>2 DEF WorkersOK
<1>3. CASE StartWorker \/ FindCrashed \/ GiveUpLate
    <2>1. worker' = [worker EXCEPT ![turn] = Fresh]
        BY <1>3 DEF StartWorker, FindCrashed, GiveUpLate, SettleLost
    <2>2. Fresh \in WorkerStates
        BY WorkerTypes
    <2> QED
        BY <1>1, <1>2, <2>1, <2>2
<1>4. CASE SendTask
    <2>1. next \in Files
        BY <1>4, SlotFacts DEF SendTask, BatchOK, Files
    <2>2. [worker[turn] EXCEPT !.task = next] \in WorkerStates
        BY <2>1, <1>1 DEF WorkersOK, WorkerStates
    <2>3. worker' = [worker EXCEPT ![turn] = [worker[turn] EXCEPT !.task = next]]
        BY <1>4 DEF SendTask
    <2> QED
        BY <1>1, <1>2, <2>2, <2>3
<1>5. CASE ReplaceAndSend
    <2>1. next \in Files
        BY <1>5, SlotFacts DEF ReplaceAndSend, BatchOK, Files
    <2> QED
        BY <1>1, <1>2, <1>5, <2>1, WorkerTypes DEF ReplaceAndSend
<1>6. CASE TakeAnswer \/ RecvFails
    <2>1. [worker[turn] EXCEPT !.answer = Nothing] \in WorkerStates
        BY <1>1 DEF WorkersOK, WorkerStates
    <2>2. worker' = [worker EXCEPT ![turn] = [worker[turn] EXCEPT !.answer = Nothing]]
        BY <1>6 DEF TakeAnswer, RecvFails
    <2> QED
        BY <1>1, <1>2, <2>1, <2>2
<1>7. CASE SendNone
    <2>1. \A w \in Slots : [worker[w] EXCEPT !.bye = TRUE] \in WorkerStates
        BY DEF WorkersOK, WorkerStates
    <2> QED
        BY <1>7, <2>1 DEF SendNone, WorkersOK
<1>8. CASE Reap
    <2>1. CASE turn \in stray
        BY <1>8, <2>1 DEF Reap, WorkersOK
    <2>2. CASE turn \notin stray
        BY <1>1, <1>2, <1>8, <2>2, RemainsType DEF Reap
    <2> QED
        BY <2>1, <2>2
<1>9. CASE HandFails \/ ReplaceFails
    <2>1. \E r \in {Fresh, Remains(turn, "dead"), [Fresh EXCEPT !.proc = "dead"]} :
             worker' = [worker EXCEPT ![turn] = r]
        BY <1>9 DEF HandFails, ReplaceFails, ReplaceRaises
    <2>2. {Fresh, Remains(turn, "dead"), [Fresh EXCEPT !.proc = "dead"]} \subseteq WorkerStates
        BY <1>1, RemainsType, WorkerTypes
    <2> QED
        BY <1>1, <1>2, <2>1, <2>2
<1>10. CASE \/ NothingToHand \/ WaitReturns \/ PassBy \/ Deliver \/ Resume \/ LoopTest
            \/ StartFails \/ CloseEarly \/ Interrupt \/ InterruptAgain \/ ParentDies
    BY <1>10 DEF NothingToHand, WaitReturns, PassBy, Deliver, Resume, LoopTest,
                 StartFails, CloseEarly, Interrupt, InterruptAgain, ParentDies, WorkersOK
<1>11. ASSUME NEW w \in Slots, WorkerStep(w) PROVE WorkersOK'
    <2>1. CASE Take(w)
        <3> DEFINE r == [worker[w] EXCEPT !.task = None, !.work = worker[w].task]
        <3>1. r \in WorkerStates
            BY <1>11 DEF WorkersOK, WorkerStates
        <3>2. worker' = [worker EXCEPT ![w] = r]
            BY <2>1 DEF Take
        <3> QED
            BY <1>2, <1>11, <3>1, <3>2
    <2>2. ASSUME NEW kind \in {"report", "raised"}, Answer(w, kind) PROVE WorkersOK'
        <3> DEFINE a == [of |-> worker[w].work, kind |-> kind]
                   r == [worker[w] EXCEPT !.work = None, !.answer = a]
        <3>1. a \in Answers
            BY <1>11, <2>2 DEF Answer, WorkersOK, WorkerStates, Answers
        <3> HIDE DEF a
        <3>2. r \in WorkerStates
            BY <1>11, <3>1 DEF WorkersOK, WorkerStates
        <3>3. worker' = [worker EXCEPT ![w] = r]
            BY <2>2 DEF Answer, a
        <3> QED
            BY <1>2, <1>11, <3>2, <3>3
    <2>3. CASE Leave(w) \/ Orphaned(w) \/ Die(w) \/ Alarm(w)
        BY <1>2, <1>11, <2>3, RemainsType DEF Leave, Orphaned, Die, Alarm, Exit
    <2>4. CASE Expire(w)
        BY <2>4 DEF Expire, WorkersOK
    <2> QED
        BY <1>11, <2>1, <2>2, <2>3, <2>4 DEF WorkerStep
<1>12. CASE UNCHANGED vars
    BY <1>12 DEF vars, WorkersOK
<1> QED
    BY <1>3, <1>4, <1>5, <1>6, <1>7, <1>8, <1>9, <1>10, <1>11, <1>12
       DEF Next, Parent, Failure, Terminated

\* The pool's variables keep their types: Pool!TypeOK.
THEOREM TypeCorrect == Spec => []TypeOK
<1>1. TypeOK /\ [Next]_vars => TypeOK'
    BY ControlStep, BatchStep, WorkersStep DEF TypeOK
<1> QED
    BY <1>1, TypeInit, PTL DEF Spec
-----------------------------------------------------------------------------
(* The inductive invariant: it holds initially.                            *)

\* The invariant holds when analyse is called.
LEMMA InvInit == Init => IInv
<1> SUFFICES ASSUME Init PROVE IInv
    OBVIOUS
<1>1. TypeOK
    BY TypeInit
<1>2. PipesMatch /\ Holding /\ Untried
    BY SlotFacts DEF Init, PipesMatch, Holding, Untried, Carries, Unstarted, Fresh, None
<1>3. Ordered /\ Accounted
    BY SlotFacts DEF Init, Ordered, Attribution, Open, Accounted, Files, None
<1>4. Loops /\ Snapshot /\ HeadInWork
    BY SlotFacts DEF Init, Loops, Snapshot, HeadInWork, Slots
<1>5. Strays
    BY DEF Init, Strays, Alive, Unstarted, Fresh
<1> QED
    BY <1>1, <1>2, <1>3, <1>4, <1>5 DEF IInv

(* What the three ways of settling a file have in common.                  *)

Settling == TakeAnswer \/ FindCrashed \/ GiveUpLate

\* What settling a slot does to the record of the batch.
LEMMA SettlingFacts ==
    ASSUME TypeOK, PipesMatch, Settling
    PROVE  /\ pc = "round" /\ turn \in Slots /\ holder[turn] \in Files
           /\ \E o \in Outcome : o.of = holder[turn] /\ Settle(o)
<1>1. pc = "round" /\ turn \in Slots /\ holder[turn] \in Files
    BY DEF Settling, TakeAnswer, FindCrashed, GiveUpLate, Visiting, TypeOK, ControlOK, BatchOK
<1>2. CASE TakeAnswer
    <2> DEFINE a == worker[turn].answer
    <2>1. a \in Answers /\ a.of = holder[turn]
        BY <1>1, <1>2 DEF TakeAnswer, TypeOK, WorkersOK, WorkerStates, PipesMatch, Carries
    <2> QED
        BY <1>1, <1>2, <2>1 DEF TakeAnswer, Answers, Outcome, Kinds
<1>3. CASE FindCrashed
    BY <1>1, <1>3 DEF FindCrashed, SettleLost, Outcome, Kinds
<1>4. CASE GiveUpLate
    BY <1>1, <1>4 DEF GiveUpLate, SettleLost, Outcome, Kinds
<1> QED
    BY <1>1, <1>2, <1>3, <1>4 DEF Settling

(* The steps that neither hand, settle nor deliver a file.                 *)

Quiet ==
    \/ StartWorker \/ NothingToHand \/ WaitReturns \/ PassBy \/ LoopTest \/ SendNone \/ Reap
    \/ StartFails \/ CloseEarly \/ Interrupt \/ InterruptAgain \/ ParentDies
    \/ HandFails \/ ReplaceFails \/ RecvFails
    \/ Terminated \/ (\E w \in Slots : WorkerStep(w)) \/ UNCHANGED vars

\* A step settles a slot, hands a file out, hands one over, or leaves the record
\* of the batch as it is.
LEMMA NextKinds ==
    [Next]_vars <=> Settling \/ Quiet \/ SendTask \/ ReplaceAndSend \/ Deliver \/ Resume
BY DEF Next, Parent, Failure, Settling, Quiet

\* A quiet step settles, holds and hands out nothing; a failing one may have
\* taken a file off the queue, and then the generator is over.
LEMMA QuietFacts ==
    ASSUME Quiet
    PROVE  /\ done' = done /\ out' = out /\ following' = following /\ holder' = holder
           /\ next' = next \/ (HandFails /\ next' = next + 1 /\ next <= N)
           /\ pc' = pc \/ (pc # "yield" /\ pc' # "yield") \/ ~Open'
           /\ Open' => Open /\ next' = next
<1> USE DEF batch, book, Open
<1>1. CASE StartWorker \/ NothingToHand \/ WaitReturns \/ PassBy \/ LoopTest
    BY <1>1 DEF StartWorker, NothingToHand, WaitReturns, PassBy, LoopTest, NextTurn, Handed, Assigning
<1>2. CASE SendNone \/ Reap
    BY <1>2 DEF SendNone, Reap, NextTurn
<1>3. CASE \/ StartFails \/ CloseEarly \/ Interrupt \/ InterruptAgain \/ ParentDies
           \/ ReplaceFails \/ RecvFails
    BY <1>3 DEF StartFails, CloseEarly, Interrupt, InterruptAgain, ParentDies, ReplaceFails,
                RecvFails
<1>4. CASE HandFails
    BY <1>4 DEF HandFails
<1>5. CASE Terminated \/ UNCHANGED vars
    BY <1>5 DEF Terminated, vars
<1>6. CASE \E w \in Slots : WorkerStep(w)
    BY <1>6 DEF WorkerStep, Take, Answer, Leave, Orphaned, Die, Alarm, Expire, Exit, elsewhere
<1> QED
    BY <1>1, <1>2, <1>3, <1>4, <1>5, <1>6 DEF Quiet

\* Results come out in order and about the right file.
LEMMA OrderedStep == TypeOK /\ PipesMatch /\ Ordered /\ [Next]_vars => Ordered'
<1> SUFFICES ASSUME TypeOK, PipesMatch, Ordered, [Next]_vars PROVE Ordered'
    OBVIOUS
<1> USE DEF Ordered, Attribution
<1>1. CASE Settling
    BY <1>1, SettlingFacts DEF Settle, Open, TypeOK, BatchOK, batch, book
<1>2. CASE Deliver
    <2>1. following = Len(out) + 1 /\ following \in Files /\ done[following] # Nothing
        BY <1>2 DEF Deliver, Settled, Open, TypeOK, BatchOK, Files
    <2>2. done[following].of = following /\ done[following] \in Outcome
        BY <2>1 DEF TypeOK, BatchOK
    <2>3. out' = Append(out, done[following]) /\ out \in Seq(Outcome) /\ Len(out') = Len(out) + 1
        BY <1>2, <2>2 DEF Deliver, TypeOK, BatchOK
    <2>4. Len(out') <= N /\ Attribution'
        BY <2>1, <2>2, <2>3 DEF Files
    <2>5. \A f \in Files : done'[f] # Nothing => done'[f].of = f
        BY <1>2, <2>1 DEF Deliver, TypeOK, BatchOK
    <2>6. pc' = "yield" /\ following' = Len(out')
        BY <1>2, <2>1, <2>3 DEF Deliver
    <2> QED
        BY <2>4, <2>5, <2>6
<1>3. CASE Resume
    BY <1>3 DEF Resume, Open
<1>4. CASE SendTask \/ ReplaceAndSend
    BY <1>4 DEF SendTask, ReplaceAndSend, Hold, Handed, NextTurn, Assigning, Open
<1>5. CASE Quiet
    BY <1>5, QuietFacts DEF Open
<1> QED
    BY <1>1, <1>2, <1>3, <1>4, <1>5, NextKinds

\* A pipe that carries nothing agrees with any slot.
LEMMA CarriesFacts ==
    /\ \A held : Carries(Fresh, held) /\ Carries([Fresh EXCEPT !.proc = "dead"], held)
    /\ \A f \in Files : Carries([Fresh EXCEPT !.task = f], f)
    /\ \A r \in WorkerStates : Carries(r, None) =>
          /\ r.task = None /\ r.work = None /\ r.answer = Nothing
          /\ \A f \in Files : Carries([r EXCEPT !.task = f], f)
    /\ \A r \in WorkerStates : \A held : Carries(r, held) => Carries([r EXCEPT !.bye = TRUE], held)
BY SlotFacts DEF Carries, Fresh, WorkerStates, Answers

\* Death leaves the agreement of pipe and slot in place.
LEMMA RemainsCarries ==
    ASSUME TypeOK, PipesMatch, NEW w \in Slots, NEW how
    PROVE  Carries(Remains(w, how), holder[w])
BY DEF PipesMatch, Carries, Remains, Fresh, TypeOK, WorkersOK, WorkerStates

\* Only a slot that holds nothing is handed a file.
LEMMA HandingFacts ==
    ASSUME TypeOK, Loops, Assigning, next <= N
    PROVE  /\ turn \in Slots /\ next \in Files /\ holder[turn] = None
<1>1. turn \in Slots /\ next \in Files
    BY SlotFacts DEF TypeOK, ControlOK, BatchOK, Files
<1>2. CASE pc = "assign"
    BY <1>1, <1>2, SlotFacts DEF Loops, Files, Slots
<1>3. CASE pc = "hand"
    BY <1>1, <1>3 DEF Loops
<1> QED
    BY <1>1, <1>2, <1>3 DEF Assigning

\* The pipe of a slot and its record in the parent agree on the file.
LEMMA PipesStep == TypeOK /\ PipesMatch /\ Loops /\ [Next]_vars => PipesMatch'
<1> SUFFICES ASSUME TypeOK, PipesMatch, Loops, [Next]_vars PROVE PipesMatch'
    OBVIOUS
<1>0. turn \in Slots /\ worker \in [Slots -> WorkerStates]
      /\ holder \in [Slots -> Files \cup {None}]
    BY DEF TypeOK, ControlOK, WorkersOK, BatchOK
<1>1. ASSUME NEW w \in Slots, NEW r, NEW h, Carries(r, h),
             worker' = [worker EXCEPT ![w] = r], holder' = [holder EXCEPT ![w] = h]
      PROVE  PipesMatch'
    BY <1>0, <1>1 DEF PipesMatch
<1>2. ASSUME NEW w \in Slots, NEW r, Carries(r, holder[w]),
             worker' = [worker EXCEPT ![w] = r], holder' = holder
      PROVE  PipesMatch'
    BY <1>0, <1>2 DEF PipesMatch
<1>3. ASSUME worker' = worker, holder' = holder PROVE PipesMatch'
    BY <1>3 DEF PipesMatch
<1>4. CASE SendTask
    <2>1. next \in Files /\ holder[turn] = None
        BY <1>4, HandingFacts DEF SendTask
    <2>2. Carries([worker[turn] EXCEPT !.task = next], next)
        BY <2>1, <1>0, CarriesFacts DEF PipesMatch
    <2>3. /\ worker' = [worker EXCEPT ![turn] = [worker[turn] EXCEPT !.task = next]]
          /\ holder' = [holder EXCEPT ![turn] = next]
        BY <1>4 DEF SendTask, Hold
    <2> QED
        BY <1>0, <1>1, <2>2, <2>3
<1>5. CASE ReplaceAndSend
    <2>1. next \in Files
        BY <1>5, HandingFacts DEF ReplaceAndSend
    <2>2. /\ worker' = [worker EXCEPT ![turn] = [Fresh EXCEPT !.task = next]]
          /\ holder' = [holder EXCEPT ![turn] = next]
        BY <1>5 DEF ReplaceAndSend, Hold
    <2>3. Carries([Fresh EXCEPT !.task = next], next)
        BY <2>1, CarriesFacts
    <2> QED
        BY <1>0, <1>1, <2>2, <2>3
<1>6. CASE TakeAnswer
    <2>1. worker' = [worker EXCEPT ![turn] = [worker[turn] EXCEPT !.answer = Nothing]]
        BY <1>6 DEF TakeAnswer
    <2>2. holder' = [holder EXCEPT ![turn] = None]
        BY <1>6 DEF TakeAnswer, Settle
    <2>3. Carries([worker[turn] EXCEPT !.answer = Nothing], None)
        BY <1>0, <1>6 DEF TakeAnswer, PipesMatch, Carries, WorkerStates
    <2> QED
        BY <1>0, <1>1, <2>1, <2>2, <2>3
<1>7. CASE FindCrashed \/ GiveUpLate
    <2>1. worker' = [worker EXCEPT ![turn] = Fresh] /\ holder' = [holder EXCEPT ![turn] = None]
        BY <1>7 DEF FindCrashed, GiveUpLate, SettleLost, Settle
    <2>2. Carries(Fresh, None)
        BY CarriesFacts
    <2> QED
        BY <1>0, <1>1, <2>1, <2>2
<1>8. CASE StartWorker
    <2>1. worker' = [worker EXCEPT ![turn] = Fresh] /\ holder' = holder
        BY <1>8 DEF StartWorker, book
    <2>2. Carries(Fresh, holder[turn])
        BY CarriesFacts
    <2> QED
        BY <1>0, <1>2, <2>1, <2>2
<1>9. CASE HandFails \/ ReplaceFails
    <2>1. holder' = holder /\ \E r \in {Fresh, Remains(turn, "dead"), [Fresh EXCEPT !.proc = "dead"]} :
             worker' = [worker EXCEPT ![turn] = r]
        BY <1>9 DEF HandFails, ReplaceFails, ReplaceRaises, book
    <2>2. \A r \in {Fresh, Remains(turn, "dead"), [Fresh EXCEPT !.proc = "dead"]} :
             Carries(r, holder[turn])
        BY <1>0, RemainsCarries, CarriesFacts
    <2> QED
        BY <1>0, <1>2, <2>1, <2>2
<1>10. CASE SendNone
    <2>1. \A w \in Slots : worker'[w] \in {worker[w], [worker[w] EXCEPT !.bye = TRUE]}
        BY <1>10 DEF SendNone
    <2>2. holder' = holder
        BY <1>10 DEF SendNone, book
    <2>3. \A w \in Slots : Carries([worker[w] EXCEPT !.bye = TRUE], holder[w])
        BY <1>0, CarriesFacts DEF PipesMatch
    <2> QED
        BY <2>1, <2>2, <2>3 DEF PipesMatch
<1>11. CASE Reap
    <2>1. holder' = holder
        BY <1>11 DEF Reap, book
    <2>2. CASE turn \in stray
        BY <1>3, <1>11, <2>1, <2>2 DEF Reap
    <2>3. CASE turn \notin stray
        <3>1. worker' = [worker EXCEPT ![turn] = Remains(turn, "dead")]
            BY <1>11, <2>3 DEF Reap
        <3>2. Carries(Remains(turn, "dead"), holder[turn])
            BY <1>0, RemainsCarries
        <3> QED
            BY <1>0, <1>2, <2>1, <3>1, <3>2
    <2> QED
        BY <2>2, <2>3
<1>12. ASSUME NEW w \in Slots, WorkerStep(w) PROVE PipesMatch'
    <2>0. holder' = holder
        BY <1>12 DEF WorkerStep, Take, Answer, Leave, Orphaned, Die, Alarm, Expire, Exit,
                     elsewhere, book
    <2>1. CASE Take(w)
        <3> DEFINE r == [worker[w] EXCEPT !.task = None, !.work = worker[w].task]
        <3>1. worker' = [worker EXCEPT ![w] = r]
            BY <2>1 DEF Take
        <3>2. Carries(r, holder[w])
            BY <1>0, <2>1 DEF Take, PipesMatch, Carries, WorkerStates
        <3> QED
            BY <1>2, <2>0, <3>1, <3>2
    <2>2. ASSUME NEW kind \in {"report", "raised"}, Answer(w, kind) PROVE PipesMatch'
        <3> DEFINE r == [worker[w] EXCEPT !.work = None,
                                          !.answer = [of |-> worker[w].work, kind |-> kind]]
        <3>1. worker' = [worker EXCEPT ![w] = r]
            BY <2>2 DEF Answer
        <3>2. Carries(r, holder[w])
            BY <1>0, <2>2 DEF Answer, PipesMatch, Carries, WorkerStates
        <3> QED
            BY <1>2, <2>0, <3>1, <3>2
    <2>3. CASE Leave(w) \/ Orphaned(w) \/ Die(w) \/ Alarm(w)
        <3>1. \E how : worker' = [worker EXCEPT ![w] = Remains(w, how)]
            BY <2>3 DEF Leave, Orphaned, Die, Alarm, Exit
        <3> QED
            BY <1>2, <2>0, <3>1, RemainsCarries
    <2>4. CASE Expire(w)
        BY <1>3, <2>0, <2>4 DEF Expire
    <2> QED
        BY <1>12, <2>1, <2>2, <2>3, <2>4 DEF WorkerStep
<1>14. CASE RecvFails
    <2>1. /\ worker' = [worker EXCEPT ![turn] = [worker[turn] EXCEPT !.answer = Nothing]]
          /\ holder' = holder
        BY <1>14 DEF RecvFails, book
    <2>2. Carries([worker[turn] EXCEPT !.answer = Nothing], holder[turn])
        BY <1>0 DEF PipesMatch, Carries, WorkerStates
    <2> QED
        BY <1>0, <1>2, <2>1, <2>2
<1>13. CASE \/ NothingToHand \/ WaitReturns \/ PassBy \/ Deliver \/ Resume \/ LoopTest
            \/ StartFails \/ CloseEarly \/ Interrupt \/ InterruptAgain \/ ParentDies \/ UNCHANGED vars
    BY <1>3, <1>13 DEF NothingToHand, WaitReturns, PassBy, Deliver, Resume, LoopTest,
                 StartFails, CloseEarly, Interrupt, InterruptAgain, ParentDies, vars, book
<1> QED
    BY <1>4, <1>5, <1>6, <1>7, <1>8, <1>9, <1>10, <1>11, <1>12, <1>13, <1>14
       DEF Next, Parent, Failure, Terminated

\* Two slots never hold one file.
LEMMA HoldingStep == TypeOK /\ PipesMatch /\ Loops /\ Holding /\ [Next]_vars => Holding'
<1> SUFFICES ASSUME TypeOK, PipesMatch, Loops, Holding, [Next]_vars PROVE Holding'
    OBVIOUS
<1> USE DEF Holding
<1>0. next \in Nat /\ turn \in Slots /\ holder \in [Slots -> Files \cup {None}]
    BY SlotFacts DEF TypeOK, ControlOK, BatchOK
<1>1. CASE SendTask \/ ReplaceAndSend
    <2>1. Assigning /\ next <= N /\ Hold
        BY <1>1 DEF SendTask, ReplaceAndSend
    <2>2. holder[turn] = None /\ next \in Files
        BY <2>1, HandingFacts
    <2> QED
        BY <1>0, <2>1, <2>2 DEF Hold, Files, None
<1>2. CASE Settling
    BY <1>0, <1>2, SettlingFacts DEF Settle, Files, None
<1>3. CASE Deliver \/ Resume
    BY <1>3 DEF Deliver, Resume, book
<1>4. CASE Quiet
    BY <1>0, <1>4, QuietFacts, SlotFacts DEF Files, None
<1> QED
    BY <1>1, <1>2, <1>3, <1>4, NextKinds

\* A file that waits in a pipe was never begun.
LEMMA UntriedStep ==
    TypeOK /\ PipesMatch /\ Loops /\ Holding /\ Untried /\ [Next]_vars => Untried'
<1> SUFFICES ASSUME TypeOK, PipesMatch, Loops, Holding, Untried, [Next]_vars PROVE Untried'
    OBVIOUS
<1>0. /\ turn \in Slots /\ worker \in [Slots -> WorkerStates] /\ next \in Nat
      /\ holder \in [Slots -> Files \cup {None}] /\ tried \subseteq Files
    BY SlotFacts DEF TypeOK, ControlOK, WorkersOK, BatchOK
<1>1. CASE SendTask \/ ReplaceAndSend
    <2>1. Assigning /\ next <= N /\ next' = next + 1 /\ tried' = tried
        BY <1>1 DEF SendTask, ReplaceAndSend, Hold
    <2>2. \A w \in Slots : worker'[w].task # None => worker'[w].task \in {worker[w].task, next}
        BY <1>0, <1>1 DEF SendTask, ReplaceAndSend, WorkerStates, Fresh
    <2> QED
        BY <1>0, <2>1, <2>2 DEF Untried, Files
<1>2. ASSUME tried' = tried, next' = next \/ next' = next + 1,
             \A w \in Slots : worker'[w].task # None => worker'[w].task = worker[w].task
      PROVE  Untried'
    BY <1>0, <1>2 DEF Untried, Files
<1>a. ASSUME NEW w \in Slots, NEW r, worker' = [worker EXCEPT ![w] = r],
             r.task \in {None, worker[w].task}, tried' = tried, next' = next \/ next' = next + 1
      PROVE  Untried'
    BY <1>0, <1>2, <1>a
<1>b. /\ Fresh.task = None /\ [Fresh EXCEPT !.proc = "dead"].task = None
      /\ \A w \in Slots : \A how : Remains(w, how).task = None
    BY DEF Fresh, Remains
<1>3. CASE Settling
    <2>1. tried' = tried /\ next' = next
        BY <1>3 DEF Settling, TakeAnswer, FindCrashed, GiveUpLate, SettleLost, Settle
    <2>2. CASE TakeAnswer
        <3>1. worker' = [worker EXCEPT ![turn] = [worker[turn] EXCEPT !.answer = Nothing]]
            BY <2>2 DEF TakeAnswer
        <3>2. [worker[turn] EXCEPT !.answer = Nothing].task = worker[turn].task
            BY <1>0 DEF WorkerStates
        <3> QED
            BY <1>0, <1>a, <2>1, <3>1, <3>2
    <2>3. CASE FindCrashed \/ GiveUpLate
        <3>1. worker' = [worker EXCEPT ![turn] = Fresh]
            BY <2>3 DEF FindCrashed, GiveUpLate, SettleLost
        <3> QED
            BY <1>0, <1>a, <1>b, <2>1, <3>1
    <2> QED
        BY <1>3, <2>2, <2>3 DEF Settling
<1>4. CASE StartWorker \/ HandFails \/ ReplaceFails
    <2>1. tried' = tried /\ (next' = next \/ next' = next + 1)
        BY <1>4 DEF StartWorker, HandFails, ReplaceFails, batch
    <2>2. \E r \in {Fresh, Remains(turn, "dead"), [Fresh EXCEPT !.proc = "dead"]} :
             worker' = [worker EXCEPT ![turn] = r]
        BY <1>4 DEF StartWorker, HandFails, ReplaceFails, ReplaceRaises
    <2> QED
        BY <1>0, <1>a, <1>b, <2>1, <2>2
<1>5. CASE SendNone \/ Reap
    <2>1. tried' = tried /\ next' = next
        BY <1>5 DEF SendNone, Reap, batch
    <2>2. CASE SendNone
        <3>1. \A w \in Slots : worker'[w] \in {worker[w], [worker[w] EXCEPT !.bye = TRUE]}
            BY <2>2 DEF SendNone
        <3>2. \A w \in Slots : [worker[w] EXCEPT !.bye = TRUE].task = worker[w].task
            BY <1>0 DEF WorkerStates
        <3>3. \A w \in Slots : worker'[w].task = worker[w].task
            BY <3>1, <3>2
        <3> QED
            BY <1>2, <2>1, <3>3
    <2>3. CASE Reap
        <3>1. worker' = worker \/ worker' = [worker EXCEPT ![turn] = Remains(turn, "dead")]
            BY <2>3 DEF Reap
        <3> QED
            BY <1>0, <1>2, <1>a, <1>b, <2>1, <3>1
    <2> QED
        BY <1>5, <2>2, <2>3
<1>6. CASE \/ NothingToHand \/ WaitReturns \/ PassBy \/ Deliver \/ Resume \/ LoopTest
           \/ StartFails \/ CloseEarly \/ Interrupt \/ InterruptAgain \/ ParentDies \/ UNCHANGED vars
    BY <1>2, <1>6 DEF NothingToHand, WaitReturns, PassBy, Deliver, Resume, LoopTest,
                 StartFails, CloseEarly, Interrupt, InterruptAgain, ParentDies, vars, batch
<1>7. ASSUME NEW w \in Slots, WorkerStep(w) PROVE Untried'
    <2>1. CASE Take(w)
        <3>1. /\ worker[w].task \in Files /\ worker[w].task = holder[w]
              /\ tried' = tried \cup {worker[w].task} /\ next' = next
            BY <1>0, <1>7, <2>1 DEF Take, elsewhere, batch, PipesMatch, Carries, WorkerStates
        <3>2. \A v \in Slots : worker'[v].task # None => v # w /\ worker'[v].task = worker[v].task
            BY <1>0, <1>7, <2>1 DEF Take, WorkerStates
        <3>3. \A v \in Slots : worker[v].task # None => worker[v].task = holder[v]
            BY DEF PipesMatch, Carries
        <3> QED
            BY <1>0, <1>7, <3>1, <3>2, <3>3 DEF Untried, Holding
    <2>2. CASE (\E kind \in {"report", "raised"} : Answer(w, kind)) \/ Expire(w)
        BY <1>0, <1>2, <1>7, <2>2 DEF Answer, Expire, elsewhere, batch, WorkerStates
    <2>3. CASE Leave(w) \/ Orphaned(w) \/ Die(w) \/ Alarm(w)
        <3>1. \E how : worker' = [worker EXCEPT ![w] = Remains(w, how)]
            BY <2>3 DEF Leave, Orphaned, Die, Alarm, Exit
        <3>2. tried' = tried /\ next' = next
            BY <2>3 DEF Leave, Orphaned, Die, Alarm, Exit, elsewhere, batch
        <3> QED
            BY <1>a, <1>b, <1>7, <3>1, <3>2
    <2> QED
        BY <1>7, <2>1, <2>2, <2>3 DEF WorkerStep
<1>8. CASE RecvFails
    <2>1. tried' = tried /\ next' = next /\ \A w \in Slots : worker'[w].task = worker[w].task
        BY <1>0, <1>8 DEF RecvFails, batch, WorkerStates
    <2> QED
        BY <1>2, <2>1
<1> QED
    BY <1>1, <1>3, <1>4, <1>5, <1>6, <1>7, <1>8 DEF Next, Parent, Failure, Terminated, Settling

\* The loops hand out the queue from its head and leave no slot idle.
LEMMA LoopsStep == TypeOK /\ PipesMatch /\ Loops /\ [Next]_vars => Loops'
<1> SUFFICES ASSUME TypeOK, PipesMatch, Loops, [Next]_vars PROVE Loops'
    OBVIOUS
<1>0. /\ next \in Nat /\ turn \in Slots /\ holder \in [Slots -> Files \cup {None}]
      /\ S \in Nat /\ 1 <= S /\ S <= N /\ N \in Nat
    BY SlotFacts DEF TypeOK, ControlOK, BatchOK
<1>1. CASE SendTask \/ ReplaceAndSend
    <2>1. Assigning /\ next <= N /\ next \in Files /\ next # None /\ holder[turn] = None
        BY <1>1, HandingFacts, SlotFacts DEF SendTask, ReplaceAndSend
    <2>2. next' = next + 1 /\ holder' = [holder EXCEPT ![turn] = next] /\ out' = out
        BY <1>1 DEF SendTask, ReplaceAndSend, Hold
    <2>3. \E gone : Handed(gone)
        BY <1>1 DEF SendTask, ReplaceAndSend
    <2>4. CASE pc = "assign"
        <3>1. next = turn /\ \A w \in Slots : w # turn => holder[w] = IF w < turn THEN w ELSE None
            BY <1>0, <2>4 DEF Loops, Slots
        <3>2. \A w \in Slots : holder'[w] = IF w < next' THEN w ELSE None
            BY <1>0, <2>1, <2>2, <3>1 DEF Slots
        <3>3. CASE turn = S
            <4>1. pc' = "wait"
                BY <2>3, <2>4, <3>3 DEF Handed, NextTurn
            <4>2. \A w \in Slots : w < next' /\ w # None
                BY <1>0, <2>2, <3>1, <3>3 DEF Slots, None
            <4> QED
                BY <3>2, <4>1, <4>2 DEF Loops
        <3>4. CASE turn # S
            <4>1. pc' = "assign" /\ turn' = turn + 1
                BY <2>3, <2>4, <3>4 DEF Handed, NextTurn
            <4>2. \A w \in Slots : w >= next' => ~(w < next')
                BY <1>0, <2>2 DEF Slots
            <4> QED
                BY <2>2, <2>4, <3>1, <3>2, <4>1, <4>2 DEF Loops, None
        <3> QED
            BY <3>3, <3>4
    <2>5. CASE pc = "hand"
        BY <1>0, <2>1, <2>2, <2>3, <2>5 DEF Handed, NextTurn, Loops
    <2> QED
        BY <2>1, <2>4, <2>5 DEF Assigning
<1>2. CASE NothingToHand
    <2>1. pc = "hand" /\ next > N /\ pc' \in {"round", "deliver"} /\ next' = next
        BY <1>0, <1>2 DEF NothingToHand, Handed, Assigning, Loops, Slots, batch
    <2> QED
        BY <1>0, <2>1 DEF Loops
<1>3. CASE Settling
    BY <1>0, <1>3, SettlingFacts DEF Settle, Loops
<1>4. CASE StartWorker
    BY <1>0, <1>4 DEF StartWorker, NextTurn, Loops, batch, book
<1>5. CASE WaitReturns \/ PassBy \/ Deliver \/ Resume \/ LoopTest
    BY <1>5 DEF WaitReturns, PassBy, NextTurn, Deliver, Resume, LoopTest, Loops, batch, book
<1>6. CASE \/ SendNone \/ Reap \/ HandFails \/ ReplaceFails \/ RecvFails \/ StartFails
           \/ CloseEarly \/ Interrupt \/ InterruptAgain \/ ParentDies
    BY <1>6 DEF SendNone, Reap, NextTurn, HandFails, ReplaceFails, RecvFails, StartFails, CloseEarly,
                Interrupt, InterruptAgain, ParentDies, Loops
<1>7. CASE (\E w \in Slots : WorkerStep(w)) \/ UNCHANGED vars
    BY <1>7 DEF WorkerStep, Take, Answer, Leave, Orphaned, Die, Alarm, Expire, Exit,
                elsewhere, vars, batch, book, Loops
<1> QED
    BY <1>1, <1>2, <1>3, <1>4, <1>5, <1>6, <1>7 DEF Next, Parent, Failure, Terminated, Settling

\* What `wait' found readable stays readable until the round comes to it.
LEMMA SnapshotStep == TypeOK /\ Snapshot /\ [Next]_vars => Snapshot'
<1> SUFFICES ASSUME TypeOK, Snapshot, [Next]_vars PROVE Snapshot'
    OBVIOUS
<1>0. /\ turn \in Slots /\ worker \in [Slots -> WorkerStates] /\ ready \subseteq Slots
      /\ holder \in [Slots -> Files \cup {None}]
    BY DEF TypeOK, ControlOK, WorkersOK, BatchOK
<1>1. ASSUME ready' = ready, pc' = pc, turn' = turn, holder' = holder,
             \A w \in Slots : Readable(w) => Readable(w)'
      PROVE  Snapshot'
    BY <1>0, <1>1 DEF Snapshot
<1>2. CASE WaitReturns
    <2>1. ready' \subseteq Busy /\ (\A w \in ready' : Readable(w)) /\ holder' = holder
          /\ worker' = worker
        BY <1>2 DEF WaitReturns, book
    <2>2. \A w \in ready' : holder'[w] # None /\ Readable(w)'
        BY <2>1 DEF Busy, Readable, Dead
    <2> QED
        BY <2>2 DEF Snapshot
<1>3. CASE PassBy
    BY <1>0, <1>3 DEF PassBy, NextTurn, Snapshot, Readable, Dead, batch, book, Slots
<1>4. CASE Settling
    <2>1. /\ pc = "round" /\ pc' = "hand" /\ turn' = turn /\ ready' = ready
          /\ holder' = [holder EXCEPT ![turn] = None]
        BY <1>4 DEF Settling, TakeAnswer, FindCrashed, GiveUpLate, SettleLost, Settle, Visiting
    <2>2. \A w \in Slots \ {turn} : worker'[w] = worker[w]
        BY <1>0, <1>4 DEF Settling, TakeAnswer, FindCrashed, GiveUpLate, SettleLost
    <2>3. \A w \in ready : w > turn => holder[w] # None /\ Readable(w)
        BY <2>1 DEF Snapshot
    <2>4. \A w \in ready : w > turn => holder'[w] # None /\ Readable(w)'
        <3> SUFFICES ASSUME NEW w \in ready, w > turn PROVE holder'[w] # None /\ Readable(w)'
            OBVIOUS
        <3>1. w \in Slots \ {turn}
            BY <1>0 DEF Slots
        <3>2. worker'[w] = worker[w] /\ holder'[w] = holder[w]
            BY <1>0, <2>1, <2>2, <3>1
        <3> QED
            BY <2>3, <3>2 DEF Readable, Dead
    <2> QED
        BY <2>1, <2>4 DEF Snapshot
<1>5. CASE NothingToHand \/ SendTask \/ ReplaceAndSend
    <2>1. /\ ready' = ready
          /\ \A w \in Slots \ {turn} : worker'[w] = worker[w] /\ holder'[w] = holder[w]
        BY <1>0, <1>5 DEF NothingToHand, SendTask, ReplaceAndSend, Hold, batch, book
    <2>2. \/ pc' \notin {"round", "hand"}
          \/ pc = "hand" /\ pc' = "round" /\ turn' = turn + 1
        BY <1>5 DEF NothingToHand, SendTask, ReplaceAndSend, Handed, NextTurn, Assigning
    <2>3. CASE pc = "hand" /\ pc' = "round" /\ turn' = turn + 1
        <3>1. \A w \in ready : w > turn => holder[w] # None /\ Readable(w)
            BY <2>3 DEF Snapshot
        <3>2. \A w \in ready : w > turn => holder'[w] # None /\ Readable(w)'
            <4> SUFFICES ASSUME NEW w \in ready, w > turn
                         PROVE  holder'[w] # None /\ Readable(w)'
                OBVIOUS
            <4>1. w \in Slots \ {turn}
                BY <1>0 DEF Slots
            <4>2. worker'[w] = worker[w] /\ holder'[w] = holder[w]
                BY <2>1, <4>1
            <4> QED
                BY <3>1, <4>2 DEF Readable, Dead
        <3>3. \A w \in ready : w >= turn' => w > turn
            BY <1>0, <2>3 DEF Slots
        <3>4. \A w \in ready' : (w > turn' \/ w = turn') => holder'[w] # None /\ Readable(w)'
            BY <1>0, <2>1, <2>3, <3>2, <3>3 DEF Slots
        <3> QED
            BY <3>4 DEF Snapshot
    <2> QED
        BY <2>2, <2>3 DEF Snapshot
<1>6. CASE \/ StartWorker \/ Deliver \/ Resume \/ LoopTest \/ SendNone \/ Reap \/ HandFails
           \/ ReplaceFails \/ RecvFails \/ StartFails \/ CloseEarly \/ Interrupt \/ InterruptAgain \/ ParentDies
    <2>1. pc' \notin {"round", "hand"}
        BY <1>6 DEF StartWorker, Deliver, Resume, LoopTest, SendNone, Reap, NextTurn, HandFails,
                    ReplaceFails, RecvFails, StartFails, CloseEarly, Interrupt, InterruptAgain,
                    ParentDies
    <2> QED
        BY <2>1 DEF Snapshot
<1>7. ASSUME NEW w \in Slots, WorkerStep(w) PROVE Snapshot'
    <2>0. ready' = ready /\ pc' = pc /\ turn' = turn /\ holder' = holder
        BY <1>7 DEF WorkerStep, Take, Answer, Leave, Orphaned, Die, Alarm, Expire, Exit,
                    elsewhere, batch, book
    <2>1. CASE Take(w)
        <3>1. \A v \in Slots : /\ worker'[v].answer = worker[v].answer
                               /\ worker'[v].proc = worker[v].proc
            BY <1>0, <1>7, <2>1 DEF Take, WorkerStates
        <3> QED
            BY <1>1, <2>0, <3>1 DEF Readable, Dead
    <2>2. ASSUME NEW kind \in {"report", "raised"}, Answer(w, kind) PROVE Snapshot'
        <3>1. \A v \in Slots \ {w} : worker'[v] = worker[v]
            BY <1>0, <2>2 DEF Answer
        <3>2. worker'[w].answer = [of |-> worker[w].work, kind |-> kind] /\ worker[w].work # None
            BY <1>0, <1>7, <2>2 DEF Answer, WorkerStates
        <3>3. Readable(w)'
            BY <3>2 DEF Readable, Nothing
        <3> QED
            BY <1>1, <2>0, <3>1, <3>3 DEF Readable, Dead
    <2>3. CASE Leave(w) \/ Orphaned(w) \/ Die(w) \/ Alarm(w)
        <3>1. \E how \in {"dead", "alarmed"} : worker' = [worker EXCEPT ![w] = Remains(w, how)]
            BY <2>3 DEF Leave, Orphaned, Die, Alarm, Exit
        <3>2. \A how \in {"dead", "alarmed"} : Remains(w, how).proc = how
            BY DEF Remains, Fresh
        <3>3. Readable(w)' /\ \A v \in Slots \ {w} : worker'[v] = worker[v]
            BY <1>0, <3>1, <3>2 DEF Readable, Dead
        <3> QED
            BY <1>1, <2>0, <3>3 DEF Readable, Dead
    <2>4. CASE Expire(w)
        BY <1>1, <2>0, <2>4 DEF Expire, Readable, Dead
    <2> QED
        BY <1>7, <2>1, <2>2, <2>3, <2>4 DEF WorkerStep
<1>8. CASE UNCHANGED vars
    BY <1>1, <1>8 DEF vars, batch, book, Readable, Dead
<1> QED
    BY <1>2, <1>3, <1>4, <1>5, <1>6, <1>7, <1>8
       DEF Next, Parent, Failure, Terminated, Settling

\* A process nobody lists exists only while some file has not been handed out.
LEMMA StraysStep ==
    TypeOK /\ PipesMatch /\ Loops /\ Accounted /\ Strays /\ [Next]_vars => Strays'
<1> SUFFICES ASSUME TypeOK, PipesMatch, Loops, Accounted, Strays, [Next]_vars PROVE Strays'
    OBVIOUS
<1>0. /\ turn \in Slots /\ worker \in [Slots -> WorkerStates] /\ stray \subseteq Slots
      /\ holder \in [Slots -> Files \cup {None}] /\ next \in Nat \ {0}
      /\ out \in Seq(Outcome) /\ S \in Nat /\ 1 <= S /\ N \in Nat /\ 1 <= N
    BY SlotFacts DEF TypeOK, ControlOK, WorkersOK, BatchOK
<1>1. ASSUME NEW f \in Files, Open, f >= next \/ (\E w \in Slots : holder[w] = f)
      PROVE  Len(out) < N
    BY <1>0, <1>1 DEF Accounted, Files
<1>2. CASE StartWorker
    <2>1. Len(out) = 0 /\ out' = out /\ worker' = [worker EXCEPT ![turn] = Fresh] /\ pc = "start"
        BY <1>2 DEF StartWorker, Loops, batch
    <2>2. \/ pc' = "assign"
          \/ pc' = "start" /\ stray' = stray \cup {turn}
        BY <1>2 DEF StartWorker, NextTurn
    <2>3. \A w \in Slots \ {turn} : worker'[w] = worker[w]
        BY <1>0, <2>1
    <2> QED
        BY <1>0, <2>1, <2>2, <2>3 DEF Strays, Alive
<1>3. CASE NothingToHand \/ SendTask \/ ReplaceAndSend
    <2>1. Assigning /\ out' = out /\ \E gone : Handed(gone)
        BY <1>3 DEF NothingToHand, SendTask, ReplaceAndSend, Hold, batch
    <2>2. CASE pc = "assign"
        <3>1. Len(out) = 0
            BY <2>2 DEF Loops
        <3>2. \/ pc' = "assign"
              \/ pc' = "wait" /\ stray' = {}
            BY <2>1, <2>2 DEF Handed, NextTurn
        <3> QED
            BY <1>0, <2>1, <3>1, <3>2 DEF Strays
    <2>3. CASE pc = "hand"
        <3>1. pc' \in {"round", "deliver"} /\ stray' = {}
            BY <2>1, <2>3 DEF Handed, Strays
        <3> QED
            BY <3>1 DEF Strays
    <2> QED
        BY <2>1, <2>2, <2>3 DEF Assigning
<1>4. CASE WaitReturns \/ PassBy \/ LoopTest \/ Deliver \/ Resume \/ CloseEarly \/ RecvFails
    <2>1. /\ stray' = {}
          /\ pc' \in {"wait", "round", "deliver", "yield", "closing"}
        BY <1>4 DEF WaitReturns, PassBy, NextTurn, LoopTest, Deliver, Resume, CloseEarly, RecvFails,
                    Visiting, Strays
    <2> QED
        BY <2>1 DEF Strays
<1>5. CASE Settling
    <2>1. holder[turn] \in Files /\ pc = "round" /\ pc' = "hand" /\ turn' = turn /\ out' = out
        BY <1>5, SettlingFacts DEF Settle
    <2>2. stray' \subseteq {turn}
        BY <1>5, <2>1 DEF Settling, TakeAnswer, FindCrashed, GiveUpLate, SettleLost, Strays
    <2>3. Len(out) < N
        BY <1>0, <1>1, <2>1 DEF Open
    <2> QED
        BY <2>1, <2>2, <2>3 DEF Strays
<1>6. CASE HandFails \/ ReplaceFails
    <2>1. pc' = "closing" /\ out' = out
        BY <1>6 DEF HandFails, ReplaceFails, batch
    <2>2. CASE HandFails
        <3>1. Open /\ next \in Files
            BY <1>0, <2>2 DEF HandFails, Assigning, Open, Files
        <3> QED
            BY <1>0, <1>1, <2>1, <3>1 DEF Strays
    <2>3. CASE ReplaceFails
        <3>1. Open /\ holder[turn] \in Files
            BY <1>0, <2>3 DEF ReplaceFails, Visiting, Open
        <3> QED
            BY <1>0, <1>1, <2>1, <3>1 DEF Strays
    <2> QED
        BY <1>6, <2>2, <2>3
<1>7. CASE StartFails \/ Interrupt \/ InterruptAgain \/ ParentDies
    <2>1. stray' = stray /\ out' = out /\ worker' = worker
        BY <1>7 DEF StartFails, Interrupt, InterruptAgain, ParentDies, batch
    <2>2. pc' \in {"closing", "abandoned", "gone"} \/ (pc = "start" /\ pc' = "ended")
        BY <1>7 DEF StartFails, Interrupt, InterruptAgain, ParentDies
    <2> QED
        BY <2>1, <2>2 DEF Strays, Alive
<1>8. CASE SendNone
    <2>1. stray' = stray /\ out' = out /\ pc' = "reap" /\ turn' = 1
        BY <1>8 DEF SendNone, batch
    <2> QED
        BY <2>1 DEF Strays, Slots
<1>9. CASE Reap
    <2>1. stray' = stray /\ out' = out /\ pc = "reap"
        BY <1>9 DEF Reap, batch
    <2>2. \A w \in Slots \ {turn} : worker'[w] = worker[w]
        BY <1>0, <1>9 DEF Reap
    <2>3. turn \notin stray => worker'[turn].proc # "live"
        <3>1. Remains(turn, "dead").proc = "dead"
            BY DEF Remains, Fresh
        <3>2. turn \notin stray => worker' = [worker EXCEPT ![turn] = Remains(turn, "dead")]
            BY <1>9 DEF Reap
        <3>3. turn \notin stray => worker'[turn] = Remains(turn, "dead")
            BY <1>0, <3>2
        <3> QED
            BY <3>1, <3>3
    <2>4. \A w \in Slots : w <= turn /\ Alive(w)' => w \in stray
        <3> SUFFICES ASSUME NEW w \in Slots, w <= turn, Alive(w)' PROVE w \in stray
            OBVIOUS
        <3>1. CASE w = turn
            BY <2>3, <3>1 DEF Alive
        <3>2. CASE w # turn
            <4>1. w < turn
                BY <1>0, <3>2 DEF Slots
            <4>2. Alive(w)
                BY <2>2, <3>2 DEF Alive
            <4> QED
                BY <2>1, <4>1, <4>2 DEF Strays
        <3> QED
            BY <3>1, <3>2
    <2>5. \/ pc' = "ended" /\ turn = S
          \/ pc' = "reap" /\ turn' = turn + 1
        BY <1>9 DEF Reap, NextTurn
    <2> QED
        BY <1>0, <2>1, <2>4, <2>5 DEF Strays, Slots
<1>10. CASE (\E w \in Slots : WorkerStep(w)) \/ UNCHANGED vars
    <2>1. stray' = stray /\ out' = out /\ pc' = pc /\ turn' = turn
        BY <1>10 DEF WorkerStep, Take, Answer, Leave, Orphaned, Die, Alarm, Expire, Exit,
                     elsewhere, vars, batch
    <2>2. \A w \in Slots : Alive(w)' => Alive(w)
        <3>1. ASSUME NEW w \in Slots, Take(w) \/ \E kind \in {"report", "raised"} : Answer(w, kind)
              PROVE  \A v \in Slots : worker'[v].proc = worker[v].proc
            BY <1>0, <3>1 DEF Take, Answer, WorkerStates
        <3>2. ASSUME NEW w \in Slots, Leave(w) \/ Orphaned(w) \/ Die(w) \/ Alarm(w)
              PROVE  ~Alive(w)' /\ \A v \in Slots \ {w} : worker'[v] = worker[v]
            <4>1. \E how \in {"dead", "alarmed"} : worker' = [worker EXCEPT ![w] = Remains(w, how)]
                BY <3>2 DEF Leave, Orphaned, Die, Alarm, Exit
            <4> QED
                BY <1>0, <4>1 DEF Alive, Remains, Fresh
        <3> QED
            BY <1>10, <3>1, <3>2 DEF WorkerStep, Expire, vars, Alive
    <2> QED
        BY <2>1, <2>2 DEF Strays
<1> QED
    BY <1>2, <1>3, <1>4, <1>5, <1>6, <1>7, <1>8, <1>9, <1>10
       DEF Next, Parent, Failure, Terminated, Settling

\* No step loses a file or puts it in two places.
LEMMA AccountedStep ==
    TypeOK /\ PipesMatch /\ Ordered /\ Holding /\ Loops /\ Accounted /\ [Next]_vars => Accounted'
<1> SUFFICES ASSUME TypeOK, PipesMatch, Ordered, Holding, Loops, Accounted, [Next]_vars, Open'
             PROVE  Accounted'
    BY DEF Accounted
<1>0. /\ turn \in Slots /\ next \in Nat /\ out \in Seq(Outcome) /\ Len(out) \in Nat
      /\ holder \in [Slots -> Files \cup {None}]
      /\ done \in [Files -> Outcome \cup {Nothing}] /\ N \in Nat /\ Files \subseteq Nat
      /\ Nothing \notin Outcome /\ None \notin Files
    BY SlotFacts DEF TypeOK, ControlOK, BatchOK, Outcome, Nothing, Files
<1>1. CASE SendTask \/ ReplaceAndSend
    <2>1. /\ Open /\ holder[turn] = None /\ next \in Files
          /\ next' = next + 1 /\ holder' = [holder EXCEPT ![turn] = next]
          /\ done' = done /\ out' = out
        BY <1>1, HandingFacts DEF SendTask, ReplaceAndSend, Hold, Assigning, Open
    <2> QED
        BY <1>0, <2>1 DEF Accounted, Holding
<1>2. CASE Settling
    <2>1. PICK o \in Outcome : o.of = holder[turn] /\ Settle(o)
        BY <1>2, SettlingFacts
    <2>2. /\ Open /\ holder[turn] \in Files
          /\ next' = next /\ holder' = [holder EXCEPT ![turn] = None]
          /\ done' = [done EXCEPT ![holder[turn]] = o] /\ out' = out
        BY <1>2, <2>1, SettlingFacts DEF Settle, Open
    <2> QED
        BY <1>0, <2>2 DEF Accounted, Holding
<1>3. CASE Deliver
    <2>1. following = Len(out) + 1 /\ following \in Files /\ done[following] # Nothing
        BY <1>0, <1>3 DEF Deliver, Settled, Open, Ordered, Files
    <2>2. /\ Open /\ next' = next /\ holder' = holder
          /\ done' = [done EXCEPT ![following] = Nothing] /\ Len(out') = Len(out) + 1
        BY <1>0, <1>3, <2>1 DEF Deliver, Open, book
    <2> QED
        BY <1>0, <2>1, <2>2 DEF Accounted
<1>4. CASE Resume \/ Quiet
    <2>1. Open /\ next' = next /\ holder' = holder /\ done' = done /\ out' = out
        BY <1>4, QuietFacts DEF Resume, Open, book
    <2> QED
        BY <2>1 DEF Accounted
<1> QED
    BY <1>1, <1>2, <1>3, <1>4, NextKinds

\* When the parent goes to wait, the file it must hand out next is not done;
\* were it still queued, so would be everything the busy slots hold.
LEMMA WaitStep ==
    TypeOK /\ Ordered /\ Holding /\ Loops /\ PipesMatch /\ Accounted /\ HeadInWork /\ [Next]_vars
    => HeadInWork'
<1> SUFFICES ASSUME TypeOK, Ordered, Holding, Loops, PipesMatch, Accounted, HeadInWork,
                    [Next]_vars, pc' = "wait"
             PROVE  \E w \in Slots : holder'[w] = following'
    BY DEF HeadInWork
<1>0. /\ turn \in Slots /\ 1 \in Slots /\ holder \in [Slots -> Files \cup {None}]
      /\ next \in Nat \ {0} /\ S \in Nat /\ Len(out) \in Nat
    BY SlotFacts DEF TypeOK, ControlOK, BatchOK, Slots
<1>1. CASE SendTask \/ ReplaceAndSend \/ NothingToHand
    <2>1. pc = "assign" /\ turn = S /\ following' = following /\ following = Len(out) + 1
        BY <1>1 DEF SendTask, ReplaceAndSend, NothingToHand, Hold, Handed, NextTurn, Assigning,
                    Ordered, Open, batch
    <2>2. following = 1 /\ next = turn
        BY <2>1 DEF Loops
    <2>3. CASE NothingToHand
        BY <1>0, <2>1, <2>2, <2>3, SlotFacts DEF NothingToHand
    <2>4. CASE SendTask \/ ReplaceAndSend
        <3>1. holder' = [holder EXCEPT ![turn] = next]
            BY <2>4 DEF SendTask, ReplaceAndSend, Hold
        <3>2. CASE turn = 1
            BY <1>0, <2>1, <2>2, <3>1, <3>2
        <3>3. CASE turn # 1
            BY <1>0, <2>1, <2>2, <3>1, <3>3 DEF Loops, Slots
        <3> QED
            BY <3>2, <3>3
    <2> QED
        BY <1>1, <2>3, <2>4
<1>3. CASE LoopTest
    <2>1. following \in Files /\ done[following] = Nothing /\ following = Len(out) + 1
          /\ Open /\ holder' = holder /\ following' = following
        BY <1>3, SlotFacts
           DEF LoopTest, Settled, Ordered, Open, TypeOK, BatchOK, Files, book, batch
    <2>2. following >= next \/ \E w \in Slots : holder[w] = following
        BY <2>1 DEF Accounted, TypeOK, BatchOK
    <2>3. CASE following >= next
        <3>1. holder[turn] \in Files /\ holder[turn] < next
            BY <1>0, <1>3, <2>1, <2>3, SlotFacts DEF LoopTest, Loops, Holding, Files
        <3>2. holder[turn] > Len(out)
            BY <1>0, <2>1, <3>1 DEF Accounted
        <3> QED
            BY <1>0, <2>1, <2>3, <3>1, <3>2, SlotFacts DEF Files
    <2> QED
        BY <2>1, <2>2, <2>3
<1>4. CASE (\E w \in Slots : WorkerStep(w)) \/ UNCHANGED vars
    <2>1. pc = "wait" /\ holder' = holder /\ following' = following
        BY <1>4 DEF WorkerStep, Take, Answer, Leave, Orphaned, Die, Alarm, Expire, Exit,
                    elsewhere, vars, book, batch
    <2> QED
        BY <2>1 DEF HeadInWork
<1>5. CASE \/ StartWorker \/ WaitReturns \/ PassBy \/ TakeAnswer \/ FindCrashed \/ GiveUpLate
           \/ Deliver \/ Resume \/ SendNone \/ Reap \/ Failure
    BY <1>5 DEF StartWorker, WaitReturns, PassBy, TakeAnswer, FindCrashed, GiveUpLate, SettleLost,
                Settle, Deliver, Resume, SendNone, Reap, NextTurn, Failure, StartFails, HandFails,
                ReplaceFails, RecvFails, CloseEarly, Interrupt, InterruptAgain, ParentDies
<1> QED
    BY <1>1, <1>3, <1>4, <1>5 DEF Next, Parent, Terminated
-----------------------------------------------------------------------------
(* The theorems.                                                           *)

\* The invariant behind every result below holds throughout: IInv.
THEOREM Invariance == Spec => []IInv
<1>1. IInv /\ [Next]_vars => IInv'
    <2> SUFFICES ASSUME IInv, [Next]_vars PROVE IInv'
        OBVIOUS
    <2>1. TypeOK'
        BY ControlStep, BatchStep, WorkersStep DEF IInv, TypeOK
    <2>2. PipesMatch' /\ Ordered' /\ Holding' /\ Untried'
        BY PipesStep, OrderedStep, HoldingStep, UntriedStep DEF IInv
    <2>3. Loops' /\ Snapshot' /\ Strays'
        BY LoopsStep, SnapshotStep, StraysStep DEF IInv
    <2>4. Accounted' /\ HeadInWork'
        BY AccountedStep, WaitStep DEF IInv
    <2> QED
        BY <2>1, <2>2, <2>3, <2>4 DEF IInv
<1> QED
    BY InvInit, <1>1, PTL DEF Spec

\* No file is lost, settled twice or shared by two workers: Pool!Accounted.
THEOREM EveryFileAccounted == Spec => []Accounted
<1>1. IInv => Accounted
    BY DEF IInv
<1> QED
    BY <1>1, Invariance, PTL

\* The analyses come out in the order of the paths, each about its own file:
\* Pool!Attribution.
THEOREM ResultsInOrder == Spec => []Attribution
<1>1. IInv => Attribution
    BY DEF IInv, Ordered
<1> QED
    BY <1>1, Invariance, PTL

\* Whenever the parent waits, the file it must hand out next is in work, and
\* min() at pool.py:55 has a busy worker to range over: Pool!HeadInWork.
THEOREM WaitsOnWork == Spec => []HeadInWork
<1>1. IInv => HeadInWork
    BY DEF IInv
<1> QED
    BY <1>1, Invariance, PTL

\* The batch is given up with files missing only by a failure:
\* Pool!GivesUpOnFailure.
THEOREM NeverGivesUp == Spec => GivesUpOnFailure
<1>1. IInv /\ [Next]_vars => [(Open /\ ~Open' /\ Len(out) < N) => Failure]_vars
    <2> SUFFICES ASSUME IInv, Next, Open, ~Open', Len(out) < N PROVE Failure
        OBVIOUS
    <2>1. following <= N + 1 /\ (pc = "deliver" => following <= N)
        BY SlotFacts DEF IInv, Ordered, TypeOK, BatchOK
    <2>2. Settling \/ SendTask \/ ReplaceAndSend \/ Deliver \/ Resume \/ NothingToHand => Open'
        BY SettlingFacts DEF IInv, Settle, SendTask, ReplaceAndSend, NothingToHand, Handed,
           NextTurn, Assigning, Deliver, Resume, Open
    <2>3. StartWorker \/ WaitReturns \/ PassBy \/ LoopTest => Open'
        BY <2>1 DEF StartWorker, WaitReturns, PassBy, NextTurn, LoopTest, Open
    <2>4. ~SendNone /\ ~Reap /\ ~Terminated
        BY DEF SendNone, Reap, Terminated, Open, vars
    <2>5. (\E w \in Slots : WorkerStep(w)) => Open' = Open
        BY DEF WorkerStep, Take, Answer, Leave, Orphaned, Die, Alarm, Expire, Exit, elsewhere, Open
    <2> QED
        BY <2>2, <2>3, <2>4, <2>5 DEF Next, Parent, Settling
<1> QED
    BY <1>1, Invariance, PTL DEF Spec, GivesUpOnFailure

\* The parent never sleeps on a free slot while a file is queued: Pool!NoIdleSlot.
THEOREM SlotsStayBusy == Spec => []NoIdleSlot
<1>1. IInv => NoIdleSlot
    <2> SUFFICES ASSUME IInv, pc = "wait", ~(next > N) PROVE Busy = Slots
        BY DEF NoIdleSlot
    <2>1. next <= N
        BY SlotFacts DEF IInv, TypeOK, BatchOK
    <2> QED
        BY <2>1 DEF IInv, Loops, Busy
<1> QED
    BY <1>1, Invariance, PTL

\* A file is begun at most once, whatever is resent after a crash:
\* Pool!AtMostOnce.
THEOREM BegunOnce == Spec => []AtMostOnce
<1>1. IInv => AtMostOnce
    BY DEF IInv, Untried, Holding, PipesMatch, Carries, AtMostOnce
<1> QED
    BY <1>1, Invariance, PTL

\* A complete batch leaves no worker process behind: Pool!LeavesNoProcess.
THEOREM NoProcessLeft == Spec => []LeavesNoProcess
<1>1. IInv => LeavesNoProcess
    BY DEF IInv, Strays, LeavesNoProcess
<1> QED
    BY <1>1, Invariance, PTL

\* A slot is blamed for its file only on evidence: Pool!Earned.
THEOREM VerdictsEarned == Spec => Earned
<1>1. IInv /\ [Next]_vars => [BlamedOnEvidence]_vars
    <2> SUFFICES ASSUME IInv, Next, NEW w \in Slots, holder[w] # None, holder'[w] = None
                 PROVE  CASE done'[holder[w]].kind = "crashed" ->
                                Dead(w) /\ worker[w].answer = Nothing
                          [] done'[holder[w]].kind = "overran" -> late[w] /\ w \notin ready
                          [] OTHER -> worker[w].answer.of = holder[w]
        BY DEF BlamedOnEvidence
    <2>0. /\ turn \in Slots /\ worker \in [Slots -> WorkerStates] /\ next \in Nat /\ next # None
          /\ holder \in [Slots -> Files \cup {None}] /\ done \in [Files -> Outcome \cup {Nothing}]
        BY SlotFacts DEF IInv, TypeOK, ControlOK, WorkersOK, BatchOK, None
    <2>1. Settling
        <3>1. CASE SendTask \/ ReplaceAndSend
            BY <2>0, <3>1 DEF SendTask, ReplaceAndSend, Hold
        <3>2. CASE Deliver \/ Resume
            BY <3>2 DEF Deliver, Resume, book
        <3>3. CASE Quiet
            BY <3>3, QuietFacts
        <3> QED
            BY <3>1, <3>2, <3>3, NextKinds
    <2>2. /\ pc = "round" /\ w = turn /\ holder[turn] \in Files
          /\ holder' = [holder EXCEPT ![turn] = None]
        BY <2>0, <2>1, SettlingFacts DEF Settle, IInv
    <2>3. CASE TakeAnswer
        <3>1. worker[turn].answer \in Answers /\ worker[turn].answer.of = holder[turn]
            BY <2>0, <2>3 DEF TakeAnswer, WorkerStates, IInv, PipesMatch, Carries
        <3>2. done'[holder[turn]].kind \in {"report", "failed"}
            BY <2>0, <2>2, <2>3, <3>1 DEF TakeAnswer, Settle, Answers
        <3> QED
            BY <2>2, <3>1, <3>2
    <2>4. CASE FindCrashed
        <3>1. done'[holder[turn]].kind = "crashed" /\ worker[turn].answer = Nothing /\ turn \in ready
            BY <2>0, <2>2, <2>4 DEF FindCrashed, Crashed, SettleLost, Settle
        <3>2. Readable(turn)
            BY <2>0, <2>2, <3>1 DEF IInv, Snapshot
        <3> QED
            BY <2>2, <3>1, <3>2 DEF Readable
    <2>5. CASE GiveUpLate
        <3>1. done'[holder[turn]].kind = "overran" /\ late[turn] /\ turn \notin ready
            BY <2>0, <2>2, <2>5 DEF GiveUpLate, Overran, SettleLost, Settle
        <3> QED
            BY <2>2, <3>1
    <2> QED
        BY <2>1, <2>3, <2>4, <2>5 DEF Settling
<1> QED
    BY <1>1, Invariance, PTL DEF Spec, Earned

\* The pool starts as Batch does.
LEMMA PromiseInit == Init => Promise!Init
BY SlotFacts DEF Init, Promise!Init, Promise!Files, Promise!Pending, Files, VerdictOf, Open

\* Every step of the pool is a step of Batch or none at all.
LEMMA PromiseStep == IInv /\ [Next]_vars => [Promise!Next]_(Promise!vars)
<1> SUFFICES ASSUME IInv, [Next]_vars PROVE [Promise!Next]_(Promise!vars)
    OBVIOUS
<1> DEFINE verdict == [f \in Files |-> VerdictOf(f)]
<1>0. /\ turn \in Slots /\ out \in Seq(Outcome) /\ Len(out) \in Nat /\ Files \subseteq Nat
      /\ done \in [Files -> Outcome \cup {Nothing}] /\ Nothing \notin Outcome
    BY SlotFacts DEF IInv, TypeOK, ControlOK, BatchOK, Nothing, Outcome, Files
<1>1. CASE Settling
    <2>1. PICK o \in Outcome : o.of = holder[turn] /\ Settle(o)
        BY <1>1, SettlingFacts DEF IInv
    <2> DEFINE f == holder[turn]
    <2>2. /\ f \in Files /\ pc = "round" /\ pc' = "hand" /\ out' = out
          /\ done' = [done EXCEPT ![f] = o]
        BY <1>1, <2>1, SettlingFacts DEF Settle, IInv
    <2>3. done[f] = Nothing /\ ~(f <= Len(out))
        BY <1>0, <2>2 DEF IInv, Accounted, Open
    <2>4. VerdictOf(f) = "pending" /\ o.kind \in Kinds
        BY <2>3 DEF VerdictOf, Outcome
    <2>5. verdict' = [verdict EXCEPT ![f] = o.kind]
        BY <1>0, <2>2, <2>3 DEF VerdictOf
    <2>6. Promise!Decide
        BY <2>2, <2>4, <2>5 DEF Promise!Decide, Promise!Files, Promise!Pending, Files, Open
    <2> QED
        BY <2>6 DEF Promise!Next
<1>2. CASE Deliver
    <2> DEFINE f == Len(out) + 1
    <2>1. /\ following = f /\ f \in Files /\ f <= N /\ done[f] # Nothing
          /\ pc = "deliver" /\ pc' = "yield" /\ out' = Append(out, done[f])
          /\ done' = [done EXCEPT ![f] = Nothing]
        BY <1>0, <1>2, SlotFacts DEF Deliver, Settled, IInv, Ordered, Open, Files
    <2>2. /\ done[f] \in Outcome /\ done[f].of = f
          /\ done[f] = [of |-> f, kind |-> done[f].kind] /\ done[f].kind # "pending"
        BY <1>0, <2>1 DEF IInv, Ordered, Outcome, Kinds
    <2>3. verdict[f] = done[f].kind
        BY <1>0, <2>1 DEF VerdictOf
    <2>4. \A g \in Files : VerdictOf(g)' = VerdictOf(g)
        <3>1. Len(out') = f /\ out'[f] = done[f] /\ \A g \in 1 .. Len(out) : out'[g] = out[g]
            BY <1>0, <2>1, <2>2
        <3> QED
            BY <1>0, <2>1, <3>1 DEF VerdictOf, Files
    <2>5. verdict' = verdict
        BY <2>4
    <2>6. Promise!Emit
        <3>1. out' = Append(out, [of |-> f, kind |-> verdict[f]]) /\ verdict[f] # "pending"
            BY <2>1, <2>2, <2>3
        <3> QED
            BY <1>0, <2>1, <2>5, <3>1, SlotFacts DEF Promise!Emit, Promise!Pending, Open
    <2> QED
        BY <2>6 DEF Promise!Next
<1>3. CASE Quiet \/ Resume \/ SendTask \/ ReplaceAndSend
    <2>1. out' = out /\ done' = done /\ (Open' => Open)
        BY <1>3, QuietFacts DEF Resume, SendTask, ReplaceAndSend, Hold, Assigning, Open
    <2>2. verdict' = verdict
        BY <2>1 DEF VerdictOf
    <2>3. CASE Open' = Open
        BY <2>1, <2>2, <2>3 DEF Promise!vars
    <2>4. CASE Open /\ ~Open'
        BY <2>1, <2>2, <2>4 DEF Promise!Next, Promise!Close, Open
    <2> QED
        BY <2>1, <2>3, <2>4 DEF Open
<1> QED
    BY <1>1, <1>2, <1>3, NextKinds

\* The pool implements Batch: every verdict is final, and the caller receives
\* them in order until the batch is closed.
THEOREM PoolKeepsPromise == Spec => KeepsPromise
BY PromiseInit, PromiseStep, Invariance, PTL DEF Spec, KeepsPromise, Promise!Spec
=============================================================================
