----------------------------- MODULE HashProofs ------------------------------
(***************************************************************************)
(* Proofs about Hash, for any number of files and directories.  They rest  *)
(* on the promise of the pool, Batch, and not on the pool itself.          *)
(***************************************************************************)
EXTENDS Hash, TLAPS

\* The analyses taken so far, in the order of the files.
Batched ==
    /\ verdict \in [1 .. N -> Kinds \cup {"pending"}]
    /\ out \in Seq(Items) /\ Len(out) <= N
    /\ \A i \in 1 .. Len(out) : out[i].of = i
    /\ unwalked > 0 => out = <<>>

\* The analysis in hand is the last one taken, or a directory.
InHand ==
    step = "print" => /\ \/ item = Nobody /\ out = <<>>
                         \/ Len(out) > 0 /\ item = out[Len(out)]
                      /\ IsDigest(item) \/ refused

\* The flags cover everything taken, the analysis in hand included.
Flagged ==
    /\ failed => refused
    /\ ~refused => \A i \in 1 .. Len(out) : IsDigest(out[i])

CodeSeen == IF failed THEN INTERNAL ELSE IF refused THEN REFUSED ELSE OK

\* Where an error may be in flight, and what the streams have to do with it.
Phases ==
    /\ step \in {"loop", "print", "json"} => error = "none" /\ ~quietened /\ ~buffer
    /\ step \in {"raised", "main"} => error \in {"epipe", "other"}
    /\ step = "raised" => ~buffer
    /\ step \in {"return", "flush"} => error = "none" \/ (error = "epipe" /\ refused)
    /\ (step \in {"json", "return", "flush"} /\ error = "none") => Len(out) = N
    /\ step = "flush" => code = CodeSeen
    /\ step = "json" => json
    /\ buffer => json
    /\ step # "exited" => exit = Running /\ (error = "none" => ~quietened)

\* An EPIPE is a reader's, if none escapes from the pool.
Readers ==
    "poolpipe" \notin Faults =>
        /\ (step = "raised" /\ error = "epipe") => stdout = "closed" \/ refused
        /\ (step = "main" /\ error = "epipe") => stdout = "closed" /\ (refused => json)

\* The files that have been dealt with.
Done == 1 .. (IF step = "print" /\ item # Nobody THEN Len(out) - 1 ELSE Len(out))
DoneDigests == {out[i] : i \in {j \in Done : IsDigest(out[j])}}
DoneRefusals == {out[i] : i \in {j \in Done : ~IsDigest(out[j])}}

\* Line by line, what was dealt with is what was printed.
Printed ==
    (~json /\ error = "none" /\ step \notin {"raised", "main"}) =>
        /\ ToSet(shown) = DoneDigests /\ InOrder(shown)
        /\ InOrder(told)
        /\ quiet => told = <<>>
        /\ ~quiet => ToSet(told) \ {Nobody} = DoneRefusals

\* The document waits in the buffer or has been written.
Documented ==
    (json /\ step \in {"return", "flush"} /\ error = "none") => buffer \/ shown = out

HInv ==
    /\ TypeOK /\ Batched /\ InHand /\ Flagged /\ Phases /\ Readers /\ Printed /\ Documented
    /\ NothingSilent /\ ("poolpipe" \notin Faults => ExitExplains)
-----------------------------------------------------------------------------
(* Lists.                                                                  *)

\* An appended element joins the others.
LEMMA ToSetAppend ==
    ASSUME NEW T, NEW s \in Seq(T), NEW e \in T
    PROVE  /\ Append(s, e) \in Seq(T)
           /\ ToSet(Append(s, e)) = ToSet(s) \cup {e}
<1>1. /\ Len(Append(s, e)) = Len(s) + 1 /\ Append(s, e)[Len(s) + 1] = e
      /\ \A i \in 1 .. Len(s) : Append(s, e)[i] = s[i]
      /\ DOMAIN s = 1 .. Len(s) /\ DOMAIN Append(s, e) = 1 .. Len(s) + 1
      /\ Len(s) \in Nat
    OBVIOUS
<1>2. ASSUME NEW x \in ToSet(Append(s, e)) PROVE x \in ToSet(s) \cup {e}
    BY <1>1 DEF ToSet
<1>3. ASSUME NEW x \in ToSet(s) \cup {e} PROVE x \in ToSet(Append(s, e))
    <2>1. CASE x = e
        <3>1. Len(s) + 1 \in DOMAIN Append(s, e)
            BY <1>1
        <3> QED
            BY <1>1, <2>1, <3>1 DEF ToSet
    <2>2. CASE x \in ToSet(s)
        <3>1. PICK i \in 1 .. Len(s) : x = s[i]
            BY <1>1, <2>2 DEF ToSet
        <3>2. i \in DOMAIN Append(s, e) /\ Append(s, e)[i] = x
            BY <1>1, <3>1
        <3> QED
            BY <3>2 DEF ToSet
    <2> QED
        BY <1>3, <2>1, <2>2
<1> QED
    BY <1>2, <1>3

\* A list stays in order when what is appended comes after all of it.
LEMMA InOrderAppend ==
    ASSUME NEW s \in Seq(Items), NEW e \in Items, InOrder(s),
           e.of # 0 => \A x \in ToSet(s) : x.of < e.of
    PROVE  InOrder(Append(s, e))
<1>1. /\ \A i \in 1 .. Len(s) : Append(s, e)[i] = s[i] /\ s[i] \in ToSet(s)
      /\ Append(s, e)[Len(s) + 1] = e
      /\ DOMAIN Append(s, e) = 1 .. Len(s) + 1 /\ DOMAIN s = 1 .. Len(s) /\ Len(s) \in Nat
    BY DEF ToSet
<1> QED
    BY <1>1 DEF InOrder

\* The invariant holds at the start.
LEMMA HashInit == Init => HInv
<1> SUFFICES ASSUME Init PROVE HInv
    OBVIOUS
<1> USE HashAssumption DEF Init, Analyses!Init, Analyses!Files, Analyses!Pending
<1>1. TypeOK
    <2>1. json \in BOOLEAN /\ quiet \in BOOLEAN /\ refused \in BOOLEAN /\ failed \in BOOLEAN
          /\ buffer \in BOOLEAN /\ quietened \in BOOLEAN
        OBVIOUS
    <2>2. item \in Items
        BY DEF Items, Nobody, Kinds
    <2>3. shown \in Seq(Items) /\ told \in Seq(Items)
        OBVIOUS
    <2>4. unwalked \in 0 .. Unwalked /\ code = OK /\ exit = Running
        OBVIOUS
    <2> QED
        BY <2>1, <2>2, <2>3, <2>4 DEF TypeOK
<1>2. Batched
    <2>1. <<>> \in Seq(Items) /\ Len(<<>>) = 0
        OBVIOUS
    <2> QED
        BY <2>1 DEF Batched
<1>3. InHand /\ Phases /\ Readers /\ Documented /\ NothingSilent /\ ExitExplains
    BY DEF InHand, Phases, Readers, Documented, NothingSilent, ExitExplains, OK, REFUSED,
           INTERNAL, Running
<1>4. Flagged
    BY DEF Flagged
<1>5. Printed
    <2>1. Done = {}
        BY DEF Done
    <2>2. ToSet(<<>>) = {}
        BY DEF ToSet
    <2> QED
        BY <2>1, <2>2 DEF Printed, DoneDigests, DoneRefusals, InOrder
<1> QED
    BY <1>1, <1>2, <1>3, <1>4, <1>5 DEF HInv
-----------------------------------------------------------------------------
(* The loop.                                                               *)

\* Until the command exits its exit code claims nothing.
LEMMA Unfinished == exit' = Running => NothingSilent' /\ ExitExplains'
BY DEF NothingSilent, ExitExplains, Running, OK, REFUSED, INTERNAL

\* A directory is told apart from every file by its number.
LEMMA NobodyIs == Nobody \in Items /\ Nobody.kind = "refused" /\ Nobody.of = 0
<1>1. 0 \in 0 .. N
    BY HashAssumption
<1> QED
    BY <1>1 DEF Nobody, Items, Kinds

\* A refusal of a directory is taken.
LEMMA UnwalkedKeeps == ASSUME HInv, NextUnwalked PROVE HInv'
<1> USE DEF HInv, NextUnwalked, Seen, pool, options, flags, streams, printed
<1>1. Nobody \in Items /\ Nobody.kind = "refused" /\ Nobody.of = 0
    BY NobodyIs
<1>2. out = <<>> /\ Len(out) = 0
    BY HashAssumption DEF Batched, TypeOK
<1>3. TypeOK'
    <2>1. unwalked' \in 0 .. Unwalked
        BY HashAssumption DEF TypeOK
    <2>2. refused' \in BOOLEAN /\ failed' \in BOOLEAN /\ item' \in Items /\ step' = "print"
        BY <1>1 DEF TypeOK
    <2> QED
        BY <2>1, <2>2 DEF TypeOK
<1>4. Batched' /\ InHand'
    BY <1>2, <1>1 DEF Batched, InHand, IsDigest
<1>5. Flagged'
    BY <1>1, <1>2 DEF Flagged
<1>6. Phases' /\ Readers' /\ Documented'
    BY DEF Phases, Readers, Documented
<1>7. Printed'
    <2>1. Done = {} /\ Done' = {}
        BY <1>2 DEF Done
    <2>2. DoneDigests' = DoneDigests /\ DoneRefusals' = DoneRefusals
        BY <2>1 DEF DoneDigests, DoneRefusals
    <2> QED
        BY <2>2 DEF Printed, InOrder
<1>8. exit' = Running
    BY DEF Phases
<1> QED
    BY <1>3, <1>4, <1>5, <1>6, <1>7, <1>8, Unfinished

\* The next analysis of the batch is taken.
LEMMA AnalysisKeeps == ASSUME HInv, NextAnalysis PROVE HInv'
<1> DEFINE f == Len(out) + 1
           a == [of |-> f, kind |-> verdict[f]]
<1> USE DEF HInv, flags, streams, printed, options
<1>1. /\ step = "loop" /\ unwalked = 0 /\ Len(out) < N /\ verdict[f] # "pending"
      /\ out' = Append(out, a) /\ verdict' = verdict
      /\ item' = Last(out') /\ step' = "print"
      /\ refused' = (refused \/ item'.kind # "digest")
      /\ failed' = (failed \/ item'.kind = "internal")
      /\ UNCHANGED <<options, unwalked, error, code, printed, streams, exit>>
    BY DEF NextAnalysis, Seen, Analyses!Emit, Analyses!Pending
<1>2. out \in Seq(Items) /\ Len(out) \in Nat
    BY DEF Batched
<1>3. a \in Items /\ a.of = f /\ f \in 1 .. N
    <2>1. f \in 1 .. N
        BY <1>1, <1>2, HashAssumption
    <2>2. verdict[f] \in Kinds
        BY <1>1, <2>1 DEF Batched
    <2> QED
        BY <2>1, <2>2 DEF Items
<1>4. /\ out' \in Seq(Items) /\ Len(out') = f /\ out'[f] = a
      /\ \A i \in 1 .. Len(out) : out'[i] = out[i]
    BY <1>1, <1>2, <1>3
<1>5. item' = a
    BY <1>1, <1>4 DEF Last
<1>6. a # Nobody
    BY <1>2, <1>3 DEF Nobody
<1>7. TypeOK'
    <2>1. refused' \in BOOLEAN /\ failed' \in BOOLEAN /\ item' \in Items
        BY <1>1, <1>3, <1>5 DEF TypeOK
    <2> QED
        BY <1>1, <2>1 DEF TypeOK
<1>8. Batched' /\ InHand'
    <2>1. Batched'
        <3>1. \A i \in 1 .. Len(out') : out'[i].of = i
            BY <1>2, <1>3, <1>4 DEF Batched
        <3> QED
            BY <1>1, <1>2, <1>3, <1>4, <3>1 DEF Batched
    <2>2. InHand'
        <3>1. Len(out') > 0 /\ item' = out'[Len(out')]
            BY <1>2, <1>4, <1>5
        <3>2. IsDigest(item') \/ refused'
            BY <1>1 DEF IsDigest
        <3> QED
            BY <3>1, <3>2 DEF InHand, IsDigest
    <2> QED
        BY <2>1, <2>2
<1>9. Flagged'
    <2>1. failed' => refused'
        BY <1>1 DEF Flagged
    <2>2. ASSUME ~refused', NEW i \in 1 .. Len(out') PROVE IsDigest(out'[i])
        <3>1. CASE i = f
            BY <1>1, <1>4, <1>5, <2>2, <3>1 DEF IsDigest
        <3>2. CASE i # f
            <4>1. i \in 1 .. Len(out)
                BY <1>2, <1>4, <3>2
            <4> QED
                BY <1>1, <1>4, <2>2, <4>1 DEF Flagged, IsDigest
        <3> QED
            BY <3>1, <3>2
    <2> QED
        BY <2>1, <2>2 DEF Flagged, IsDigest
<1>10. Phases' /\ Readers' /\ Documented'
    BY <1>1 DEF Phases, Readers, Documented
<1>11. Printed'
    <2>1. Done = 1 .. Len(out) /\ Done' = 1 .. Len(out)
        BY <1>1, <1>2, <1>4, <1>5, <1>6 DEF Done, Nobody
    <2>2. DoneDigests' = DoneDigests /\ DoneRefusals' = DoneRefusals
        BY <1>4, <2>1 DEF DoneDigests, DoneRefusals
    <2> QED
        BY <1>1, <2>2 DEF Printed, InOrder
<1>12. exit' = Running
    BY <1>1 DEF Phases
<1> QED
    BY <1>7, <1>8, <1>9, <1>10, <1>11, <1>12, Unfinished

\* The batch has no more.
LEMMA ExhaustedKeeps == ASSUME HInv, Exhausted PROVE HInv'
<1> USE DEF HInv, flags, streams, printed, options
<1>1. /\ step = "loop" /\ unwalked = 0 /\ Len(out) = N
      /\ step' = (IF json THEN "json" ELSE "return") /\ verdict' = verdict /\ out' = out
      /\ UNCHANGED <<options, unwalked, flags, item, error, code, printed, streams, exit>>
    BY DEF Exhausted, Analyses!Close
<1>2. TypeOK' /\ Batched' /\ InHand' /\ Flagged'
    BY <1>1 DEF TypeOK, Batched, InHand, Flagged
<1>3. Phases' /\ Readers' /\ Documented'
    BY <1>1 DEF Phases, Readers, Documented
<1>4. Printed'
    <2>1. Done' = Done
        BY <1>1 DEF Done
    <2>2. DoneDigests' = DoneDigests /\ DoneRefusals' = DoneRefusals
        BY <1>1, <2>1 DEF DoneDigests, DoneRefusals
    <2> QED
        BY <1>1, <2>2 DEF Printed, InOrder
<1>5. exit' = Running
    BY <1>1 DEF Phases
<1> QED
    BY <1>2, <1>3, <1>4, <1>5, Unfinished
-----------------------------------------------------------------------------
(* Exceptions in the loop.                                                 *)

\* An exception in the loop, an EPIPE only from a reader who left.
LEMMA RaiseKeeps ==
    ASSUME HInv, NEW what \in {"epipe", "other"}, Raise(what),
           step \in {"loop", "print", "json"},
           ("poolpipe" \notin Faults /\ what = "epipe") => stdout = "closed" \/ refused
    PROVE  HInv'
<1> USE DEF HInv, flags, streams, printed, options
<1>1. /\ error' = what /\ step' = "raised" /\ verdict' = verdict /\ out' = out
      /\ UNCHANGED <<options, unwalked, flags, item, code, printed, streams, exit>>
    BY DEF Raise
<1>2. TypeOK' /\ Batched' /\ InHand' /\ Flagged'
    BY <1>1 DEF TypeOK, Batched, InHand, Flagged
<1>3. Phases' /\ Readers' /\ Documented' /\ Printed'
    BY <1>1 DEF Phases, Readers, Documented, Printed
<1>4. exit' = Running
    BY <1>1 DEF Phases
<1> QED
    BY <1>2, <1>3, <1>4, Unfinished

\* The pool raises.
LEMMA PoolRaisesKeeps == ASSUME HInv, PoolRaises PROVE HInv'
<1>1. PICK what \in PoolErrors : Raise(what) /\ step = "loop"
    BY DEF PoolRaises
<1>2. what \in {"epipe", "other"} /\ (what = "epipe" => "poolpipe" \in Faults)
    BY DEF PoolErrors
<1> QED
    BY <1>1, <1>2, RaiseKeeps

\* A write to stdout fails.
LEMMA WriteFailsKeeps ==
    ASSUME HInv, WriteFails, step \in {"print", "json"}
    PROVE  HInv'
BY RaiseKeeps DEF WriteFails
-----------------------------------------------------------------------------
(* Printing.                                                               *)

\* What has been dealt with, once the analysis in hand is.
LEMMA NowDone ==
    ASSUME HInv, step = "print", step' = "loop", out' = out, item' = item
    PROVE  /\ DoneDigests' = DoneDigests \cup (IF IsDigest(item) THEN {item} ELSE {})
           /\ DoneRefusals' \ {Nobody} =
                 DoneRefusals \cup (IF IsDigest(item) \/ item = Nobody THEN {} ELSE {item})
           /\ item # Nobody => /\ item.of = Len(out) /\ item.of # 0
                               /\ \A x \in DoneDigests \cup DoneRefusals : x.of < item.of
           /\ \A x \in DoneDigests \cup DoneRefusals : x # Nobody
           /\ DoneRefusals' = DoneRefusals' \ {Nobody}
           /\ item \in Items
           /\ item = Nobody => DoneDigests = {} /\ DoneRefusals = {} /\ out = <<>>
<1> USE DEF HInv
<1>1. /\ item \in Items /\ Len(out) \in Nat
      /\ \A i \in 1 .. Len(out) : out[i].of = i
    BY DEF TypeOK, Batched
<1>2. \A i \in 1 .. Len(out) : out[i] # Nobody
    BY <1>1, NobodyIs
<1>3. CASE item = Nobody
    <2>1. out = <<>>
        <3>1. ~(Len(out) > 0 /\ item = out[Len(out)])
            BY <1>1, <1>2, <1>3
        <3> QED
            BY <3>1 DEF InHand
    <2>2. Done = {} /\ Done' = {}
        BY <2>1, <1>3 DEF Done
    <2>3. DoneDigests = {} /\ DoneRefusals = {} /\ DoneDigests' = {} /\ DoneRefusals' = {}
        BY <2>2 DEF DoneDigests, DoneRefusals
    <2>4. ~IsDigest(item)
        BY <1>3, NobodyIs DEF IsDigest
    <2> QED
        BY <1>1, <1>3, <2>1, <2>3, <2>4
<1>4. CASE item # Nobody
    <2> DEFINE n == Len(out)
    <2>1. n > 0 /\ item = out[n] /\ n \in Nat
        BY <1>1, <1>4 DEF InHand
    <2>2. Done = 1 .. n - 1 /\ Done' = 1 .. n /\ Done' = Done \cup {n}
        BY <2>1, <1>4 DEF Done
    <2>3. DoneDigests' = DoneDigests \cup (IF IsDigest(item) THEN {item} ELSE {})
        BY <2>1, <2>2 DEF DoneDigests
    <2>4. DoneRefusals' = DoneRefusals \cup (IF IsDigest(item) THEN {} ELSE {item})
        BY <2>1, <2>2 DEF DoneRefusals
    <2>5. \A x \in DoneDigests \cup DoneRefusals : x.of < n /\ x # Nobody
        <3> SUFFICES ASSUME NEW x \in DoneDigests \cup DoneRefusals PROVE x.of < n /\ x # Nobody
            OBVIOUS
        <3>1. PICK i \in Done : x = out[i]
            BY DEF DoneDigests, DoneRefusals
        <3> QED
            BY <1>1, <1>2, <2>1, <2>2, <3>1
    <2>6. item.of = n /\ n # 0
        BY <1>1, <2>1
    <2> QED
        BY <1>1, <1>4, <2>3, <2>4, <2>5, <2>6
<1> QED
    BY <1>3, <1>4

\* Whatever is printed, or not, the loop goes on.
LEMMA LoopGoesOn ==
    ASSUME HInv, step = "print", step' = "loop",
           UNCHANGED <<pool, options, unwalked, flags, item, error, code, buffer, streams, exit>>,
           shown' \in Seq(Items), told' \in Seq(Items), Printed'
    PROVE  HInv'
<1> USE DEF HInv, pool, flags, streams, options
<1>1. TypeOK' /\ Batched' /\ InHand' /\ Flagged'
    BY DEF TypeOK, Batched, InHand, Flagged
<1>2. Phases' /\ Readers' /\ Documented'
    BY DEF Phases, Readers, Documented
<1>3. exit' = Running
    BY DEF Phases
<1> QED
    BY <1>1, <1>2, <1>3, Unfinished

\* A record of --json, or a refusal under --quiet.
LEMMA SilentKeeps == ASSUME HInv, KeepSilent PROVE HInv'
<1> USE DEF KeepSilent, printed, pool
<1>1. shown' \in Seq(Items) /\ told' \in Seq(Items)
    BY DEF HInv, TypeOK
<1>2. Printed'
    <2> SUFFICES ASSUME ~json, error = "none" PROVE Printed'
        BY DEF Printed, options
    <2>1. quiet /\ ~IsDigest(item)
        BY DEF IsDigest
    <2>2. DoneDigests' = DoneDigests
        BY <2>1, NowDone
    <2> QED
        BY <2>1, <2>2 DEF HInv, Printed, InOrder, options
<1> QED
    BY <1>1, <1>2, LoopGoesOn

\* A digest.
LEMMA DigestKeeps == ASSUME HInv, PrintDigest PROVE HInv'
<1>1. CASE stdout # "open"
    BY <1>1, WriteFailsKeeps DEF PrintDigest
<1>2. CASE stdout = "open"
    <2>1. /\ step = "print" /\ ~json /\ item.kind = "digest"
          /\ shown' = Append(shown, item) /\ step' = "loop" /\ told' = told
          /\ UNCHANGED <<pool, options, unwalked, flags, item, error, code, buffer, streams, exit>>
        BY <1>2 DEF PrintDigest
    <2>2. out' = out /\ item' = item /\ json' = json /\ quiet' = quiet /\ error' = error
        BY <2>1 DEF pool, options
    <2>3. error = "none"
        BY <2>1 DEF HInv, Phases
    <2>4. shown \in Seq(Items) /\ told \in Seq(Items) /\ item \in Items
        BY DEF HInv, TypeOK
    <2>5. shown' \in Seq(Items) /\ ToSet(shown') = ToSet(shown) \cup {item}
        BY <2>1, <2>4, ToSetAppend
    <2>6. item # Nobody /\ IsDigest(item)
        BY <2>1, NobodyIs DEF IsDigest
    <2>7. ToSet(shown) = DoneDigests /\ InOrder(shown)
        BY <2>1, <2>3 DEF HInv, Printed
    <2>8. InOrder(shown')
        <3>1. \A x \in ToSet(shown) : x.of < item.of
            BY <2>1, <2>2, <2>6, <2>7, NowDone
        <3> QED
            BY <2>1, <2>4, <2>7, <3>1, InOrderAppend
    <2>9. ToSet(shown') = DoneDigests'
        BY <2>1, <2>2, <2>5, <2>6, <2>7, NowDone
    <2>10. DoneRefusals' = DoneRefusals
        BY <2>1, <2>2, <2>6, NowDone
    <2>11. Printed'
        BY <2>1, <2>2, <2>3, <2>8, <2>9, <2>10 DEF HInv, Printed, InOrder
    <2> QED
        BY <2>1, <2>4, <2>5, <2>11, LoopGoesOn
<1> QED
    BY <1>1, <1>2

\* A refusal.
LEMMA RefusalKeeps == ASSUME HInv, PrintRefusal PROVE HInv'
<1>1. CASE stderr # "open"
    <2>1. refused
        <3>1. step = "print" /\ ~IsDigest(item)
            BY DEF PrintRefusal, IsDigest
        <3> QED
            BY <3>1 DEF HInv, InHand
    <2> QED
        BY <1>1, <2>1, RaiseKeeps DEF PrintRefusal
<1>2. CASE stderr = "open"
    <2>1. /\ step = "print" /\ ~json /\ item.kind # "digest" /\ ~quiet
          /\ told' = Append(told, item) /\ step' = "loop" /\ shown' = shown
          /\ UNCHANGED <<pool, options, unwalked, flags, item, error, code, buffer, streams, exit>>
        BY <1>2 DEF PrintRefusal
    <2>2. out' = out /\ item' = item /\ json' = json /\ quiet' = quiet /\ error' = error
        BY <2>1 DEF pool, options
    <2>3. error = "none"
        BY <2>1 DEF HInv, Phases
    <2>4. shown \in Seq(Items) /\ told \in Seq(Items) /\ item \in Items
        BY DEF HInv, TypeOK
    <2>5. told' \in Seq(Items) /\ ToSet(told') = ToSet(told) \cup {item}
        BY <2>1, <2>4, ToSetAppend
    <2>6. ~IsDigest(item)
        BY <2>1 DEF IsDigest
    <2>7. ToSet(told) \ {Nobody} = DoneRefusals /\ InOrder(told)
        BY <2>1, <2>3 DEF HInv, Printed
    <2>8. InOrder(told')
        <3>1. item.of # 0 => \A x \in ToSet(told) : x.of < item.of
            <4> SUFFICES ASSUME item.of # 0, NEW x \in ToSet(told) PROVE x.of < item.of
                OBVIOUS
            <4>1. item # Nobody
                BY NobodyIs
            <4>2. CASE x = Nobody
                BY <2>4, <4>2, NobodyIs DEF Items
            <4>3. CASE x # Nobody
                BY <2>1, <2>2, <2>7, <4>1, <4>3, NowDone
            <4> QED
                BY <4>2, <4>3
        <3> QED
            BY <2>1, <2>4, <2>7, <3>1, InOrderAppend
    <2>9. ToSet(told') \ {Nobody} = DoneRefusals' /\ DoneDigests' = DoneDigests
        BY <2>1, <2>2, <2>5, <2>6, <2>7, NowDone
    <2>10. Printed'
        BY <2>1, <2>2, <2>3, <2>8, <2>9 DEF HInv, Printed, InOrder
    <2> QED
        BY <2>1, <2>4, <2>5, <2>10, LoopGoesOn
<1> QED
    BY <1>1, <1>2

\* The document.
LEMMA JsonKeeps == ASSUME HInv, PrintJson PROVE HInv'
<1>1. step = "json" /\ json
    BY DEF PrintJson, HInv, Phases
<1>2. CASE WriteFails
    BY <1>1, <1>2, WriteFailsKeeps
<1>3. CASE /\ step' = "return" /\ told' = told
           /\ UNCHANGED <<pool, options, unwalked, flags, item, error, code, streams, exit>>
           /\ \/ buffer' = TRUE /\ shown' = shown
              \/ buffer' = buffer /\ shown' = out
    <2> USE <1>1, <1>3 DEF HInv, pool, options, flags, streams
    <2>1. TypeOK'
        <3>1. shown' \in Seq(Items) /\ buffer' \in BOOLEAN
            <4>1. CASE buffer' = TRUE /\ shown' = shown
                BY <4>1 DEF TypeOK
            <4>2. CASE buffer' = buffer /\ shown' = out
                BY <4>2 DEF TypeOK, Batched
            <4> QED
                BY <4>1, <4>2
        <3> QED
            BY <3>1 DEF TypeOK
    <2>2. Batched' /\ InHand' /\ Flagged'
        BY DEF Batched, InHand, Flagged
    <2>3. Phases' /\ Readers' /\ Documented' /\ Printed'
        BY DEF Phases, Readers, Documented, Printed, TypeOK
    <2>4. exit' = Running
        BY DEF Phases
    <2> QED
        BY <2>1, <2>2, <2>3, <2>4, Unfinished
<1> QED
    BY <1>2, <1>3 DEF PrintJson
-----------------------------------------------------------------------------
(* The way out.                                                            *)

\* What is left to do after the loop does not change what was dealt with.
LEMMA StillPrinted ==
    ASSUME HInv, UNCHANGED <<out, item, json, quiet, error, shown, told>>,
           step # "print", step' # "print",
           step \notin {"raised", "main"} \/ error # "none"
    PROVE  Printed'
<1>1. Done' = Done
    BY DEF Done
<1>2. DoneDigests' = DoneDigests /\ DoneRefusals' = DoneRefusals
    BY <1>1 DEF DoneDigests, DoneRefusals
<1> QED
    BY <1>2 DEF HInv, Printed, InOrder

\* The exception is caught, and a refusal keeps an EPIPE from main.
LEMMA CatchKeeps == ASSUME HInv, Catch PROVE HInv'
<1> USE DEF HInv, Catch, pool, options, flags, printed
<1>1. error \in {"epipe", "other"} /\ step = "raised" /\ step' \in {"return", "main"}
    BY DEF Phases
<1>2. TypeOK'
    <2>1. quietened' \in BOOLEAN
        <3>1. quietened' = TRUE \/ quietened' = quietened
            OBVIOUS
        <3> QED
            BY <3>1 DEF TypeOK
    <2> QED
        BY <1>1, <2>1 DEF TypeOK
<1>3. Batched' /\ InHand' /\ Flagged'
    BY <1>1 DEF Batched, InHand, Flagged
<1>4. Phases' /\ Readers' /\ Documented'
    BY <1>1 DEF Phases, Readers, Documented, TypeOK
<1>5. Printed'
    BY <1>1, StillPrinted
<1>6. exit' = Running
    BY DEF Phases
<1> QED
    BY <1>2, <1>3, <1>4, <1>5, <1>6, Unfinished

\* The exit code is settled.
LEMMA ReturnKeeps == ASSUME HInv, Return PROVE HInv'
<1> USE DEF HInv, Return, pool, options, flags, printed, streams
<1>1. TypeOK'
    BY DEF TypeOK
<1>2. Batched' /\ InHand' /\ Flagged'
    BY DEF Batched, InHand, Flagged
<1>3. Phases' /\ Readers' /\ Documented'
    BY DEF Phases, Readers, Documented, CodeSeen
<1>4. Printed'
    BY StillPrinted
<1>5. exit' = Running
    BY DEF Phases
<1> QED
    BY <1>1, <1>2, <1>3, <1>4, <1>5, Unfinished

\* The buffer of stdout is flushed, and the command exits unless that fails.
LEMMA FlushKeeps == ASSUME HInv, Flush PROVE HInv'
<1> USE DEF HInv, pool, options, flags, printed, streams
<1>1. CASE ~buffer \/ stdout = "open" \/ quietened
    <2>1. /\ step = "flush" /\ step' = "exited" /\ exit' = code /\ buffer' = FALSE
          /\ shown' = (IF buffer /\ ~quietened THEN out ELSE shown)
          /\ UNCHANGED <<pool, options, unwalked, flags, item, code, told, stdout, stderr>>
          /\ UNCHANGED <<error, quietened>>
        BY <1>1 DEF Flush, Exit
    <2>2. code = CodeSeen /\ exit = Running
        BY <2>1 DEF Phases
    <2>3. error = "none" \/ (error = "epipe" /\ refused)
        BY <2>1 DEF Phases
    <2>4. ~json => shown' = shown
        BY <2>1 DEF Phases
    <2>5. TypeOK'
        BY <2>1 DEF TypeOK, Batched
    <2>6. Batched' /\ InHand' /\ Flagged'
        BY <2>1 DEF Batched, InHand, Flagged
    <2>7. Phases' /\ Readers' /\ Documented'
        BY <2>1, <2>3 DEF Phases, Readers, Documented
    <2>8. Printed'
        <3>1. Done' = Done
            BY <2>1 DEF Done
        <3>2. DoneDigests' = DoneDigests /\ DoneRefusals' = DoneRefusals
            BY <2>1, <3>1 DEF DoneDigests, DoneRefusals
        <3> QED
            BY <2>1, <2>4, <3>2 DEF Printed, InOrder
    <2>9. NothingSilent'
        <3> SUFFICES ASSUME error = "none" PROVE NothingSilent'
            BY <2>1 DEF NothingSilent
        <3>1. Len(out) = N /\ ~quietened
            BY <2>1 DEF Phases
        <3>2. json => shown' = out
            BY <2>1, <3>1 DEF Documented
        <3>3. Done = DOMAIN out
            BY <2>1 DEF Done, Batched
        <3>4. Digests' = DoneDigests /\ Refusals' = DoneRefusals
            BY <2>1, <3>3 DEF Digests, Refusals, DoneDigests, DoneRefusals
        <3> QED
            BY <2>1, <2>4, <3>1, <3>2, <3>4 DEF Printed, InOrder, NothingSilent
    <2>10. "poolpipe" \notin Faults => ExitExplains'
        <3>1. exit' = CodeSeen /\ exit' # Running
            BY <2>1, <2>2 DEF CodeSeen, OK, REFUSED, INTERNAL, Running
        <3>2. ~refused => AllDigested
            <4> SUFFICES ASSUME ~refused PROVE AllDigested
                OBVIOUS
            <4>1. Len(out) = N
                BY <2>1, <2>3 DEF Phases
            <4> QED
                BY <4>1 DEF Flagged, AllDigested
        <3>3. failed => refused
            BY DEF Flagged
        <3> QED
            BY <2>1, <3>1, <3>2, <3>3
               DEF ExitExplains, CodeSeen, OK, REFUSED, INTERNAL, Running, Uncaught, AllDigested
    <2> QED
        BY <2>5, <2>6, <2>7, <2>8, <2>9, <2>10
<1>2. CASE ~(~buffer \/ stdout = "open" \/ quietened)
    <2>1. /\ step = "flush" /\ step' = "main"
          /\ error' = (IF stdout = "closed" THEN "epipe" ELSE "other")
          /\ UNCHANGED <<pool, options, unwalked, flags, item, code, printed, streams, exit>>
        BY <1>2 DEF Flush
    <2>2. TypeOK' /\ Batched' /\ InHand' /\ Flagged'
        BY <2>1 DEF TypeOK, Batched, InHand, Flagged
    <2>3. Phases' /\ Documented' /\ Printed'
        BY <2>1 DEF Phases, Documented, Printed
    <2>4. Readers'
        BY <1>2, <2>1 DEF Readers, Phases
    <2>5. exit' = Running
        BY <2>1 DEF Phases
    <2> QED
        BY <2>2, <2>3, <2>4, <2>5, Unfinished
<1> QED
    BY <1>1, <1>2

\* main ends the run after an exception.
LEMMA MainKeeps == ASSUME HInv, MainCatches PROVE HInv'
<1> USE DEF HInv, pool, options, flags, printed, streams
<1>1. /\ step = "main" /\ step' = "exited"
      /\ exit' = (IF error = "epipe" THEN OK ELSE IF stderr = "open" THEN INTERNAL ELSE Uncaught)
      /\ UNCHANGED <<pool, options, unwalked, flags, item, code, told, stdout, stderr>>
      /\ UNCHANGED <<buffer, shown, error>>
    BY DEF MainCatches, Exit
<1>2. error \in {"epipe", "other"}
    BY <1>1 DEF Phases
<1>3. quietened' \in BOOLEAN
    <2>1. CASE error = "epipe"
        BY <2>1 DEF MainCatches
    <2>2. CASE error # "epipe"
        <3>1. quietened' = (quietened \/ (buffer /\ stdout # "open" /\ stderr = "open"))
            BY <2>2 DEF MainCatches
        <3> QED
            BY <3>1
    <2> QED
        BY <2>1, <2>2
<1>4. TypeOK'
    BY <1>1, <1>3 DEF TypeOK
<1>5. Batched' /\ InHand' /\ Flagged'
    BY <1>1 DEF Batched, InHand, Flagged
<1>6. Phases' /\ Readers' /\ Documented' /\ Printed' /\ NothingSilent'
    BY <1>1, <1>2 DEF Phases, Readers, Documented, Printed, NothingSilent
<1>7. "poolpipe" \notin Faults => ExitExplains'
    <2>1. failed => refused
        BY DEF Flagged
    <2> QED
        BY <1>1, <1>2, <2>1 DEF ExitExplains, Readers, OK, REFUSED, INTERNAL, Running, Uncaught
<1> QED
    BY <1>4, <1>5, <1>6, <1>7
-----------------------------------------------------------------------------
(* The surroundings.                                                       *)

\* The pool settles a file.
LEMMA SettledKeeps == ASSUME HInv, Decide PROVE HInv'
<1> USE DEF HInv, options, flags, printed, streams
<1>1. /\ out' = out
      /\ UNCHANGED <<options, unwalked, step, flags, item, error, code, printed, streams, exit>>
      /\ \E f \in 1 .. N, k \in Kinds : verdict' = [verdict EXCEPT ![f] = k]
    BY DEF Decide, Analyses!Decide, Analyses!Files
<1>2. Batched'
    <2>1. verdict' \in [1 .. N -> Kinds \cup {"pending"}]
        BY <1>1 DEF Batched
    <2> QED
        BY <1>1, <2>1 DEF Batched
<1>3. TypeOK' /\ InHand' /\ Flagged'
    BY <1>1 DEF TypeOK, InHand, Flagged
<1>4. Phases' /\ Readers' /\ Documented'
    BY <1>1 DEF Phases, Readers, Documented, CodeSeen
<1>5. Done' = Done
    BY <1>1 DEF Done
<1>6. Printed'
    BY <1>1, <1>5 DEF Printed, DoneDigests, DoneRefusals, InOrder
<1>7. NothingSilent'
    BY <1>1 DEF NothingSilent, Digests, Refusals, InOrder
<1>8. "poolpipe" \notin Faults => ExitExplains'
    BY <1>1 DEF ExitExplains, AllDigested
<1> QED
    BY <1>2, <1>3, <1>4, <1>6, <1>7, <1>8

\* A stream fails, until the command has ended.
LEMMA StreamKeeps == ASSUME HInv, StreamFails PROVE HInv'
<1> USE DEF HInv, pool, options, flags, printed
<1>1. /\ step # "exited"
      /\ stdout' = stdout \/ (stdout = "open" /\ stdout' \in {"closed", "full"})
      /\ stderr' \in {"open", "closed"}
      /\ UNCHANGED <<pool, options, unwalked, step, flags, item, error, code, printed,
                     quietened, exit>>
    BY DEF StreamFails, TypeOK
<1>2. TypeOK'
    BY <1>1 DEF TypeOK
<1>3. Batched' /\ InHand' /\ Flagged'
    BY <1>1 DEF Batched, InHand, Flagged
<1>4. Phases' /\ Readers' /\ Documented'
    BY <1>1 DEF Phases, Readers, Documented, CodeSeen
<1>5. Done' = Done
    BY <1>1 DEF Done
<1>6. Printed'
    BY <1>1, <1>5 DEF Printed, DoneDigests, DoneRefusals, InOrder
<1>7. exit' = Running
    BY <1>1 DEF Phases
<1> QED
    BY <1>2, <1>3, <1>4, <1>6, <1>7, Unfinished
-----------------------------------------------------------------------------
(* The theorems.                                                           *)

\* Every reachable state satisfies the invariant.
THEOREM HashInvariance == Spec => []HInv
<1>1. Init => HInv
    BY HashInit
<1>2. HInv /\ [Next]_vars => HInv'
    <2> SUFFICES ASSUME HInv, [Next]_vars PROVE HInv'
        OBVIOUS
    <2>1. CASE UNCHANGED vars
        <3> USE <2>1 DEF vars, HInv, pool, options, flags, printed, streams
        <3>1. TypeOK' /\ Batched' /\ InHand' /\ Flagged'
            BY DEF TypeOK, Batched, InHand, Flagged
        <3>2. Phases' /\ Readers' /\ Documented'
            BY DEF Phases, Readers, Documented, CodeSeen
        <3>3. Done' = Done
            BY DEF Done
        <3>4. Printed'
            BY <3>3 DEF Printed, DoneDigests, DoneRefusals, InOrder
        <3>5. NothingSilent'
            BY DEF NothingSilent, Digests, Refusals, InOrder
        <3>6. "poolpipe" \notin Faults => ExitExplains'
            BY DEF ExitExplains, AllDigested
        <3> QED
            BY <3>1, <3>2, <3>4, <3>5, <3>6
    <2>2. CASE Next
        <3>1. CASE NextUnwalked \/ NextAnalysis \/ Exhausted \/ PoolRaises
            BY <3>1, UnwalkedKeeps, AnalysisKeeps, ExhaustedKeeps, PoolRaisesKeeps
        <3>2. CASE KeepSilent \/ PrintDigest \/ PrintRefusal \/ PrintJson
            BY <3>2, SilentKeeps, DigestKeeps, RefusalKeeps, JsonKeeps
        <3>3. CASE Catch \/ Return \/ Flush \/ MainCatches \/ Decide \/ StreamFails
            BY <3>3, CatchKeeps, ReturnKeeps, FlushKeeps, MainKeeps, SettledKeeps, StreamKeeps
        <3>4. CASE Terminated
            BY <2>1, <3>4 DEF Terminated
        <3> QED
            BY <2>2, <3>1, <3>2, <3>3, <3>4 DEF Next
    <2> QED
        BY <2>1, <2>2
<1> QED
    BY <1>1, <1>2, PTL DEF Spec

\* The variables of the command have their types.
THEOREM HashTypes == Spec => []TypeOK
BY HashInvariance, PTL DEF HInv

\* When nothing failed, every file of the batch has been accounted for in
\* print, in order, whatever the number of files.
THEOREM NobodySilent == Spec => []NothingSilent
BY HashInvariance, PTL DEF HInv

\* As long as no broken pipe of a worker escapes from the pool, the exit code
\* never claims more than happened.
THEOREM ExitTruthful == ASSUME "poolpipe" \notin Faults PROVE Spec => []ExitExplains
<1>1. HInv => ExitExplains
    BY DEF HInv
<1> QED
    BY <1>1, HashInvariance, PTL
=============================================================================
