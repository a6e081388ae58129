------------------------------- MODULE Verdict -------------------------------
(***************************************************************************)
(* The analysis of one file, as report.py and loader.py decide it: what is *)
(* read, in which order the checks come, which exception becomes which     *)
(* refusal, and which bytes reach the disassembler.                        *)
(*                                                                         *)
(* A file is what the checks tell apart.  Its regions are the executable   *)
(* sections or segments LIEF reports; `dense' stands for an entropy of at  *)
(* least ENTROPY_THRESHOLD, which an empty region cannot have.  The order  *)
(* of the sections is left out, as the keys of a digest form a set.  What  *)
(* LIEF makes of the headers is left open: its sections need not be those  *)
(* of the section table, which _check_pe_sections reads by itself.         *)
(* Reading may fail at any time, the parser may raise anything, and memory *)
(* may run out at every step.                                              *)
(***************************************************************************)
EXTENDS Integers, FiniteSets, SequencesExt

CONSTANTS
    Size,        \* bytes of the file
    Lengths,     \* bound: lengths of a region
    MaxRegions,  \* bound: executable sections, and segments
    SECTION_HEADER_SIZE,
    MaxCount,    \* bound: sections the COFF header counts
    RawSizes,    \* bound: SizeOfRawData of a header
    Pointers     \* bound: PointerToRawData of a header

ASSUME VerdictAssumption ==
    /\ Size \in Nat \ {0} /\ Lengths \subseteq 0 .. Size /\ MaxRegions \in Nat
    /\ SECTION_HEADER_SIZE \in Nat \ {0} /\ MaxCount \in Nat
    /\ RawSizes \subseteq Nat /\ Pointers \subseteq Nat

SECTION_DATA_RATIO == 2
BITS == [x86 |-> 32, x64 |-> 64]
Arches == DOMAIN BITS
Widths == {32, 64}

Machines == Arches \cup {"arm"}
Classes == Widths \cup {0}

\* The CLR header of a PE: there is none, what its directory points at cannot
\* be had, is short or is something else, or it is real.
NoClr == [header |-> "none", ilOnly |-> FALSE, native |-> FALSE]
ClrHeaders ==
    [header : {"real"}, ilOnly : BOOLEAN, native : BOOLEAN]
    \cup [header : {"none", "unreadable", "short", "forged"}, ilOnly : {TRUE}, native : {FALSE}]

\* The section table: where it starts, how many headers are counted, and what
\* they say of their data.  `intact' says there is a PE header to find it by.
SectionData == [rawSize : RawSizes, pointer : Pointers]
Tables ==
    UNION {[intact : BOOLEAN, start : 0 .. Size + 1, count : {n}, data : [1 .. n -> SectionData]] :
           n \in 0 .. MaxCount}
PlainTable == [intact |-> TRUE, start |-> 0, count |-> 0, data |-> <<>>]

\* Only a PE's checks look at `writable'.
Regions(writable) ==
    {r \in [bytes : Lengths, dense : BOOLEAN, writable : writable] : r.bytes = 0 => ~r.dense}
RegionLists(writable) == UNION {[1 .. n -> Regions(writable)] : n \in 0 .. MaxRegions}

\* A path that is no file of a supported container.
Foreign ==
    [path : {"directory", "absent", "unreadable"}, magic : {"none"}]
    \cup [path : {"file"}, magic : {"none", "macho", "coff"}]

\* The table is looked at before anything else of a PE.
Pe ==
    [path : {"file"}, magic : {"pe"}, table : {PlainTable},
     machine : Machines, class : Classes, sections : RegionLists(BOOLEAN), segments : {<<>>},
     clr : ClrHeaders]
    \cup [path : {"file"}, magic : {"pe"}, table : Tables, machine : {"x64"}, class : {64},
          sections : {<<>>}, segments : {<<>>}, clr : {NoClr}]

Elf ==
    [path : {"file"}, magic : {"elf"}, table : {PlainTable},
     machine : Machines, class : Classes, sections : RegionLists({FALSE}),
     segments : RegionLists({FALSE}), clr : {NoClr}]

\* The bytes of all regions together, each counted as often as it is named.
Bytes(regions) ==
    Cardinality({p \in (DOMAIN regions) \X (1 .. Size) : p[2] <= regions[p[1]].bytes})

VARIABLES
    file,      \* what the path names
    step,      \* where _analyse is
    copied,    \* bytes of code copied out of the parser so far
    sections,  \* binary.sections
    clr,       \* is_il_only, has_managed_native
    analysis   \* the Analysis returned

loaded == <<copied, sections, clr>>
vars == <<file, step, loaded, analysis>>

Pending == [reason |-> "pending", detail |-> "none"]
Refusal(reason, detail) == [reason |-> reason, detail |-> detail]
Digest(bits, target, data) ==
    [reason |-> "digest", bits |-> bits, target |-> target, data |-> data]

Init ==
    /\ \/ file \in Foreign \/ file \in Pe \/ file \in Elf
    /\ step = "stat"
    /\ copied = 0 /\ sections = <<>> /\ clr = <<FALSE, FALSE>> /\ analysis = Pending

At(here) == step = here /\ analysis = Pending

Proceed(there) == step' = there /\ UNCHANGED <<file, loaded, analysis>>

\* Mutant: the checks go on after a refusal.
AnswerOnward(a) == analysis' = a /\ UNCHANGED <<file, step, loaded>>

Answer(a) == analysis' = a /\ step' = "done" /\ UNCHANGED <<file, loaded>>

Clause(class, reason) == [catches |-> class, reason |-> reason]

\* Mutant: the base class is caught first.
BaseFirst ==
    <<Clause("LoaderError", "unreadable"), Clause("Format", "unsupported_format"),
      Clause("Arch", "unsupported_arch"), Clause("MemoryError", "unreadable"),
      Clause("Exception", "internal_error")>>

\* The except clauses from the inside out: three of _analyse, that of analyse,
\* and the worker's, which reports what escapes both.
Clauses ==
    <<Clause("Format", "unsupported_format"), Clause("Arch", "unsupported_arch"),
      Clause("LoaderError", "unreadable"), Clause("MemoryError", "unreadable"),
      Clause("Exception", "internal_error")>>

\* The classes an exception belongs to.
ClassesOf(exception) ==
    {exception, "Exception"} \cup (IF exception \in {"Format", "Arch"} THEN {"LoaderError"} ELSE {})

\* The first clause that fits takes it.
Fits(exception) == {i \in DOMAIN Clauses : Clauses[i].catches \in ClassesOf(exception)}
Caught(exception, detail) ==
    LET first == CHOOSE i \in Fits(exception) : \A j \in Fits(exception) : i <= j
    IN  Refusal(Clauses[first].reason, detail)

Raise(exception, detail) == Answer(Caught(exception, detail))
-----------------------------------------------------------------------------
(* loader.load                                                             *)

\* path.is_dir and path.is_file
Stat ==
    /\ At("stat")
    /\ CASE file.path = "directory" -> Raise("LoaderError", "directory")
         [] file.path = "absent" -> Raise("LoaderError", "absent")
         [] file.path = "unreadable" -> Raise("LoaderError", "cannot be read")
         [] OTHER -> Proceed("open")

\* open and read, which fail also when the file has gone since.
ReadFails == At("open") /\ Raise("LoaderError", "cannot read")

\* is_macho and is_coff run where only OSError is caught.
SniffRaises ==
    /\ At("open") /\ file.magic \notin {"pe", "elf"}
    /\ Raise("Exception", "escaped")

Read ==
    /\ At("open")
    /\ CASE file.magic \in {"macho", "coff"} -> Raise("Format", file.magic)
         [] file.magic = "none" -> Raise("LoaderError", "no container")
         [] OTHER -> Proceed("claims")

Smaller(a, b) == IF a <= b THEN a ELSE b
Larger(a, b) == IF a >= b THEN a ELSE b

\* The headers that are whole, of those counted; what each says is cut to the
\* file.
Claimed(table) ==
    LET end == Smaller(table.start + SECTION_HEADER_SIZE * table.count, Size)
        entries == {i \in 1 .. table.count :
                       table.start + SECTION_HEADER_SIZE * (i - 1) <= end - SECTION_HEADER_SIZE}
    IN  SumFunction([i \in entries |-> Smaller(table.data[i].rawSize,
                                         Larger(0, Size - table.data[i].pointer))])

CheckPeSections ==
    /\ At("claims")
    /\ IF file.magic = "pe" /\ file.table.intact
                           /\ Claimed(file.table) > SECTION_DATA_RATIO * Size
       THEN Raise("LoaderError", "sections overlap")
       ELSE Proceed("parse")

Loading == {"parse", "arch", "sections", "segments", "clr", "bits"}

\* Whatever the parser raises becomes a LoaderError; parsing may yield nothing.
ParserRaises ==
    /\ step \in Loading /\ At(step)
    /\ \/ Raise("LoaderError", "cannot parse")
       \/ step = "parse" /\ Raise("LoaderError", "no container")

Parse == At("parse") /\ Proceed("arch")

Arch ==
    /\ At("arch")
    /\ IF file.machine \in Arches THEN Proceed("sections") ELSE Raise("Arch", file.machine)

\* Mutant: the code is measured after it was copied.
CopyThenCheck(regions, next) ==
    IF Bytes(regions) > Size
    THEN /\ analysis' = Caught("LoaderError", "code overlaps") /\ step' = "done"
         /\ copied' = copied + Bytes(regions) /\ UNCHANGED <<file, sections, clr>>
    ELSE /\ copied' = copied + Bytes(regions) /\ sections' = regions
         /\ step' = next /\ UNCHANGED <<file, clr, analysis>>

\* _check_overlap, then the copy.
Copy(regions, next) ==
    IF Bytes(regions) > Size THEN Raise("LoaderError", "code overlaps")
    ELSE /\ copied' = copied + Bytes(regions) /\ sections' = regions
         /\ step' = next /\ UNCHANGED <<file, clr, analysis>>

Sections ==
    /\ At("sections")
    /\ Copy(file.sections, IF file.magic = "pe" THEN "clr" ELSE "segments")

\* A stripped ELF has its segments instead.
Segments ==
    /\ At("segments")
    /\ IF sections = <<>> THEN Copy(file.segments, "bits") ELSE Proceed("bits")

\* A directory that does not lead to a whole COR20 header of the right size
\* is ignored.
ReadClr ==
    /\ At("clr")
    /\ clr' = IF file.clr.header = "real" THEN <<file.clr.ilOnly, file.clr.native>>
              ELSE <<FALSE, FALSE>>
    /\ step' = "bits"
    /\ UNCHANGED <<file, copied, sections, analysis>>

Bits ==
    /\ At("bits")
    /\ IF file.class \in Widths THEN Proceed("decide")
       ELSE Raise("LoaderError", "unknown class")
-----------------------------------------------------------------------------
(* report._analyse                                                         *)

Managed == clr[1] /\ ~clr[2]

SelfModifying ==
    file.magic = "pe" /\ \E i \in DOMAIN sections : sections[i].writable /\ sections[i].bytes > 0

\* The regions that are disassembled, at their places in `sections'.
readable == Restrict(sections, {i \in DOMAIN sections : ~sections[i].dense})

\* Mutant: exactly half the code may be compressed.
MoreThanHalf ==
    Bytes(sections) > 0 /\ 2 * (Bytes(sections) - Bytes(readable)) > Bytes(sections)

\* share >= PACKED_SHARE, which is one half; no code at all has share 0.
Compressed ==
    Bytes(sections) > 0 /\ 2 * (Bytes(sections) - Bytes(readable)) >= Bytes(sections)

\* Mutant: the sections are looked at before the CLR header.
SectionsFirst ==
    /\ At("decide")
    /\ CASE sections = <<>> -> Answer(Refusal("no_code", "no section"))
         [] sections # <<>> /\ Managed -> Answer(Refusal("managed", "il only"))
         [] sections # <<>> /\ ~Managed /\ SelfModifying -> Answer(Refusal("packed", "writable"))
         [] OTHER -> Proceed("measure")

\* The first check that applies.
Decide ==
    /\ At("decide")
    /\ CASE Managed -> Answer(Refusal("managed", "il only"))
         [] ~Managed /\ sections = <<>> -> Answer(Refusal("no_code", "no section"))
         [] ~Managed /\ sections # <<>> /\ SelfModifying -> Answer(Refusal("packed", "writable"))
         [] OTHER -> Proceed("measure")

Measure ==
    /\ At("measure")
    /\ IF Compressed THEN Answer(Refusal("packed", "compressed")) ELSE Proceed("digest")

\* _native.digest finds too little code, or makes the digest.
Native ==
    /\ At("digest")
    /\ \/ Answer(Refusal("unreadable", "too little"))
       \/ /\ Bytes(readable) > 0
          /\ Answer(Digest(BITS[file.machine], <<file.magic, file.class>>, readable))

MemoryRunsOut == At(step) /\ Raise("MemoryError", "out of memory")

Next ==
    \/ Stat \/ ReadFails \/ SniffRaises \/ Read \/ CheckPeSections
    \/ ParserRaises \/ Parse \/ Arch \/ Sections \/ Segments \/ ReadClr \/ Bits
    \/ Decide \/ Measure \/ Native \/ MemoryRunsOut

Spec == Init /\ [][Next]_vars
-----------------------------------------------------------------------------
(* Properties                                                              *)

TypeOK ==
    /\ step \in Loading \cup {"stat", "open", "claims", "decide", "measure", "digest", "done"}
    /\ copied \in Nat /\ sections \in RegionLists(BOOLEAN) /\ clr \in BOOLEAN \X BOOLEAN
    /\ step = "done" <=> analysis # Pending

\* The regions the digest or the refusal was decided on.
Code == IF file.sections = <<>> THEN file.segments ELSE file.sections

\* What a section header leads to in the file, byte by byte.
DataOf(d) == {b \in 0 .. Size - 1 : d.pointer <= b /\ b < d.pointer + d.rawSize}

\* The headers of the table that lie in the file from end to end.
WholeHeaders(table) ==
    {i \in 1 .. table.count : table.start + SECTION_HEADER_SIZE * i <= Size}

\* How many times over the section table hands out the bytes of a file.
HandedOut(table) ==
    SumFunction([i \in WholeHeaders(table) |-> Cardinality(DataOf(table.data[i]))])

\* The code copied out of a file never exceeds the file, whatever its headers
\* claim, and a parser is never handed a PE whose section table hands out more
\* than SECTION_DATA_RATIO times the bytes of the file, be headers cut off,
\* data beyond the end, or the same bytes named again.
CopiedWithinFile ==
    /\ copied <= Size
    /\ (step \in Loading /\ file.magic = "pe" /\ file.table.intact) =>
          ~(HandedOut(file.table) > SECTION_DATA_RATIO * Size)

\* A digest speaks for most of the code: more than half the executable bytes
\* LIEF reported went into it, none of them compressed, and none of a PE's
\* code rewrites itself or hides behind a managed header.
DigestSpeaksForCode ==
    analysis.reason = "digest" =>
        /\ 2 * Bytes(analysis.data) > Bytes(Code)
        /\ \A i \in DOMAIN analysis.data : ~analysis.data[i].dense
        /\ file.magic = "pe" =>
              /\ \A i \in DOMAIN Code : ~(Code[i].writable /\ Code[i].bytes > 0)
              /\ (file.clr.header = "real" /\ file.clr.ilOnly) => file.clr.native

\* A verdict on the code is one on a file that was loaded whole: every check
\* of the loader has passed, those on parts that this verdict did not need as
\* well, and no verdict hides one that is asked for earlier: what is called
\* empty, packed or fit for a digest is no managed program, and what is called
\* packed or fit for a digest has code.
LoadedWhole ==
    analysis.reason \in {"managed", "no_code", "packed", "digest"} =>
        /\ file.magic \in {"pe", "elf"} /\ file.machine \in Arches /\ file.class \in Widths
        /\ Bytes(Code) <= Size
        /\ (file.magic = "pe" /\ file.table.intact) =>
              ~(HandedOut(file.table) > SECTION_DATA_RATIO * Size)
        /\ analysis.reason # "managed" =>
              file.clr # [header |-> "real", ilOnly |-> TRUE, native |-> FALSE]
        /\ analysis.reason \in {"packed", "digest"} => Code # <<>>

\* A refusal names its cause: unless reading, the parser or memory failed, an
\* unreadable file is one its own headers condemn, and every other reason
\* holds of the file whichever check came first.
RefusalFitsFile ==
    LET Is(reason) == analysis.reason = reason IN
    /\ Is("unreadable") =>
          \/ analysis.detail \in
                {"cannot read", "out of memory", "cannot parse", "no container", "too little"}
          \/ file.magic = "none"
          \/ /\ file.magic \in {"pe", "elf"}
             /\ \/ /\ file.magic = "pe" /\ file.table.intact
                   /\ HandedOut(file.table) > SECTION_DATA_RATIO * Size
                \/ file.class \notin Widths
                \/ Bytes(Code) > Size
    /\ Is("unsupported_format") => file.magic \in {"macho", "coff"}
    /\ Is("unsupported_arch") => file.machine \notin Arches
    /\ Is("managed") => file.clr = [header |-> "real", ilOnly |-> TRUE, native |-> FALSE]
    /\ Is("no_code") => Code = <<>>
    /\ Is("packed") =>
          \E i \in DOMAIN Code : Code[i].bytes > 0 /\ (Code[i].dense \/ Code[i].writable)
    /\ Is("internal_error") => file.magic \notin {"pe", "elf"}
=============================================================================
