---------------------------- MODULE VerdictProofs ----------------------------
(***************************************************************************)
(* Proofs about Verdict, for files of any size with any number of regions  *)
(* and headers.  The sums of the section table are compared as wholes; no  *)
(* sum is ever computed.                                                   *)
(***************************************************************************)
EXTENDS Verdict, TLAPS, FiniteSetTheorems
-----------------------------------------------------------------------------
(* What is counted.                                                        *)

\* The bytes of finitely many regions are a number.
LEMMA BytesType ==
    ASSUME NEW regions, IsFiniteSet(DOMAIN regions)
    PROVE  Bytes(regions) \in Nat
<1> DEFINE places == (DOMAIN regions) \X (1 .. Size)
           named == {p \in places : p[2] <= regions[p[1]].bytes}
<1>1. IsFiniteSet(1 .. Size)
    BY FS_Interval, VerdictAssumption
<1>2. IsFiniteSet(places)
    BY <1>1, FS_Product
<1>3. named \in SUBSET places
    OBVIOUS
<1>4. IsFiniteSet(named)
    BY <1>2, <1>3, FS_Subset
<1> QED
    BY <1>4, FS_CardinalityType DEF Bytes

\* No region, no bytes.
LEMMA NoBytes == Bytes(<<>>) = 0
<1>1. {p \in (DOMAIN <<>>) \X (1 .. Size) : p[2] <= <<>>[p[1]].bytes} = {}
    OBVIOUS
<1> QED
    BY <1>1, FS_EmptySet DEF Bytes

\* Where there are bytes there is a region that is not empty.
LEMMA BytesSomewhere ==
    ASSUME NEW regions, Bytes(regions) > 0,
           \A i \in DOMAIN regions : regions[i].bytes \in Nat
    PROVE  \E i \in DOMAIN regions : regions[i].bytes > 0
<1> DEFINE named == {p \in (DOMAIN regions) \X (1 .. Size) : p[2] <= regions[p[1]].bytes}
<1>1. named # {}
    BY FS_EmptySet DEF Bytes
<1>2. PICK p \in (DOMAIN regions) \X (1 .. Size) : p[2] <= regions[p[1]].bytes
    BY <1>1
<1>3. p[1] \in DOMAIN regions /\ p[2] \in 1 .. Size
    BY <1>2
<1> QED
    BY <1>2, <1>3, VerdictAssumption

\* A list of regions is a sequence of records.
LEMMA ListType ==
    ASSUME NEW writable \in SUBSET BOOLEAN, NEW list \in RegionLists(writable)
    PROVE  /\ list \in RegionLists(BOOLEAN)
           /\ IsFiniteSet(DOMAIN list)
           /\ \A i \in DOMAIN list : /\ list[i] \in Regions(BOOLEAN)
                                     /\ list[i].bytes \in Nat
                                     /\ list[i].dense => list[i].bytes > 0
                                     /\ list[i].dense \in BOOLEAN
                                     /\ list[i].writable \in writable
           /\ list = <<>> <=> DOMAIN list = {}
<1>1. PICK n \in 0 .. MaxRegions : list \in [1 .. n -> Regions(writable)]
    BY DEF RegionLists
<1>2. Regions(writable) \subseteq Regions(BOOLEAN)
    BY DEF Regions
<1>3. list \in [1 .. n -> Regions(BOOLEAN)]
    BY <1>1, <1>2
<1>4. list \in RegionLists(BOOLEAN)
    BY <1>3 DEF RegionLists
<1>5. IsFiniteSet(DOMAIN list)
    BY <1>1, FS_Interval, VerdictAssumption
<1>6. ASSUME NEW i \in DOMAIN list
      PROVE  /\ list[i] \in Regions(BOOLEAN)
             /\ list[i].bytes \in Nat
             /\ list[i].dense => list[i].bytes > 0
             /\ list[i].dense \in BOOLEAN
             /\ list[i].writable \in writable
    <2>1. list[i] \in Regions(writable)
        BY <1>1, <1>6
    <2>2. \A r \in Regions(writable) : /\ r.bytes \in Lengths /\ r.dense \in BOOLEAN
                                       /\ r.writable \in writable
                                       /\ r.bytes = 0 => ~r.dense
        BY DEF Regions
    <2>3. \A k \in Lengths : k \in Nat
        BY VerdictAssumption
    <2> QED
        BY <2>1, <2>2, <2>3, <1>2
<1>7. list = <<>> <=> DOMAIN list = {}
    BY <1>1
<1> QED
    BY <1>4, <1>5, <1>6, <1>7

\* The empty list is one, if any region is admitted or none.
LEMMA EmptyList == <<>> \in RegionLists(BOOLEAN)
<1>1. <<>> \in [1 .. 0 -> Regions(BOOLEAN)]
    OBVIOUS
<1>2. 0 \in 0 .. MaxRegions
    BY VerdictAssumption
<1> QED
    BY <1>1, <1>2 DEF RegionLists
-----------------------------------------------------------------------------
(* The section table.                                                      *)

\* A table has as many headers as it counts.
LEMMA TableType ==
    ASSUME NEW table \in Tables
    PROVE  /\ table.intact \in BOOLEAN /\ table.start \in Nat /\ table.count \in Nat
           /\ \A i \in 1 .. table.count : table.data[i] \in SectionData
<1>1. PICK n \in 0 .. MaxCount :
          table \in [intact : BOOLEAN, start : 0 .. Size + 1, count : {n},
                    data : [1 .. n -> SectionData]]
    BY DEF Tables
<1> QED
    BY <1>1, VerdictAssumption

\* The headers that the loop of _check_pe_sections reads are those that lie
\* in the file from end to end.
LEMMA HeadersRead ==
    ASSUME NEW table \in Tables
    PROVE  {i \in 1 .. table.count :
               table.start + SECTION_HEADER_SIZE * (i - 1)
                  <= Smaller(table.start + SECTION_HEADER_SIZE * table.count, Size)
                     - SECTION_HEADER_SIZE}
           = WholeHeaders(table)
<1> DEFINE H == SECTION_HEADER_SIZE
           n == table.count
<1>1. H \in Nat \ {0} /\ n \in Nat /\ table.start \in Nat /\ Size \in Nat
    BY TableType, VerdictAssumption
<1>2. ASSUME NEW i \in 1 .. n
      PROVE  /\ H * i \in Nat /\ H * n \in Nat /\ H * i <= H * n
             /\ H * (i - 1) = H * i - H
    BY <1>1
<1> QED
    BY <1>1, <1>2 DEF WholeHeaders, Smaller

\* What a header is taken to claim is the number of bytes it leads to.
LEMMA DataClaimed ==
    ASSUME NEW d \in SectionData
    PROVE  Smaller(d.rawSize, Larger(0, Size - d.pointer)) = Cardinality(DataOf(d))
<1>1. d.rawSize \in Nat /\ d.pointer \in Nat /\ Size \in Nat \ {0}
    BY VerdictAssumption DEF SectionData
<1>2. DataOf(d) = d.pointer .. (Smaller(d.pointer + d.rawSize, Size) - 1)
    BY <1>1 DEF DataOf, Smaller
<1>3. Smaller(d.pointer + d.rawSize, Size) - 1 \in Int
    BY <1>1 DEF Smaller
<1>4. Cardinality(DataOf(d)) =
          IF d.pointer > Smaller(d.pointer + d.rawSize, Size) - 1 THEN 0
          ELSE Smaller(d.pointer + d.rawSize, Size) - 1 - d.pointer + 1
    <2> DEFINE last == Smaller(d.pointer + d.rawSize, Size) - 1
    <2>1. d.pointer \in Int /\ last \in Int
        BY <1>1, <1>3
    <2> HIDE DEF last
    <2>2. Cardinality(d.pointer .. last) = IF d.pointer > last THEN 0 ELSE last - d.pointer + 1
        BY <2>1, FS_Interval
    <2>3. DataOf(d) = d.pointer .. last
        BY <1>2 DEF last
    <2> QED
        BY <2>2, <2>3 DEF last
<1> QED
    BY <1>1, <1>4 DEF Smaller, Larger

\* _check_pe_sections adds up exactly what the table hands out, whatever the
\* headers say: cut tables, data beyond the end, bytes named twice.
THEOREM ClaimsCounted ==
    ASSUME NEW table \in Tables
    PROVE  Claimed(table) = HandedOut(table)
<1> DEFINE whole == WholeHeaders(table)
           claims == [i \in whole |-> Smaller(table.data[i].rawSize,
                                              Larger(0, Size - table.data[i].pointer))]
           bytes == [i \in whole |-> Cardinality(DataOf(table.data[i]))]
<1>1. \A i \in whole : table.data[i] \in SectionData
    BY TableType DEF WholeHeaders
<1>2. claims = bytes
    BY <1>1, DataClaimed
<1>3. Claimed(table) = SumFunction(claims)
    BY HeadersRead DEF Claimed
<1> QED
    BY <1>2, <1>3 DEF HandedOut
-----------------------------------------------------------------------------
(* The invariant: what is known of the file at each place of the analysis. *)

AfterTable == Loading \cup {"decide", "measure", "digest"}
AfterArch == {"sections", "segments", "clr", "bits", "decide", "measure", "digest"}
AfterCopy == {"clr", "bits", "decide", "measure", "digest"}
AfterBits == {"decide", "measure", "digest"}

\* The CLR flags of a file, as its own header says.
Flags ==
    IF file.magic = "pe" /\ file.clr.header = "real" THEN <<file.clr.ilOnly, file.clr.native>>
    ELSE <<FALSE, FALSE>>

Supported == file \in Pe \/ file \in Elf

\* What each check has left behind.
Checked ==
    /\ Supported \/ file \in Foreign
    /\ step \notin {"stat", "open", "done"} => Supported
    /\ (step \in AfterTable /\ file.magic = "pe" /\ file.table.intact) =>
          ~(HandedOut(file.table) > SECTION_DATA_RATIO * Size)
    /\ step \in AfterArch => file.machine \in Arches
    /\ step \in AfterBits => file.class \in Widths
    /\ step \in {"measure", "digest"} => ~Managed /\ ~SelfModifying /\ sections # <<>>
    /\ step = "digest" => ~Compressed

\* What has been copied out of the file by then.
Loaded ==
    /\ copied <= Size
    /\ step \notin AfterCopy \cup {"segments", "done"} => sections = <<>> /\ copied = 0
    /\ step = "segments" => /\ sections = file.sections /\ copied = Bytes(sections)
                            /\ file.magic = "elf"
    /\ step = "clr" => file.magic = "pe"
    /\ step \in AfterCopy => sections = Code /\ Bytes(Code) <= Size
    /\ step \in AfterBits \cup {"bits"} => clr = Flags
    /\ step = "segments" => clr = <<FALSE, FALSE>>
    /\ step \notin AfterCopy \cup {"done"} => clr = <<FALSE, FALSE>>

Verdicts == DigestSpeaksForCode /\ LoadedWhole /\ RefusalFitsFile

VInv == TypeOK /\ Checked /\ Loaded /\ Verdicts

\* A PE, as the checks see it.
LEMMA PeFacts ==
    ASSUME file \in Pe
    PROVE  /\ file.path = "file" /\ file.magic = "pe" /\ file.table \in Tables
           /\ file.sections \in RegionLists(BOOLEAN) /\ file.segments = <<>>
           /\ file.clr \in ClrHeaders \cup {NoClr}
<1>1. PlainTable \in Tables
    <2>1. <<>> \in [1 .. 0 -> SectionData]
        OBVIOUS
    <2>2. 0 \in 0 .. MaxCount /\ 0 \in 0 .. Size + 1
        BY VerdictAssumption
    <2> QED
        BY <2>1, <2>2 DEF PlainTable, Tables
<1>2. <<>> \in RegionLists(BOOLEAN)
    BY EmptyList
<1> QED
    BY <1>1, <1>2 DEF Pe

\* An ELF file, as the checks see it.
LEMMA ElfFacts ==
    ASSUME file \in Elf
    PROVE  /\ file.path = "file" /\ file.magic = "elf"
           /\ file.sections \in RegionLists({FALSE}) /\ file.segments \in RegionLists({FALSE})
           /\ file.clr = NoClr
BY DEF Elf

\* Anything else.
LEMMA ForeignFacts ==
    ASSUME file \in Foreign
    PROVE  file.magic \in {"none", "macho", "coff"} /\ (file.path # "file" => file.magic = "none")
BY DEF Foreign
\* A CLR header that is real has flags of its own.
LEMMA RealHeader ==
    ASSUME NEW c \in ClrHeaders \cup {NoClr}, c.header = "real"
    PROVE  /\ c \in [header : {"real"}, ilOnly : BOOLEAN, native : BOOLEAN]
           /\ c.ilOnly \in BOOLEAN /\ c.native \in BOOLEAN
<1>1. c # NoClr
    BY DEF NoClr
<1>2. c \notin [header : {"none", "unreadable", "short", "forged"}, ilOnly : {TRUE},
                native : {FALSE}]
    OBVIOUS
<1>3. c \in [header : {"real"}, ilOnly : BOOLEAN, native : BOOLEAN]
    BY <1>1, <1>2 DEF ClrHeaders
<1> QED
    BY <1>3

\* What the regions in hand are, from the last copy on.
LEMMA CodeInHand ==
    ASSUME VInv, step \in AfterBits
    PROVE  /\ sections = Code /\ clr = Flags /\ Supported
           /\ IsFiniteSet(DOMAIN Code)
           /\ \A i \in DOMAIN Code : /\ Code[i].bytes \in Nat /\ Code[i].dense \in BOOLEAN
                                     /\ Code[i].writable \in BOOLEAN
                                     /\ Code[i].dense => Code[i].bytes > 0
           /\ Code = <<>> <=> DOMAIN Code = {}
<1>1. sections = Code /\ clr = Flags /\ Supported
    BY DEF VInv, Loaded, Checked, AfterBits, AfterCopy
<1>2. sections \in RegionLists(BOOLEAN)
    BY DEF VInv, TypeOK
<1> QED
    BY <1>1, <1>2, ListType

\* A managed header is one of the file's own.
LEMMA ManagedHeader ==
    ASSUME Supported, clr = Flags
    PROVE  /\ Managed => file.clr = [header |-> "real", ilOnly |-> TRUE, native |-> FALSE]
           /\ (file.magic = "pe" /\ file.clr.header = "real" /\ file.clr.ilOnly /\ ~Managed) =>
                  file.clr.native
           /\ ~Managed => file.clr # [header |-> "real", ilOnly |-> TRUE, native |-> FALSE]
<1>1. CASE file.magic = "pe" /\ file.clr.header = "real"
    <2>1. file.clr \in [header : {"real"}, ilOnly : BOOLEAN, native : BOOLEAN]
        BY <1>1, PeFacts, ElfFacts, RealHeader DEF Supported
    <2>2. clr[1] = file.clr.ilOnly /\ clr[2] = file.clr.native
        BY <1>1 DEF Flags
    <2>3. /\ Managed => file.clr = [header |-> "real", ilOnly |-> TRUE, native |-> FALSE]
          /\ (file.clr.ilOnly /\ ~Managed) => file.clr.native
        BY <2>1, <2>2 DEF Managed
    <2>4. ASSUME file.clr = [header |-> "real", ilOnly |-> TRUE, native |-> FALSE] PROVE Managed
        <3>1. file.clr.ilOnly = TRUE /\ file.clr.native = FALSE
            BY <2>4
        <3> QED
            BY <2>2, <3>1 DEF Managed
    <2> QED
        BY <2>3, <2>4
<1>2. CASE ~(file.magic = "pe" /\ file.clr.header = "real")
    <2>1. file.clr.header # "real"
        BY <1>2, ElfFacts, PeFacts DEF Supported, NoClr
    <2>2. ~Managed
        BY <1>2 DEF Flags, Managed
    <2>3. file.clr # [header |-> "real", ilOnly |-> TRUE, native |-> FALSE]
        BY <2>1
    <2> QED
        BY <1>2, <2>2, <2>3
<1> QED
    BY <1>1, <1>2

\* What has been decided by then was decided on a file loaded whole.
LEMMA Accepted ==
    ASSUME VInv, step \in AfterBits
    PROVE  /\ file.magic \in {"pe", "elf"} /\ file.machine \in Arches /\ file.class \in Widths
           /\ Bytes(Code) <= Size
           /\ (file.magic = "pe" /\ file.table.intact) =>
                 ~(HandedOut(file.table) > SECTION_DATA_RATIO * Size)
           /\ ~Managed => file.clr # [header |-> "real", ilOnly |-> TRUE, native |-> FALSE]
<1>1. file.magic \in {"pe", "elf"}
    BY CodeInHand, PeFacts, ElfFacts DEF Supported
<1>2. file.machine \in Arches /\ file.class \in Widths /\ Bytes(Code) <= Size
    BY DEF VInv, Checked, Loaded, AfterBits, AfterArch, AfterCopy
<1>3. (file.magic = "pe" /\ file.table.intact) =>
         ~(HandedOut(file.table) > SECTION_DATA_RATIO * Size)
    BY DEF VInv, Checked, AfterBits, AfterTable
<1>4. ~Managed => file.clr # [header |-> "real", ilOnly |-> TRUE, native |-> FALSE]
    BY CodeInHand, ManagedHeader
<1> QED
    BY <1>1, <1>2, <1>3, <1>4

-----------------------------------------------------------------------------
(* Steps that every action is made of.                                     *)

\* The invariant holds before anything is read.
LEMMA VerdictInit == Init => VInv
<1> SUFFICES ASSUME Init PROVE VInv
    OBVIOUS
<1>1. TypeOK
    BY EmptyList DEF Init, TypeOK, Pending
<1>2. Checked
    BY DEF Init, Checked, Supported, AfterTable, AfterArch, AfterBits, Loading
<1>3. Loaded
    BY VerdictAssumption DEF Init, Loaded, AfterCopy, AfterBits
<1>4. Verdicts
    BY DEF Init, Verdicts, DigestSpeaksForCode, LoadedWhole, RefusalFitsFile, Pending
<1> QED
    BY <1>1, <1>2, <1>3, <1>4 DEF VInv

\* While the answer is pending, no verdict has been given.
LEMMA PendingFits == analysis' = Pending => Verdicts'
BY DEF Verdicts, DigestSpeaksForCode, LoadedWhole, RefusalFitsFile, Pending

\* An answer ends the analysis; only the verdict has to be looked at.
LEMMA Answered ==
    ASSUME VInv, NEW a, Answer(a), a.reason # "pending"
    PROVE  TypeOK' /\ Checked' /\ Loaded'
<1> USE DEF VInv, Answer, loaded
<1>1. a # Pending
    BY DEF Pending
<1>2. TypeOK'
    BY <1>1 DEF TypeOK, Pending
<1>3. Checked'
    BY DEF Checked, Supported, AfterTable, AfterArch, AfterBits, Loading
<1>4. Loaded'
    BY DEF Loaded, AfterCopy, AfterBits
<1> QED
    BY <1>2, <1>3, <1>4

\* What an exception becomes.
LEMMA Refusals ==
    \A detail : /\ Caught("LoaderError", detail) = Refusal("unreadable", detail)
                /\ Caught("MemoryError", detail) = Refusal("unreadable", detail)
                /\ Caught("Format", detail) = Refusal("unsupported_format", detail)
                /\ Caught("Arch", detail) = Refusal("unsupported_arch", detail)
                /\ Caught("Exception", detail) = Refusal("internal_error", detail)
<1>1. /\ DOMAIN Clauses = 1 .. 5
      /\ Clauses[1].catches = "Format" /\ Clauses[1].reason = "unsupported_format"
      /\ Clauses[2].catches = "Arch" /\ Clauses[2].reason = "unsupported_arch"
      /\ Clauses[3].catches = "LoaderError" /\ Clauses[3].reason = "unreadable"
      /\ Clauses[4].catches = "MemoryError" /\ Clauses[4].reason = "unreadable"
      /\ Clauses[5].catches = "Exception" /\ Clauses[5].reason = "internal_error"
    BY DEF Clauses, Clause
<1>2. /\ Fits("Format") = {1, 3, 5} /\ Fits("Arch") = {2, 3, 5} /\ Fits("LoaderError") = {3, 5}
      /\ Fits("MemoryError") = {4, 5} /\ Fits("Exception") = {5}
    BY <1>1 DEF Fits, ClassesOf
<1>3. ASSUME NEW fits \in SUBSET (1 .. 5), NEW first \in fits, \A j \in fits : first <= j
      PROVE  (CHOOSE i \in fits : \A j \in fits : i <= j) = first
    <2> DEFINE least == CHOOSE i \in fits : \A j \in fits : i <= j
    <2>1. least \in fits /\ \A j \in fits : least <= j
        BY <1>3
    <2> HIDE DEF least
    <2>2. least <= first /\ first <= least
        BY <1>3, <2>1
    <2>3. least = first
        BY <2>1, <2>2
    <2> QED
        BY <2>3 DEF least
<1>4. /\ (CHOOSE i \in {1, 3, 5} : \A j \in {1, 3, 5} : i <= j) = 1
      /\ (CHOOSE i \in {2, 3, 5} : \A j \in {2, 3, 5} : i <= j) = 2
      /\ (CHOOSE i \in {3, 5} : \A j \in {3, 5} : i <= j) = 3
      /\ (CHOOSE i \in {4, 5} : \A j \in {4, 5} : i <= j) = 4
      /\ (CHOOSE i \in {5} : \A j \in {5} : i <= j) = 5
    BY <1>3
<1> QED
    BY <1>1, <1>2, <1>4 DEF Caught

\* A file that cannot be read is refused as unreadable.
LEMMA Unreadable ==
    ASSUME VInv, NEW detail,
           Answer(Refusal("unreadable", detail)),
           \/ detail \in {"cannot read", "out of memory", "cannot parse", "no container",
                          "too little"}
           \/ file.magic = "none"
           \/ /\ file.magic \in {"pe", "elf"}
              /\ \/ /\ file.magic = "pe" /\ file.table.intact
                    /\ HandedOut(file.table) > SECTION_DATA_RATIO * Size
                 \/ file.class \notin Widths
                 \/ Bytes(Code) > Size
    PROVE  VInv'
<1>1. TypeOK' /\ Checked' /\ Loaded'
    BY Answered DEF Refusal
<1>2. analysis' = [reason |-> "unreadable", detail |-> detail] /\ file' = file
    BY DEF Answer, Refusal
<1>3. analysis'.reason = "unreadable" /\ analysis'.detail = detail
    BY <1>2
<1>4. DigestSpeaksForCode' /\ LoadedWhole'
    BY <1>3 DEF DigestSpeaksForCode, LoadedWhole
<1>5. RefusalFitsFile'
    BY <1>2, <1>3 DEF RefusalFitsFile, Code
<1> QED
    BY <1>1, <1>4, <1>5 DEF VInv, Verdicts

\* Every other refusal has its own ground.
LEMMA RefusedOtherwise ==
    ASSUME VInv, NEW reason, NEW detail, Answer(Refusal(reason, detail)),
           reason \in {"unsupported_format", "unsupported_arch", "managed", "no_code", "packed",
                       "internal_error"},
           reason = "unsupported_format" => file.magic \in {"macho", "coff"},
           reason = "unsupported_arch" => file.machine \notin Arches,
           reason = "managed" => file.clr = [header |-> "real", ilOnly |-> TRUE, native |-> FALSE],
           reason = "no_code" => Code = <<>>,
           reason = "packed" =>
              \E i \in DOMAIN Code : Code[i].bytes > 0 /\ (Code[i].dense \/ Code[i].writable),
           reason = "internal_error" => file.magic \notin {"pe", "elf"},
           reason \in {"managed", "no_code", "packed"} => step \in AfterBits,
           reason \in {"no_code", "packed"} => ~Managed
    PROVE  VInv'
<1>1. TypeOK' /\ Checked' /\ Loaded'
    BY Answered DEF Refusal
<1>2. analysis'.reason = reason /\ file' = file
    BY DEF Answer, Refusal
<1>3. DigestSpeaksForCode'
    BY <1>2 DEF DigestSpeaksForCode
<1>4. Code' = Code
    BY <1>2 DEF Code
<1>5. RefusalFitsFile'
    BY <1>2, <1>4 DEF RefusalFitsFile
<1>6. reason = "packed" => Code # <<>>
    OBVIOUS
<1>7. LoadedWhole'
    BY <1>2, <1>4, <1>6, Accepted DEF LoadedWhole
<1> QED
    BY <1>1, <1>3, <1>5, <1>7 DEF VInv, Verdicts

\* A check that finds nothing leads to the next.
LEMMA Passed ==
    ASSUME VInv, NEW here, NEW there, At(here), Proceed(there), here # "done", there # "done",
           there \in Loading \cup {"stat", "open", "claims", "decide", "measure", "digest"}
    PROVE  TypeOK' /\ Verdicts'
<1>1. analysis' = Pending
    BY DEF Proceed, At
<1>2. TypeOK'
    BY <1>1 DEF VInv, TypeOK, Proceed, loaded
<1> QED
    BY <1>1, <1>2, PendingFits
-----------------------------------------------------------------------------
(* Reading the file.                                                       *)

\* What the path names.
LEMMA StatKeeps == ASSUME VInv, Stat PROVE VInv'
<1> USE DEF Stat, Raise
<1>1. CASE file.path \in {"directory", "absent", "unreadable"}
    <2>1. file.magic = "none"
        BY <1>1, PeFacts, ElfFacts, ForeignFacts DEF VInv, Checked, Supported
    <2>2. PICK detail : Raise("LoaderError", detail)
        BY <1>1
    <2> QED
        BY <2>1, <2>2, Refusals, Unreadable
<1>2. CASE file.path \notin {"directory", "absent", "unreadable"}
    <2>1. At("stat") /\ Proceed("open")
        BY <1>2
    <2>2. TypeOK' /\ Verdicts'
        BY <2>1, Passed
    <2>3. Checked' /\ Loaded'
        BY <2>1 DEF VInv, Checked, Supported, AfterTable, AfterArch, AfterBits, AfterCopy,
                    Loading, Loaded, Proceed, At, loaded
    <2> QED
        BY <2>2, <2>3 DEF VInv
<1> QED
    BY <1>1, <1>2

\* The read, and the sniffing of other containers.
LEMMA ReadKeeps == ASSUME VInv, ReadFails \/ SniffRaises \/ Read PROVE VInv'
<1> USE DEF Raise
<1>1. CASE ReadFails
    BY <1>1, Refusals, Unreadable DEF ReadFails
<1>2. CASE SniffRaises
    BY <1>2, Refusals, RefusedOtherwise DEF SniffRaises
<1>3. CASE Read
    <2>1. CASE file.magic \in {"macho", "coff"}
        <3>1. Answer(Refusal("unsupported_format", file.magic))
            BY <1>3, <2>1, Refusals DEF Read
        <3> QED
            BY <3>1, <2>1, RefusedOtherwise
    <2>2. CASE file.magic = "none"
        <3>1. Answer(Refusal("unreadable", "no container"))
            BY <1>3, <2>2, Refusals DEF Read
        <3> QED
            BY <3>1, <2>2, Unreadable
    <2>3. CASE file.magic \notin {"macho", "coff", "none"}
        <3>1. At("open") /\ Proceed("claims")
            BY <1>3, <2>3 DEF Read
        <3>2. Supported
            BY <2>3, ForeignFacts DEF VInv, Checked
        <3>3. TypeOK' /\ Verdicts'
            BY <3>1, Passed
        <3>4. Checked' /\ Loaded'
            BY <3>1, <3>2 DEF VInv, Checked, Supported, AfterTable, AfterArch, AfterBits,
                              AfterCopy, Loading, Loaded, Proceed, At, loaded
        <3> QED
            BY <3>3, <3>4 DEF VInv
    <2> QED
        BY <2>1, <2>2, <2>3
<1> QED
    BY <1>1, <1>2, <1>3

\* The section table, before the parser sees the file.
LEMMA TableKeeps == ASSUME VInv, CheckPeSections PROVE VInv'
<1>1. Supported
    BY DEF VInv, Checked, CheckPeSections, At
<1>2. file.magic = "pe" => Claimed(file.table) = HandedOut(file.table)
    BY <1>1, PeFacts, ElfFacts, ClaimsCounted DEF Supported
<1>3. CASE /\ file.magic = "pe" /\ file.table.intact
           /\ Claimed(file.table) > SECTION_DATA_RATIO * Size
    <2>1. Answer(Refusal("unreadable", "sections overlap"))
        BY <1>3, Refusals DEF CheckPeSections, Raise
    <2>2. HandedOut(file.table) > SECTION_DATA_RATIO * Size
        BY <1>2, <1>3
    <2> QED
        BY <1>3, <2>1, <2>2, Unreadable
<1>4. CASE ~ /\ file.magic = "pe" /\ file.table.intact
             /\ Claimed(file.table) > SECTION_DATA_RATIO * Size
    <2>1. At("claims") /\ Proceed("parse")
        BY <1>4 DEF CheckPeSections
    <2>2. TypeOK' /\ Verdicts'
        BY <2>1, Passed DEF Loading
    <2>3. (file.magic = "pe" /\ file.table.intact) =>
              ~(HandedOut(file.table) > SECTION_DATA_RATIO * Size)
        BY <1>2, <1>4
    <2>4. Checked' /\ Loaded'
        BY <1>1, <2>1, <2>3 DEF VInv, Checked, Supported, AfterTable, AfterArch, AfterBits,
                                AfterCopy, Loading, Loaded, Proceed, At, loaded
    <2> QED
        BY <2>2, <2>4 DEF VInv
<1> QED
    BY <1>3, <1>4
-----------------------------------------------------------------------------
(* Loading.                                                                *)

\* The parser raises or yields nothing; or memory runs out.
LEMMA FailureKeeps == ASSUME VInv, ParserRaises \/ MemoryRunsOut PROVE VInv'
BY Refusals, Unreadable DEF ParserRaises, MemoryRunsOut, Raise

\* The parser yields something, of a machine that is supported or not.
LEMMA ArchKeeps == ASSUME VInv, Parse \/ Arch PROVE VInv'
<1>1. CASE Parse
    <2>1. At("parse") /\ Proceed("arch")
        BY <1>1 DEF Parse
    <2>2. TypeOK' /\ Verdicts'
        BY <2>1, Passed DEF Loading
    <2>3. Checked' /\ Loaded'
        BY <2>1 DEF VInv, Checked, Supported, AfterTable, AfterArch, AfterBits, AfterCopy,
                    Loading, Loaded, Proceed, At, loaded
    <2> QED
        BY <2>2, <2>3 DEF VInv
<1>2. CASE Arch
    <2>1. CASE file.machine \in Arches
        <3>1. At("arch") /\ Proceed("sections")
            BY <1>2, <2>1 DEF Arch
        <3>2. TypeOK' /\ Verdicts'
            BY <3>1, Passed DEF Loading
        <3>3. Checked' /\ Loaded'
            BY <2>1, <3>1 DEF VInv, Checked, Supported, AfterTable, AfterArch, AfterBits,
                              AfterCopy, Loading, Loaded, Proceed, At, loaded
        <3> QED
            BY <3>2, <3>3 DEF VInv
    <2>2. CASE file.machine \notin Arches
        <3>1. Answer(Refusal("unsupported_arch", file.machine))
            BY <1>2, <2>2, Refusals DEF Arch, Raise
        <3> QED
            BY <3>1, <2>2, RefusedOtherwise
    <2> QED
        BY <2>1, <2>2
<1> QED
    BY <1>1, <1>2

\* The code is copied only when it fits into the file.
LEMMA CopyKeeps == ASSUME VInv, Sections \/ Segments PROVE VInv'
<1> USE DEF VInv
<1>1. CASE Sections
    <2>1. file.sections \in RegionLists(BOOLEAN) /\ At("sections") /\ Supported
        <3>1. At("sections") /\ Supported
            BY <1>1 DEF Sections, Checked, At
        <3> QED
            BY <3>1, PeFacts, ElfFacts, ListType DEF Supported
    <2>2. Bytes(file.sections) \in Nat
        BY <2>1, ListType, BytesType
    <2>3. CASE Bytes(file.sections) > Size
        <3>1. Answer(Refusal("unreadable", "code overlaps"))
            BY <1>1, <2>3, Refusals DEF Sections, Copy, Raise
        <3>2. file.sections # <<>>
            BY <2>3, NoBytes, VerdictAssumption
        <3>3. Bytes(Code) > Size
            BY <2>3, <3>2 DEF Code
        <3>4. file.magic \in {"pe", "elf"}
            BY <2>1, PeFacts, ElfFacts DEF Supported
        <3> QED
            BY <3>1, <3>3, <3>4, Unreadable
    <2>4. CASE ~(Bytes(file.sections) > Size)
        <3>1. /\ copied' = copied + Bytes(file.sections) /\ sections' = file.sections
              /\ step' = (IF file.magic = "pe" THEN "clr" ELSE "segments")
              /\ UNCHANGED <<file, clr, analysis>>
            BY <1>1, <2>4 DEF Sections, Copy
        <3>2. copied = 0
            BY <2>1 DEF Loaded, At, AfterCopy
        <3>3. copied' = Bytes(file.sections) /\ copied' \in Nat /\ copied' <= Size
            BY <2>2, <2>4, <3>1, <3>2, VerdictAssumption
        <3>4. TypeOK' /\ Verdicts'
            <4>1. analysis' = Pending /\ step' \in {"clr", "segments"}
                BY <2>1, <3>1 DEF At
            <4> QED
                BY <2>1, <3>1, <3>3, <4>1, PendingFits DEF TypeOK, Loading
        <3>5. file.magic = "pe" => file.segments = <<>>
            BY <2>1, PeFacts, ElfFacts DEF Supported
        <3>6. Loaded'
            <4>1. file.magic # "pe" => file.magic = "elf"
                BY <2>1, PeFacts, ElfFacts DEF Supported
            <4>2. file.magic = "pe" => Code = file.sections
                BY <3>5 DEF Code
            <4>3. Code' = Code /\ Flags' = Flags /\ Bytes(sections)' = Bytes(file.sections)
                BY <3>1 DEF Code, Flags, Bytes
            <4>4. clr = <<FALSE, FALSE>>
                BY <2>1 DEF Loaded, At, AfterCopy
            <4> QED
                BY <3>1, <3>3, <4>1, <4>2, <4>3, <4>4 DEF Loaded, AfterCopy, AfterBits
        <3>7. Checked'
            BY <2>1, <3>1 DEF Checked, Supported, AfterTable, AfterArch, AfterBits, Loading, At
        <3> QED
            BY <3>4, <3>6, <3>7
    <2> QED
        BY <2>3, <2>4
<1>2. CASE Segments
    <2>1. At("segments") /\ sections = file.sections /\ file.magic = "elf"
          /\ copied = Bytes(sections) /\ clr = <<FALSE, FALSE>>
        BY <1>2 DEF Segments, Loaded, At
    <2>2. file \in Elf
        BY <2>1, PeFacts DEF Checked, Supported, At
    <2>3. file.segments \in RegionLists(BOOLEAN)
        BY <2>2, ElfFacts, ListType
    <2>4. Bytes(file.segments) \in Nat
        BY <2>3, ListType, BytesType
    <2>5. Flags = <<FALSE, FALSE>>
        BY <2>1 DEF Flags
    <2>6. CASE sections # <<>>
        <3>1. Proceed("bits")
            BY <1>2, <2>6 DEF Segments
        <3>2. TypeOK' /\ Verdicts'
            BY <2>1, <3>1, Passed DEF Loading
        <3>3. Checked' /\ Loaded'
            BY <2>1, <2>5, <2>6, <3>1
               DEF Checked, Supported, AfterTable, AfterArch, AfterBits, AfterCopy,
                   Loading, Loaded, Proceed, At, loaded, Code, Flags
        <3> QED
            BY <3>2, <3>3
    <2>7. CASE sections = <<>>
        <3>1. Code = file.segments
            BY <2>1, <2>7 DEF Code
        <3>2. Copy(file.segments, "bits")
            BY <1>2, <2>7 DEF Segments
        <3>3. CASE Bytes(file.segments) > Size
            <4>1. Answer(Refusal("unreadable", "code overlaps"))
                BY <3>2, <3>3, Refusals DEF Copy, Raise
            <4> QED
                BY <2>1, <3>1, <3>3, <4>1, Unreadable
        <3>4. CASE ~(Bytes(file.segments) > Size)
            <4>1. /\ copied' = copied + Bytes(file.segments) /\ sections' = file.segments
                  /\ step' = "bits" /\ UNCHANGED <<file, clr, analysis>>
                BY <3>2, <3>4 DEF Copy
            <4>2. copied = 0
                BY <2>1, <2>7, NoBytes
            <4>3. copied' \in Nat /\ copied' <= Size
                BY <2>4, <3>4, <4>1, <4>2, VerdictAssumption
            <4>4. analysis' = Pending
                BY <2>1, <4>1 DEF At
            <4>5. TypeOK' /\ Verdicts'
                BY <2>1, <2>3, <4>1, <4>3, <4>4, PendingFits DEF TypeOK, Loading
            <4>6. Code' = Code /\ Flags' = Flags
                BY <4>1 DEF Code, Flags
            <4>7. Bytes(Code) <= Size
                BY <2>4, <3>1, <3>4, VerdictAssumption
            <4>8. Loaded'
                BY <2>1, <2>5, <3>1, <4>1, <4>3, <4>6, <4>7 DEF Loaded, AfterCopy, AfterBits
            <4>9. Checked'
                BY <2>1, <2>2, <4>1
                   DEF Checked, Supported, AfterTable, AfterArch, AfterBits, Loading, At
            <4> QED
                BY <4>5, <4>8, <4>9
        <3> QED
            BY <3>3, <3>4
    <2> QED
        BY <2>6, <2>7
<1> QED
    BY <1>1, <1>2

\* The CLR header of a PE.
LEMMA ClrKeeps == ASSUME VInv, ReadClr PROVE VInv'
<1> USE DEF VInv
<1>1. /\ At("clr") /\ step' = "bits" /\ UNCHANGED <<file, copied, sections, analysis>>
      /\ clr' = IF file.clr.header = "real" THEN <<file.clr.ilOnly, file.clr.native>>
                ELSE <<FALSE, FALSE>>
    BY DEF ReadClr
<1>2. file.magic = "pe" /\ file \in Pe
    BY <1>1, ElfFacts DEF Loaded, Checked, Supported, At
<1>3. file.clr.header = "real" => file.clr.ilOnly \in BOOLEAN /\ file.clr.native \in BOOLEAN
    BY <1>2, PeFacts, RealHeader
<1>4. TypeOK' /\ Verdicts'
    <2>1. analysis' = Pending
        BY <1>1 DEF At
    <2>2. clr' \in BOOLEAN \X BOOLEAN
        BY <1>1, <1>3
    <2> QED
        BY <1>1, <2>1, <2>2, PendingFits DEF TypeOK, Loading
<1>5. clr' = Flags /\ Flags' = Flags /\ Code' = Code
    BY <1>1, <1>2 DEF Flags, Code
<1>6. Loaded'
    BY <1>1, <1>5 DEF Loaded, AfterCopy, AfterBits, At
<1>7. Checked'
    BY <1>1 DEF Checked, Supported, AfterTable, AfterArch, AfterBits, Loading, At
<1> QED
    BY <1>4, <1>6, <1>7

\* The width of the container.
LEMMA BitsKeeps == ASSUME VInv, Bits PROVE VInv'
<1> USE DEF VInv
<1>1. CASE file.class \in Widths
    <2>1. At("bits") /\ Proceed("decide")
        BY <1>1 DEF Bits
    <2>2. TypeOK' /\ Verdicts'
        BY <2>1, Passed DEF Loading
    <2>3. Checked' /\ Loaded'
        BY <1>1, <2>1 DEF Checked, Supported, AfterTable, AfterArch, AfterBits, AfterCopy,
                          Loading, Loaded, Proceed, At, loaded, Code, Flags
    <2> QED
        BY <2>2, <2>3
<1>2. CASE file.class \notin Widths
    <2>1. At("bits") /\ Answer(Refusal("unreadable", "unknown class"))
        BY <1>2, Refusals DEF Bits, Raise
    <2>2. file.magic \in {"pe", "elf"}
        BY <2>1, PeFacts, ElfFacts DEF Checked, Supported, At
    <2> QED
        BY <1>2, <2>1, <2>2, Unreadable
<1> QED
    BY <1>1, <1>2
-----------------------------------------------------------------------------
(* Deciding.                                                               *)

\* The first checks of _analyse.
LEMMA DecideKeeps == ASSUME VInv, Decide PROVE VInv'
<1>1. At("decide") /\ step \in AfterBits
    BY DEF Decide, At, AfterBits
<1>2. CASE Managed
    <2>1. Answer(Refusal("managed", "il only"))
        BY <1>2 DEF Decide
    <2>2. file.clr = [header |-> "real", ilOnly |-> TRUE, native |-> FALSE]
        BY <1>1, <1>2, CodeInHand, ManagedHeader
    <2> QED
        <3> DEFINE header == [header |-> "real", ilOnly |-> TRUE, native |-> FALSE]
        <3>1. file.clr = header
            BY <2>2
        <3> HIDE DEF header
        <3> QED
            BY <1>1, <2>1, <3>1, RefusedOtherwise, Zenon DEF header
<1>3. CASE ~Managed /\ sections = <<>>
    <2>1. Answer(Refusal("no_code", "no section"))
        BY <1>3 DEF Decide
    <2> QED
        BY <1>1, <1>3, <2>1, CodeInHand, RefusedOtherwise
<1>4. CASE ~Managed /\ sections # <<>> /\ SelfModifying
    <2>1. Answer(Refusal("packed", "writable"))
        BY <1>4 DEF Decide
    <2>2. \E i \in DOMAIN Code : Code[i].bytes > 0 /\ (Code[i].dense \/ Code[i].writable)
        BY <1>1, <1>4, CodeInHand DEF SelfModifying
    <2> QED
        BY <1>1, <1>4, <2>1, <2>2, RefusedOtherwise
<1>5. CASE ~Managed /\ sections # <<>> /\ ~SelfModifying
    <2>1. Proceed("measure")
        BY <1>5 DEF Decide
    <2>2. TypeOK' /\ Verdicts'
        BY <1>1, <2>1, Passed
    <2>3. Checked' /\ Loaded'
        BY <1>1, <1>5, <2>1
           DEF VInv, Checked, Supported, AfterTable, AfterArch, AfterBits, AfterCopy, Loading,
               Loaded, Proceed, At, loaded, Code, Flags, Managed, SelfModifying
    <2> QED
        BY <2>2, <2>3 DEF VInv
<1> QED
    BY <1>2, <1>3, <1>4, <1>5

\* Code that is compressed lies in a region that is.
LEMMA CompressedSomewhere ==
    ASSUME VInv, step \in AfterBits, Compressed
    PROVE  \E i \in DOMAIN Code : Code[i].bytes > 0 /\ Code[i].dense
<1>1. SUFFICES ASSUME \A i \in DOMAIN Code : ~Code[i].dense PROVE FALSE
    BY CodeInHand
<1>2. {i \in DOMAIN sections : ~sections[i].dense} = DOMAIN sections
    BY <1>1, CodeInHand
<1>3. DOMAIN readable = DOMAIN sections /\ \A i \in DOMAIN readable : readable[i] = sections[i]
    BY <1>2 DEF readable, Restrict
<1>4. Bytes(readable) = Bytes(sections)
    BY <1>3 DEF Bytes
<1>5. Bytes(sections) \in Nat
    BY CodeInHand, BytesType
<1> QED
    BY <1>4, <1>5 DEF Compressed

\* The share of compressed code.
LEMMA MeasureKeeps == ASSUME VInv, Measure PROVE VInv'
<1>1. At("measure") /\ step \in AfterBits
    BY DEF Measure, At, AfterBits
<1>2. CASE Compressed
    <2>1. Answer(Refusal("packed", "compressed"))
        BY <1>2 DEF Measure
    <2>2. ~Managed
        BY <1>1 DEF VInv, Checked, At
    <2> QED
        BY <1>1, <1>2, <2>1, <2>2, CompressedSomewhere, RefusedOtherwise
<1>3. CASE ~Compressed
    <2>1. Proceed("digest")
        BY <1>3 DEF Measure
    <2>2. TypeOK' /\ Verdicts'
        BY <1>1, <2>1, Passed
    <2>3. Checked' /\ Loaded'
        BY <1>1, <1>3, <2>1
           DEF VInv, Checked, Supported, AfterTable, AfterArch, AfterBits, AfterCopy, Loading,
               Loaded, Proceed, At, loaded, Code, Flags, Managed, SelfModifying, Compressed,
               readable
    <2> QED
        BY <2>2, <2>3 DEF VInv
<1> QED
    BY <1>2, <1>3

\* The digest, or too little to make one of.
LEMMA NativeKeeps == ASSUME VInv, Native PROVE VInv'
<1>1. At("digest") /\ step \in AfterBits
    BY DEF Native, At, AfterBits
<1>2. CASE Answer(Refusal("unreadable", "too little"))
    BY <1>2, Unreadable
<1>3. CASE /\ Bytes(readable) > 0
           /\ Answer(Digest(BITS[file.machine], <<file.magic, file.class>>, readable))
    <2> DEFINE a == Digest(BITS[file.machine], <<file.magic, file.class>>, readable)
    <2>1. /\ a.reason = "digest" /\ a.bits = BITS[file.machine]
          /\ a.target = <<file.magic, file.class>> /\ a.data = readable
        BY DEF Digest
    <2>2. analysis' = a /\ file' = file /\ Code' = Code
        BY <1>3 DEF Answer, Code
    <2>3. TypeOK' /\ Checked' /\ Loaded'
        BY <1>3, <2>1, Answered
    <2>4. LoadedWhole'
        <3>1. sections # <<>> /\ ~Managed /\ sections = Code
            BY <1>1, CodeInHand DEF VInv, Checked, At
        <3> QED
            BY <1>1, <2>1, <2>2, <3>1, Accepted DEF LoadedWhole
    <2>5. RefusalFitsFile'
        BY <2>1, <2>2 DEF RefusalFitsFile
    <2>6. DOMAIN readable \subseteq DOMAIN Code /\ \A i \in DOMAIN readable : ~readable[i].dense
        BY <1>1, CodeInHand DEF readable, Restrict
    <2>7. Bytes(readable) \in Nat /\ Bytes(Code) \in Nat
        BY <1>1, <2>6, CodeInHand, BytesType, FS_Subset
    <2>8. 2 * Bytes(readable) > Bytes(Code)
        <3>1. ~Compressed /\ sections = Code
            BY <1>1, CodeInHand DEF VInv, Checked, At
        <3> QED
            BY <1>3, <2>7, <3>1 DEF Compressed
    <2>9. file.magic = "pe" =>
              /\ \A i \in DOMAIN Code : ~(Code[i].writable /\ Code[i].bytes > 0)
              /\ (file.clr.header = "real" /\ file.clr.ilOnly) => file.clr.native
        <3>1. ~Managed /\ ~SelfModifying
            BY <1>1 DEF VInv, Checked, At
        <3> QED
            BY <1>1, <3>1, CodeInHand, ManagedHeader DEF SelfModifying
    <2>10. DigestSpeaksForCode'
        BY <2>1, <2>2, <2>6, <2>8, <2>9 DEF DigestSpeaksForCode, Bytes
    <2> QED
        BY <2>3, <2>4, <2>5, <2>10 DEF VInv, Verdicts
<1> QED
    BY <1>2, <1>3 DEF Native
-----------------------------------------------------------------------------
(* The theorems.                                                           *)

\* Every reachable state satisfies the invariant.
THEOREM VerdictInvariance == Spec => []VInv
<1>1. Init => VInv
    BY VerdictInit
<1>2. VInv /\ [Next]_vars => VInv'
    <2> SUFFICES ASSUME VInv, [Next]_vars PROVE VInv'
        OBVIOUS
    <2>1. CASE UNCHANGED vars
        <3> USE <2>1 DEF vars, loaded, VInv
        <3>1. TypeOK'
            BY DEF TypeOK
        <3>2. Checked'
            BY DEF Checked, Supported, Managed, SelfModifying, Compressed, readable
        <3>3. Loaded'
            BY DEF Loaded, Code, Flags
        <3>4. DigestSpeaksForCode'
            BY DEF Verdicts, DigestSpeaksForCode, Code
        <3>5. LoadedWhole'
            BY DEF Verdicts, LoadedWhole, Code
        <3>6. RefusalFitsFile'
            BY DEF Verdicts, RefusalFitsFile, Code
        <3> QED
            BY <3>1, <3>2, <3>3, <3>4, <3>5, <3>6 DEF Verdicts
    <2>2. CASE Next
        BY <2>2, StatKeeps, ReadKeeps, TableKeeps, FailureKeeps, ArchKeeps, CopyKeeps, ClrKeeps,
           BitsKeeps, DecideKeeps, MeasureKeeps, NativeKeeps DEF Next
    <2> QED
        BY <2>1, <2>2
<1> QED
    BY <1>1, <1>2, PTL DEF Spec

\* The step, what was copied and the flags have their types, and the answer
\* is given exactly at the end.
THEOREM VerdictTypes == Spec => []TypeOK
BY VerdictInvariance, PTL DEF VInv

\* No file makes the loader copy more than its own length, and no PE reaches
\* the parser whose section table hands out too much, whatever the headers.
THEOREM CopyBounded == Spec => []CopiedWithinFile
<1>1. VInv => CopiedWithinFile
    BY DEF VInv, Loaded, Checked, CopiedWithinFile, AfterTable
<1> QED
    BY <1>1, VerdictInvariance, PTL

\* A digest is made of more than half of the executable bytes, none of them
\* compressed, rewritten by the program or behind a managed header.
THEOREM DigestSpeaks == Spec => []DigestSpeaksForCode
BY VerdictInvariance, PTL DEF VInv, Verdicts

\* Whatever is said of the code of a file is said after every check of the
\* loader has passed, and nothing is called empty or packed, or given a
\* digest, that an earlier check of _analyse would have refused.
THEOREM VerdictAfterChecks == Spec => []LoadedWhole
BY VerdictInvariance, PTL DEF VInv, Verdicts

\* A refusal names a cause that the file has.
THEOREM RefusalsFit == Spec => []RefusalFitsFile
BY VerdictInvariance, PTL DEF VInv, Verdicts
=============================================================================
