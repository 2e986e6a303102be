------------------------------ MODULE SoLoader ------------------------------
(***************************************************************************)
(* The on-demand ELF loader of Tema3-So-Loader/tema_linux: so_parse_exec   *)
(* turns program headers into segments, and the SIGSEGV handler maps one   *)
(* page of a segment each time the program touches one that is missing.    *)
(* Addresses, sizes and file offsets count cells, PageSize to a page; the  *)
(* cell of the file at offset i holds the value i, so that a wrong byte in *)
(* memory shows where it came from.                                        *)
(***************************************************************************)
EXTENDS Integers, Sequences, FiniteSets

CONSTANTS
  PageSize, \* getpagesize()
  Pages,    \* bound: the address space has this many pages
  FileLen,  \* the length of the executable
  Headers   \* the executables to load, see Header

Cells == 0..(Pages * PageSize - 1)
Zero == -1      \* what mmap fills an anonymous page with
Dirty == -2     \* what the program writes
Unmapped == -3

\* An executable as so_parse_exec sees it: do the checks of the ELF header
\* pass, and which program headers does it have.
Phdr == [load: BOOLEAN, vaddr: Nat, offset: Nat, filesz: Nat, memsz: Nat,
         flags: SUBSET {"r", "w", "x"}]
Header == [valid: BOOLEAN, phdrs: Seq(Phdr)]

ASSUME LoaderAssumption ==
  /\ PageSize \in Nat \ {0} /\ Pages \in Nat \ {0} /\ FileLen \in Nat
  /\ Headers \subseteq Header
  \* the ELF rule: p_offset and p_vaddr agree modulo the page size; and what
  \* is loaded is in the address space
  /\ \A h \in Headers : \A i \in DOMAIN h.phdrs :
       h.phdrs[i].load =>
         /\ h.phdrs[i].offset % PageSize = h.phdrs[i].vaddr % PageSize
         /\ h.phdrs[i].vaddr \in Cells
         /\ h.phdrs[i].vaddr + h.phdrs[i].memsz <= Pages * PageSize

VARIABLES
  elf,     \* the executable
  proc,    \* "start" | "running" | "refused" | "killed": the process
  segs,    \* exec->segments
  handler, \* "segv_handler" | "default": the action of SIGSEGV
  prot,    \* per page: the accesses it allows
  mem,     \* per cell: its contents
  acc      \* the access the program is making, if any

vars == <<elf, proc, segs, handler, prot, mem, acc>>

NoAccess == [addr |-> 0, kind |-> "none"]

PageOf(a) == a \div PageSize
AlignDown(a) == PageOf(a) * PageSize
CellsOf(p) == (p * PageSize)..(p * PageSize + PageSize - 1)

Init ==
  /\ elf \in Headers
  /\ proc = "start"
  /\ segs = <<>>
  /\ handler = "segv_handler" \* so_init_loader; rc < -1 is never true
  /\ prot = [p \in 0..(Pages - 1) |-> {}]
  /\ mem = [a \in Cells |-> Unmapped]
  /\ acc = NoAccess

-----------------------------------------------------------------------------
\* Mutant of SegmentOf: the offset in the file is not aligned with vaddr.
SegmentOfUnalignedOffset(ph) ==
  LET diff == ph.vaddr - AlignDown(ph.vaddr) IN
  [vaddr |-> ph.vaddr - diff, offset |-> ph.offset,
   filesz |-> ph.filesz + diff, memsz |-> ph.memsz + diff, perm |-> ph.flags]

\* A PT_LOAD header as a segment: vaddr is aligned down, the rest follows.
SegmentOf(ph) ==
  LET diff == ph.vaddr - AlignDown(ph.vaddr) IN
  [vaddr |-> ph.vaddr - diff, offset |-> ph.offset - diff,
   filesz |-> ph.filesz + diff, memsz |-> ph.memsz + diff, perm |-> ph.flags]

Loadable(phdrs) == {i \in DOMAIN phdrs : phdrs[i].load}

\* exec->segments: the PT_LOAD headers as segments, in their order.  The set
\* has this one element.
ParseExec(phdrs) ==
  LET n == Cardinality(Loadable(phdrs))
      InOrder == {f \in [1..n -> Loadable(phdrs)] : \A i, j \in 1..n : i < j => f[i] < f[j]}
  IN  {[j \in 1..n |-> SegmentOf(phdrs[f[j]])] : f \in InOrder}

\* exec->base_addr: the lowest vaddr, or 0xffffffff, here the last cell.
BaseAddr(ss) ==
  CHOOSE a \in {ss[i].vaddr : i \in DOMAIN ss} \cup {Pages * PageSize - 1} :
    \A i \in DOMAIN ss : a <= ss[i].vaddr

\* so_execute: so_start_exec begins with fix_auxv, which reads the ELF header
\* at base_addr, and then jumps to the program.
SoExecute ==
  /\ proc = "start"
  /\ \/ /\ elf.valid
        /\ proc' = "running"
        /\ segs' \in ParseExec(elf.phdrs)
        /\ acc' = [addr |-> BaseAddr(segs'), kind |-> "r"]
     \/ /\ proc' = IF elf.valid THEN "killed" ELSE "refused" \* open failed: exit(-1)
        /\ UNCHANGED <<segs, acc>>
  /\ UNCHANGED <<elf, handler, prot, mem>>

\* External: the program reads, writes or executes any cell it likes.
ProgramAccesses(a, k) ==
  /\ proc = "running" /\ acc = NoAccess
  /\ acc' = [addr |-> a, kind |-> k]
  /\ UNCHANGED <<elf, proc, segs, handler, prot, mem>>

Allowed == acc # NoAccess /\ acc.kind \in prot[PageOf(acc.addr)]

AccessDone ==
  /\ proc = "running" /\ Allowed
  /\ mem' = IF acc.kind = "w" THEN [mem EXCEPT ![acc.addr] = Dirty] ELSE mem
  /\ acc' = NoAccess
  /\ UNCHANGED <<elf, proc, segs, handler, prot>>

-----------------------------------------------------------------------------
\* Mutant of Protection: a page that can be read keeps the PROT_WRITE it was
\* mapped with.
ProtectionKeepsWrite(perm) ==
  IF "x" \in perm THEN {"r", "w", "x"}
  ELSE IF perm # {} THEN {"r", "w"} ELSE {}

\* Mutant of Protection: the mprotect calls in the opposite order.
ProtectionReversed(perm) ==
  IF "r" \in perm THEN {"r"}
  ELSE IF "w" \in perm THEN {"r", "w"}
  ELSE IF "x" \in perm THEN {"r", "w", "x"} ELSE {}

\* The last mprotect that applies decides: executable pages are writable too.
Protection(perm) ==
  IF "x" \in perm THEN {"r", "w", "x"}
  ELSE IF "w" \in perm THEN {"r", "w"}
  ELSE IF "r" \in perm THEN {"r"} ELSE {}

\* Mutant of PageStart: always the first page of the segment.
PageStartFirst(seg, a) == seg.vaddr

\* vaddr + pageCnt * pageSize
PageStart(seg, a) == seg.vaddr + ((a - seg.vaddr) \div PageSize) * PageSize

\* Mutant of BytesToRead: a whole page, whatever is left of file_size.
BytesToReadPage(seg, start) == IF start < seg.filesz THEN PageSize ELSE 0

\* min(mapRem, pageSize), for the page that starts at start in the segment.
BytesToRead(seg, start) ==
  IF start >= seg.filesz THEN 0
  ELSE IF seg.filesz - start < PageSize THEN seg.filesz - start ELSE PageSize

\* External: read leaves the page as it is, zero, behind the end of the file.
FileCell(i) == IF i < FileLen THEN i ELSE Zero

\* mappingPage: MAP_FIXED replaces whatever the page held; then the part of
\* the file that belongs there is read, short if the file ends first.
MappingPage(seg, a) ==
  LET first == PageStart(seg, a)
      start == first - seg.vaddr
      n     == BytesToRead(seg, start)
      from  == seg.offset + start
  IN  /\ mem' = [c \in Cells |->
                   IF c \notin CellsOf(PageOf(first)) THEN mem[c]
                   ELSE IF c - first < n THEN FileCell(from + (c - first)) ELSE Zero]
      /\ prot' = [prot EXCEPT ![PageOf(first)] = Protection(seg.perm)]

\* Mutant of Covers: the limit itself is taken to be inside.
CoversLimit(seg, a) == seg.vaddr <= a /\ a <= seg.vaddr + seg.memsz

Covers(seg, a) == seg.vaddr <= a /\ a < seg.vaddr + seg.memsz

\* segv_handler, on a fault of the access in acc.
SegvHandler ==
  /\ handler = "segv_handler"
  /\ \/ \E i \in DOMAIN segs :
          /\ Covers(segs[i], acc.addr)
          /\ \A j \in 1..(i - 1) : ~Covers(segs[j], acc.addr)
          /\ MappingPage(segs[i], acc.addr)
          /\ UNCHANGED <<proc, handler>>
     \/ /\ \A i \in DOMAIN segs : ~Covers(segs[i], acc.addr)
        /\ handler' = "default"
        /\ UNCHANGED <<proc, prot, mem>>

Faults == proc = "running" /\ acc # NoAccess /\ ~Allowed

\* sigaction is called with sa_flags 0, without SA_SIGINFO, so what the
\* handler reads as sig_info is undefined: if it is not the siginfo of the
\* fault the process dies.  It exits too when mmap or read fails.
HandlerDies ==
  /\ Faults /\ handler = "segv_handler"
  /\ proc' = "killed"
  /\ UNCHANGED <<elf, segs, handler, prot, mem, acc>>

\* The handler returns and the access is tried again.
Fault ==
  /\ Faults
  /\ \/ SegvHandler
     \/ /\ handler = "default"
        /\ proc' = "killed"
        /\ UNCHANGED <<handler, prot, mem>>
  /\ UNCHANGED <<elf, segs, acc>>

Next ==
  \/ SoExecute
  \/ \E a \in Cells, k \in {"r", "w", "x"} : ProgramAccesses(a, k)
  \/ AccessDone
  \/ Fault
  \/ HandlerDies

\* The processor goes on; the handler does not have to die.
Spec == Init /\ [][Next]_vars /\ WF_vars(AccessDone) /\ WF_vars(Fault)

-----------------------------------------------------------------------------
\* The state stays in its ranges.  No run checks it; the proofs need it.
TypeOK ==
  /\ proc \in {"start", "running", "refused", "killed"}
  /\ handler \in {"segv_handler", "default"}
  /\ prot \in [0..(Pages - 1) -> SUBSET {"r", "w", "x"}]
  /\ mem \in [Cells -> {Zero, Dirty, Unmapped} \cup 0..(FileLen - 1)]
  /\ acc \in [addr: Cells, kind: {"none", "r", "w", "x"}]

Loads == {elf.phdrs[i] : i \in {j \in DOMAIN elf.phdrs : elf.phdrs[j].load}}

\* The byte the executable prescribes for a cell of a program header.
Prescribed(ph, a) ==
  IF a - ph.vaddr < ph.filesz THEN FileCell(ph.offset + (a - ph.vaddr)) ELSE Zero

\* What is mapped is the image the executable prescribes, cell by cell: a
\* cell of a PT_LOAD header holds its byte of the file, or zero behind
\* p_filesz and behind the end of a file that was cut short (exec_parser.h:24: mem_size can be larger than file_size), until
\* the program writes it.  This goes through the alignment in so_parse_exec
\* and the page arithmetic in mappingPage together.
ImageIsFile ==
  \A ph \in Loads : \A a \in ph.vaddr..(ph.vaddr + ph.memsz - 1) :
    mem[a] \in {Unmapped, Dirty, Prescribed(ph, a)}

\* A page is mapped only if it holds a cell of a PT_LOAD header: an access
\* outside the program never gets memory.
OnlyLoadedPages ==
  \A a \in Cells : mem[a] # Unmapped =>
    \E ph \in Loads : PageOf(a) \in PageOf(ph.vaddr)..PageOf(ph.vaddr + ph.memsz - 1)

\* The program changes no page that its headers make read-only, although
\* mappingPage has to map every page writable to fill it (loader.c:51), and a
\* page that was written may be mapped again: a cell is dirty only in a page
\* of a header with PERM_W, or with PERM_X, since the last mprotect makes
\* executable pages writable too.
WritesAreAllowed ==
  \A a \in Cells : mem[a] = Dirty =>
    \E ph \in Loads :
      /\ PageOf(a) \in PageOf(ph.vaddr)..PageOf(ph.vaddr + ph.memsz - 1)
      /\ ph.flags \cap {"w", "x"} # {}

PermittedAt(a, k) ==
  \E ph \in Loads : k \in ph.flags /\ a \in ph.vaddr..(ph.vaddr + ph.memsz - 1)

\* What the program wrote stays written: page faults of accesses that the
\* program headers permit never map over a page in use.  (An access that
\* they do not permit does: the handler maps the page afresh, for ever.)
WritesSurvive ==
  [][\A a \in Cells :
       mem[a] = Dirty /\ mem'[a] # Dirty => ~PermittedAt(acc.addr, acc.kind)]_vars

\* An access that the program headers permit is not retried for ever: it is
\* carried out, its page having been mapped with enough protection, or the
\* process is killed in the handler, which HandlerDies allows (no siginfo, a
\* failing mmap or read) and nothing makes happen.
AccessCompletes ==
  (acc # NoAccess /\ PermittedAt(acc.addr, acc.kind)) ~> (acc = NoAccess \/ proc = "killed")
=============================================================================
