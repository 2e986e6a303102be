--------------------------- MODULE SoLoaderProofs ---------------------------
(***************************************************************************)
(* Proofs about the on-demand loader.  After some facts on pages, the      *)
(* lemma MappedPage says what mappingPage does: the page of the address    *)
(* becomes the image of one PT_LOAD header.  The inductive invariant IInv  *)
(* says of every page that it is unmapped, or the image of a PT_LOAD       *)
(* header with the protection of that header, the program's own writes     *)
(* apart, which only writable and executable headers allow.                *)
(***************************************************************************)
EXTENDS SoLoader, TLAPS, WellFoundedInduction

\* The page of an address contains it.
LEMMA PageOfCell ==
  \A a \in Nat : /\ PageOf(a) \in Nat
                 /\ PageOf(a) * PageSize <= a
                 /\ a < PageOf(a) * PageSize + PageSize
  BY LoaderAssumption DEF PageOf

\* No two pages contain the same address.
LEMMA PageIsUnique ==
  \A q, s \in Int : \A a \in Int :
    q * PageSize <= a /\ a < q * PageSize + PageSize
    /\ s * PageSize <= a /\ a < s * PageSize + PageSize => q = s
  <1> SUFFICES ASSUME NEW q \in Int, NEW s \in Int, NEW a \in Int,
                      q * PageSize <= a, a < q * PageSize + PageSize,
                      s * PageSize <= a, a < s * PageSize + PageSize
               PROVE  q = s
    OBVIOUS
  <1> DEFINE P == PageSize
  <1>1. P \in Nat \ {0}
    BY LoaderAssumption
  <1> HIDE DEF P
  <1>2. \A d \in Int : d >= 1 => d * P >= P
    BY <1>1
  <1>3. (q - s) * P = q * P - s * P /\ (s - q) * P = s * P - q * P
    BY <1>1
  <1>4. ~(q - s >= 1) /\ ~(s - q >= 1)
    BY <1>1, <1>2, <1>3 DEF P
  <1> QED BY <1>4

\* A higher address is not in a lower page.
LEMMA PageMonotone ==
  \A a, b \in Nat : a <= b => PageOf(a) <= PageOf(b)
  <1> SUFFICES ASSUME NEW a \in Nat, NEW b \in Nat, a <= b
               PROVE  PageOf(a) <= PageOf(b)
    OBVIOUS
  <1> DEFINE P == PageSize
  <1>1. P \in Nat \ {0}
    BY LoaderAssumption
  <1>2. /\ PageOf(a) \in Nat /\ PageOf(a) * P <= a
        /\ PageOf(b) \in Nat /\ b < PageOf(b) * P + P
    BY PageOfCell DEF P
  <1> HIDE DEF P
  <1>3. \A d \in Int : d >= 1 => d * P >= P
    BY <1>1
  <1>4. (PageOf(a) - PageOf(b)) * P = PageOf(a) * P - PageOf(b) * P
    BY <1>1, <1>2
  <1>5. ~(PageOf(a) - PageOf(b) >= 1)
    BY <1>1, <1>2, <1>3, <1>4
  <1> QED BY <1>2, <1>5

\* A set of naturals has a least element: the base address exists.
LEMMA MinimumExists ==
  ASSUME NEW T, T \subseteq Nat, T # {}
  PROVE  \E x \in T : \A y \in T : x <= y
  <1>1. IsWellFoundedOn(OpToRel(<, Nat), Nat)
    BY NatLessThanWellFounded
  <1> DEFINE R == OpToRel(<, Nat)
  <1>2. IsWellFoundedOn(R, Nat)
    BY <1>1
  <1> HIDE DEF R
  <1>3. PICK x \in T : \A y \in T : ~(<<y, x>> \in R)
    BY <1>2, WFMin
  <1>4. \A y \in T : <<y, x>> \notin OpToRel(<, Nat)
    BY <1>3 DEF R
  <1>5. \A y \in T : ~(y < x)
    BY <1>4 DEF OpToRel
  <1> QED BY <1>5

\* Every cell of memory is in the page PageOf gives, and in no other.
LEMMA CellsOfPage ==
  \A c \in Cells :
    /\ c \in Nat /\ PageOf(c) \in 0..(Pages - 1)
    /\ \A p \in Int : c \in CellsOf(p) <=> p = PageOf(c)
  <1> SUFFICES ASSUME NEW c \in Cells
               PROVE  /\ c \in Nat /\ PageOf(c) \in 0..(Pages - 1)
                      /\ \A p \in Int : c \in CellsOf(p) <=> p = PageOf(c)
    OBVIOUS
  <1> DEFINE P == PageSize
             q == PageOf(c)
  <1>1. P \in Nat \ {0} /\ Pages \in Nat \ {0} /\ Pages * P \in Int
    BY LoaderAssumption
  <1>2. c \in Nat /\ c <= Pages * P - 1
    BY <1>1 DEF Cells
  <1>3. q \in Nat /\ q * P \in Int /\ q * P <= c /\ c < q * P + P
    BY <1>1, <1>2, PageOfCell
  <1>4. \A p \in Int : p * P \in Int
    BY <1>1
  <1>5. \A p \in Int : c \in CellsOf(p) <=> p * P <= c /\ c < p * P + P
    BY <1>1, <1>2, <1>4 DEF CellsOf
  <1>6. \A p \in Int : p * P <= c /\ c < p * P + P => p = q
    BY <1>2, <1>3, PageIsUnique
  <1> HIDE DEF P, q
  <1>7. \A d \in Int : d >= 0 => d * P >= 0
    BY <1>1
  <1>8. (q - Pages) * P = q * P - Pages * P
    BY <1>1, <1>3
  <1>9. ~(q - Pages >= 0)
    BY <1>1, <1>2, <1>3, <1>7, <1>8
  <1>10. q \in 0..(Pages - 1)
    BY <1>1, <1>3, <1>9
  <1> QED BY <1>2, <1>3, <1>5, <1>6, <1>10 DEF q

-----------------------------------------------------------------------------
PagesOf(ph) == PageOf(ph.vaddr)..PageOf(ph.vaddr + ph.memsz - 1)

\* What the assumption on the executables says of a PT_LOAD header.
LEMMA LoadIsPhdr ==
  ASSUME elf \in Headers, NEW ph \in Loads
  PROVE  /\ ph.vaddr \in Nat /\ ph.offset \in Nat /\ ph.filesz \in Nat /\ ph.memsz \in Nat
         /\ ph.flags \in SUBSET {"r", "w", "x"}
         /\ ph.offset % PageSize = ph.vaddr % PageSize
         /\ ph.vaddr \in Cells
         /\ ph.vaddr + ph.memsz <= Pages * PageSize
  <1>1. PICK i \in DOMAIN elf.phdrs : elf.phdrs[i].load /\ ph = elf.phdrs[i]
    BY DEF Loads
  <1>2. elf.phdrs \in Seq(Phdr)
    BY LoaderAssumption DEF Header
  <1>3. ph \in Phdr
    BY <1>1, <1>2
  <1>4. /\ ph.offset % PageSize = ph.vaddr % PageSize
        /\ ph.vaddr \in Cells
        /\ ph.vaddr + ph.memsz <= Pages * PageSize
    BY <1>1, LoaderAssumption
  <1> QED BY <1>3, <1>4 DEF Phdr

\* so_parse_exec aligns vaddr down; the offset in the file, which agrees with
\* it modulo the page size, does not become negative.
LEMMA Aligned ==
  ASSUME NEW v \in Nat, NEW o \in Nat, o % PageSize = v % PageSize
  PROVE  /\ AlignDown(v) \in Nat /\ AlignDown(v) <= v
         /\ o - (v - AlignDown(v)) \in Nat
  <1>1. PageSize \in Nat \ {0}
    BY LoaderAssumption
  <1>2. PageOf(v) \in Nat /\ PageOf(v) * PageSize <= v
    BY PageOfCell
  <1>3. AlignDown(v) \in Nat /\ AlignDown(v) <= v
    BY <1>1, <1>2 DEF AlignDown
  <1>4. v % PageSize = v - (v \div PageSize) * PageSize
    BY <1>1
  <1>5. o % PageSize <= o /\ o % PageSize \in Nat
    BY <1>1
  <1> QED BY <1>3, <1>4, <1>5 DEF AlignDown, PageOf

\* vaddr + pageCnt * pageSize is the start of the page of the address.
LEMMA PageStartIs ==
  ASSUME NEW v \in Nat, NEW a \in Nat, AlignDown(v) <= a, NEW seg, seg.vaddr = AlignDown(v)
  PROVE  /\ PageStart(seg, a) = PageOf(a) * PageSize
         /\ PageOf(PageOf(a) * PageSize) = PageOf(a)
         /\ AlignDown(v) <= PageOf(a) * PageSize
         /\ PageOf(a) * PageSize \in Nat
  <1> DEFINE P == PageSize
             q == PageOf(v)
             r == PageOf(a - q * P)
             s == PageOf(a)
  <1>1. P \in Nat \ {0}
    BY LoaderAssumption
  <1>2. q \in Nat /\ q * P \in Nat
    BY <1>1, PageOfCell
  <1>3. a - q * P \in Nat
    BY <1>2 DEF AlignDown
  <1>4. r \in Nat /\ r * P \in Nat /\ r * P <= a - q * P /\ a - q * P < r * P + P
    BY <1>1, <1>3, PageOfCell
  <1>5. s \in Nat /\ s * P \in Nat /\ s * P <= a /\ a < s * P + P
    BY <1>1, PageOfCell
  <1>6. PageStart(seg, a) = q * P + r * P
    BY DEF PageStart, AlignDown, PageOf
  <1> HIDE DEF P, q, r, s
  <1>7. (q + r) * P = q * P + r * P
    BY <1>1, <1>2, <1>4
  <1>8. (q + r) * P <= a /\ a < (q + r) * P + P
    BY <1>1, <1>2, <1>4, <1>7
  <1>9. q + r = s
    BY <1>2, <1>4, <1>5, <1>8, PageIsUnique DEF P
  <1>10. s * P <= s * P /\ s * P < s * P + P
    BY <1>1, <1>5
  <1>11. /\ PageOf(s * P) \in Nat
         /\ PageOf(s * P) * P <= s * P /\ s * P < PageOf(s * P) * P + P
    BY <1>5, PageOfCell DEF P
  <1>12. PageOf(s * P) = s
    BY <1>5, <1>10, <1>11, PageIsUnique DEF P
  <1>13. q * P <= s * P
    BY <1>2, <1>4, <1>7, <1>9
  <1>14. AlignDown(v) = q * P
    BY DEF AlignDown, q, P
  <1>15. PageStart(seg, a) = s * P
    BY <1>6, <1>7, <1>9
  <1> QED BY <1>5, <1>12, <1>13, <1>14, <1>15 DEF s, P

\* The fields of a segment.
LEMMA SegmentIs ==
  ASSUME NEW ph, ph.vaddr \in Nat, AlignDown(ph.vaddr) \in Nat
  PROVE  /\ SegmentOf(ph).vaddr = AlignDown(ph.vaddr)
         /\ SegmentOf(ph).offset = ph.offset - (ph.vaddr - AlignDown(ph.vaddr))
         /\ SegmentOf(ph).filesz = ph.filesz + (ph.vaddr - AlignDown(ph.vaddr))
         /\ SegmentOf(ph).memsz = ph.memsz + (ph.vaddr - AlignDown(ph.vaddr))
         /\ SegmentOf(ph).perm = ph.flags
  BY DEF SegmentOf

\* What MappingPage puts in the cell c of the page that starts at first, for
\* a segment that starts at v in memory and at o in the file.
ReadCell(seg, v, o, first, c) ==
  IF c - first < BytesToRead(seg, first - v)
  THEN FileCell(o + (first - v) + (c - first)) ELSE Zero

\* mappingPage makes the page of the address the image of the header, byte
\* for byte: the alignment of the segment, the page count and the part of the
\* file that is left to read cancel out.
LEMMA MappedPage ==
  ASSUME elf \in Headers, TypeOK, NEW ph \in Loads, NEW a \in Cells,
         Covers(SegmentOf(ph), a), MappingPage(SegmentOf(ph), a)
  PROVE  /\ PageOf(a) \in PagesOf(ph)
         /\ prot' = [prot EXCEPT ![PageOf(a)] = Protection(ph.flags)]
         /\ mem' = [c \in Cells |-> IF PageOf(c) = PageOf(a)
                                    THEN Prescribed(ph, c) ELSE mem[c]]
         /\ \A c \in Cells : PageOf(c) = PageOf(a) =>
                               Prescribed(ph, c) \in {Zero} \cup 0..(FileLen - 1)
  <1> DEFINE seg == SegmentOf(ph)
             v == AlignDown(ph.vaddr)
             first == PageOf(a) * PageSize
  <1>1. PageSize \in Nat \ {0}
    BY LoaderAssumption
  <1>2. /\ ph.vaddr \in Nat /\ ph.offset \in Nat /\ ph.filesz \in Nat /\ ph.memsz \in Nat
        /\ ph.offset % PageSize = ph.vaddr % PageSize
    BY LoadIsPhdr
  <1>3. v \in Nat /\ v <= ph.vaddr /\ ph.offset - (ph.vaddr - v) \in Nat
    BY <1>2, Aligned
  <1>4. /\ seg.vaddr = v
        /\ seg.offset = ph.offset - (ph.vaddr - v)
        /\ seg.filesz = ph.filesz + (ph.vaddr - v)
        /\ seg.memsz = ph.memsz + (ph.vaddr - v)
        /\ seg.perm = ph.flags
    BY <1>2, <1>3, SegmentIs
  <1>5. a \in Nat /\ v <= a /\ a < v + (ph.memsz + (ph.vaddr - v))
    BY <1>4, CellsOfPage DEF Covers
  <1> HIDE DEF seg
  <1>6. /\ PageStart(seg, a) = first /\ PageOf(first) = PageOf(a)
        /\ v <= first /\ first \in Nat
    BY <1>2, <1>4, <1>5, PageStartIs
  <1>7. PageOf(a) \in PagesOf(ph)
    <2>1. a <= ph.vaddr + ph.memsz - 1 /\ ph.vaddr + ph.memsz - 1 \in Nat
      BY <1>2, <1>3, <1>5
    <2>2. PageOf(a) <= PageOf(ph.vaddr + ph.memsz - 1)
      BY <1>5, <2>1, PageMonotone
    <2>3. PageOf(v) <= PageOf(a)
      BY <1>3, <1>5, PageMonotone
    <2>4. PageOf(v) = PageOf(ph.vaddr)
      <3>1. ph.vaddr \in Nat /\ v <= ph.vaddr /\ seg.vaddr = AlignDown(ph.vaddr)
        BY <1>2, <1>3, <1>4
      <3>2. PageOf(PageOf(ph.vaddr) * PageSize) = PageOf(ph.vaddr)
        BY <3>1, PageStartIs
      <3> QED BY <3>2 DEF AlignDown
    <2>5. /\ PageOf(a) \in Nat /\ PageOf(ph.vaddr) \in Nat
          /\ PageOf(ph.vaddr + ph.memsz - 1) \in Nat
      BY <1>2, <1>5, <2>1, PageOfCell
    <2> QED BY <2>2, <2>3, <2>4, <2>5 DEF PagesOf
  <1>8. prot' = [prot EXCEPT ![PageOf(a)] = Protection(ph.flags)]
    <2>1. prot' = [prot EXCEPT ![PageOf(first)] = Protection(seg.perm)]
      BY <1>6 DEF MappingPage, seg
    <2> QED BY <1>4, <1>6, <2>1
  <1> DEFINE New(c) == IF c \notin CellsOf(PageOf(first)) THEN mem[c]
                       ELSE ReadCell(seg, v, seg.offset, first, c)
  <1>9. mem' = [c \in Cells |-> New(c)]
    BY <1>4, <1>6 DEF MappingPage, ReadCell, seg
  <1>10. ASSUME NEW c \in Cells
        PROVE  New(c) = IF PageOf(c) = PageOf(a) THEN Prescribed(ph, c) ELSE mem[c]
    <2>1. c \in CellsOf(PageOf(first)) <=> PageOf(a) = PageOf(c)
      BY <1>5, <1>6, CellsOfPage, PageOfCell
    <2>2. CASE PageOf(c) = PageOf(a)
      <3>1. c \in Nat /\ first <= c /\ c < first + PageSize
        BY <2>2, CellsOfPage, PageOfCell
      <3>2. seg.offset \in Nat
        BY <1>3, <1>4
      <3> HIDE DEF v, first
      <3>3. ReadCell(seg, v, seg.offset, first, c) = Prescribed(ph, c)
        <4> DEFINE va == ph.vaddr
                   of == ph.offset
                   fz == ph.filesz
                   sz == seg.filesz
                   o == seg.offset
        <4>1. /\ va \in Nat /\ of \in Nat /\ fz \in Nat /\ sz \in Nat
              /\ v \in Nat /\ c \in Nat /\ first \in Nat /\ o \in Nat
          BY <1>2, <1>3, <1>4, <1>6, <3>1, <3>2
        <4>2. /\ v <= va /\ v <= first /\ first <= c /\ c < first + PageSize
              /\ sz = fz + (va - v)
              /\ o = of - (va - v)
          BY <1>2, <1>3, <1>4, <1>6, <3>1, <3>2
        <4>3. ph.vaddr = va /\ ph.offset = of /\ ph.filesz = fz /\ seg.filesz = sz
          OBVIOUS
        <4> HIDE DEF va, of, fz, sz, o, New
        <4> DEFINE n == IF first - v >= sz THEN 0
                        ELSE IF sz - (first - v) < PageSize THEN sz - (first - v)
                        ELSE PageSize
        <4>4. BytesToRead(seg, first - v) = n
          BY <4>3 DEF BytesToRead
        <4>5. c - first < n <=> c - va < fz
          BY <1>1, <4>1, <4>2
        <4>6. o + (first - v) + (c - first) = of + (c - va)
          BY <4>1, <4>2
        <4> HIDE DEF n
        <4>7. ReadCell(seg, v, o, first, c) = Prescribed(ph, c)
          BY <4>3, <4>4, <4>5, <4>6 DEF Prescribed, ReadCell
        <4> QED BY <4>7 DEF o
      <3> QED BY <2>1, <2>2, <3>3
    <2>3. CASE PageOf(c) # PageOf(a)
      BY <2>1, <2>3
    <2> QED BY <2>2, <2>3
  <1>11. ASSUME NEW c \in Cells, PageOf(c) = PageOf(a)
         PROVE  Prescribed(ph, c) \in {Zero} \cup 0..(FileLen - 1)
    <2>1. c \in Nat /\ first <= c
      BY <1>11, CellsOfPage, PageOfCell
    <2>2. ph.offset + (c - ph.vaddr) \in Nat
      <3> HIDE DEF v, first
      <3>1. v <= c
        BY <1>3, <1>6, <2>1
      <3> QED BY <1>2, <1>3, <2>1, <3>1
    <2>3. FileLen \in Nat
      BY LoaderAssumption
    <2>4. ASSUME NEW i \in Nat
          PROVE  FileCell(i) \in {Zero} \cup 0..(FileLen - 1)
      BY <2>3 DEF FileCell
    <2> QED BY <2>2, <2>4 DEF Prescribed
  <1> QED BY <1>7, <1>8, <1>9, <1>10, <1>11

-----------------------------------------------------------------------------
\* The segments are those of PT_LOAD headers, in whatever order.
SegsAreLoads == \A i \in DOMAIN segs : \E ph \in Loads : segs[i] = SegmentOf(ph)

NotMapped(p) ==
  /\ prot[p] = {}
  /\ \A c \in Cells : PageOf(c) = p => mem[c] = Unmapped

\* The page p was mapped for the header ph, and only the program has changed
\* it since.
HoldsImage(p, ph) ==
  /\ p \in PagesOf(ph)
  /\ prot[p] = Protection(ph.flags)
  /\ \A c \in Cells : PageOf(c) = p => mem[c] \in {Dirty, Prescribed(ph, c)}
  /\ \A c \in Cells : PageOf(c) = p /\ mem[c] = Dirty => ph.flags \cap {"w", "x"} # {}

PagesAreImages ==
  \A p \in 0..(Pages - 1) : NotMapped(p) \/ \E ph \in Loads : HoldsImage(p, ph)

IInv == elf \in Headers /\ TypeOK /\ SegsAreLoads /\ PagesAreImages

\* so_parse_exec makes its segments from PT_LOAD headers only.
LEMMA ParsedAreLoads ==
  ASSUME NEW ss \in ParseExec(elf.phdrs)
  PROVE  \A i \in DOMAIN ss : \E ph \in Loads : ss[i] = SegmentOf(ph)
  <1> DEFINE n == Cardinality(Loadable(elf.phdrs))
  <1>1. PICK f \in [1..n -> Loadable(elf.phdrs)] :
          ss = [j \in 1..n |-> SegmentOf(elf.phdrs[f[j]])]
    BY DEF ParseExec
  <1>2. ASSUME NEW j \in 1..n
        PROVE  elf.phdrs[f[j]] \in Loads
    BY DEF Loadable, Loads
  <1> HIDE DEF n
  <1> QED BY <1>1, <1>2

\* base_addr is an address of the program.
LEMMA BaseIsCell ==
  ASSUME elf \in Headers, NEW ss,
         \A i \in DOMAIN ss : \E ph \in Loads : ss[i] = SegmentOf(ph)
  PROVE  BaseAddr(ss) \in Cells
  <1> DEFINE T == {ss[i].vaddr : i \in DOMAIN ss} \cup {Pages * PageSize - 1}
  <1>1. PageSize \in Nat \ {0} /\ Pages \in Nat \ {0} /\ Pages * PageSize \in Nat \ {0}
    BY LoaderAssumption
  <1>2. Pages * PageSize - 1 \in Cells
    BY <1>1 DEF Cells
  <1>3. ASSUME NEW i \in DOMAIN ss
        PROVE  ss[i].vaddr \in Cells
    <2>1. PICK ph \in Loads : ss[i] = SegmentOf(ph)
      OBVIOUS
    <2>2. /\ ph.vaddr \in Nat /\ ph.offset \in Nat /\ ph.vaddr \in Cells
          /\ ph.offset % PageSize = ph.vaddr % PageSize
      BY LoadIsPhdr
    <2>3. AlignDown(ph.vaddr) \in Nat /\ AlignDown(ph.vaddr) <= ph.vaddr
      BY <2>2, Aligned
    <2>4. ss[i].vaddr = AlignDown(ph.vaddr)
      BY <2>1, <2>2, <2>3, SegmentIs
    <2> QED BY <1>1, <2>2, <2>3, <2>4 DEF Cells
  <1>4. T \subseteq Cells
    BY <1>2, <1>3
  <1>5. T \subseteq Nat /\ T # {}
    BY <1>1, <1>4 DEF Cells
  <1>6. PICK x \in T : \A y \in T : x <= y
    BY <1>5, MinimumExists
  <1>7. \A i \in DOMAIN ss : x <= ss[i].vaddr
    BY <1>6
  <1>8. BaseAddr(ss) \in T
    BY <1>6, <1>7 DEF BaseAddr
  <1> QED BY <1>4, <1>8

\* The invariant holds at first.
LEMMA InitIInv == Init => IInv
  <1> SUFFICES ASSUME Init PROVE IInv
    OBVIOUS
  <1>1. PageSize \in Nat \ {0} /\ Pages \in Nat \ {0} /\ Pages * PageSize \in Nat \ {0}
    BY LoaderAssumption
  <1>2. 0 \in Cells
    BY <1>1 DEF Cells
  <1>3. TypeOK
    BY <1>2 DEF Init, TypeOK, NoAccess
  <1>4. SegsAreLoads
    BY DEF Init, SegsAreLoads
  <1>5. PagesAreImages
    BY DEF Init, PagesAreImages, NotMapped
  <1> QED BY <1>3, <1>4, <1>5 DEF Init, IInv

\* What is mapped stays an image when neither memory nor protections change.
LEMMA MemoryUnchanged ==
  ASSUME PagesAreImages, UNCHANGED <<elf, prot, mem>>
  PROVE  PagesAreImages'
  BY DEF PagesAreImages, NotMapped, HoldsImage, Loads

\* so_execute keeps the invariant.
LEMMA ExecuteIInv == IInv /\ SoExecute => IInv'
  <1> SUFFICES ASSUME IInv, SoExecute PROVE IInv'
    OBVIOUS
  <1> USE DEF IInv
  <1>1. UNCHANGED <<elf, handler, prot, mem>>
    BY DEF SoExecute
  <1>2. PagesAreImages'
    BY <1>1, MemoryUnchanged
  <1>3. CASE UNCHANGED <<segs, acc>>
    <2>1. proc' \in {"start", "running", "refused", "killed"}
      BY DEF SoExecute, TypeOK
    <2> QED BY <1>1, <1>2, <1>3, <2>1 DEF TypeOK, SegsAreLoads, Loads
  <1>4. CASE /\ proc' = "running" /\ segs' \in ParseExec(elf.phdrs)
             /\ acc' = [addr |-> BaseAddr(segs'), kind |-> "r"]
    <2>1. \A i \in DOMAIN segs' : \E ph \in Loads : segs'[i] = SegmentOf(ph)
      BY <1>4, ParsedAreLoads
    <2>2. BaseAddr(segs') \in Cells
      BY <2>1, BaseIsCell
    <2>3. TypeOK'
      BY <1>1, <1>4, <2>2 DEF TypeOK
    <2>4. SegsAreLoads'
      BY <1>1, <2>1 DEF SegsAreLoads, Loads
    <2> QED BY <1>1, <1>2, <2>3, <2>4
  <1> QED BY <1>3, <1>4 DEF SoExecute

\* An access that begins keeps the invariant.
LEMMA ProgramIInv ==
  ASSUME NEW a \in Cells, NEW k \in {"r", "w", "x"}
  PROVE  IInv /\ ProgramAccesses(a, k) => IInv'
  <1> SUFFICES ASSUME IInv, ProgramAccesses(a, k) PROVE IInv'
    OBVIOUS
  <1>1. PagesAreImages'
    BY MemoryUnchanged DEF IInv, ProgramAccesses
  <1> QED BY <1>1 DEF IInv, ProgramAccesses, TypeOK, SegsAreLoads, Loads

\* An access changes a page only if it is mapped.
LEMMA DoneIInv == IInv /\ AccessDone => IInv'
  <1> SUFFICES ASSUME IInv, AccessDone PROVE IInv'
    OBVIOUS
  <1>1. 0 \in Cells
    BY LoaderAssumption DEF Cells
  <1>2. UNCHANGED <<elf, proc, segs, handler, prot>> /\ acc' = NoAccess
    BY DEF AccessDone
  <1>3. acc.addr \in Cells /\ acc.kind \in prot[PageOf(acc.addr)]
    BY DEF AccessDone, Allowed, IInv, TypeOK
  <1>4. mem' \in [Cells -> {Zero, Dirty, Unmapped} \cup 0..(FileLen - 1)]
    BY <1>3 DEF AccessDone, IInv, TypeOK
  <1>5. TypeOK'
    BY <1>1, <1>2, <1>4 DEF IInv, TypeOK, NoAccess
  <1>6. SegsAreLoads'
    BY <1>2 DEF IInv, SegsAreLoads, Loads
  <1>7. \A c \in Cells : mem'[c] = mem[c] \/ (c = acc.addr /\ mem'[c] = Dirty)
    BY DEF AccessDone, IInv, TypeOK
  <1>8. ASSUME NEW p \in 0..(Pages - 1)
        PROVE  NotMapped(p)' \/ \E ph \in Loads' : HoldsImage(p, ph)'
    <2>1. CASE NotMapped(p)
      <3>1. \A c \in Cells : PageOf(c) = p => c # acc.addr
        BY <1>3, <2>1 DEF NotMapped
      <3> QED BY <1>2, <1>7, <2>1, <3>1 DEF NotMapped
    <2>2. ASSUME NEW ph \in Loads, HoldsImage(p, ph)
          PROVE  ph \in Loads' /\ HoldsImage(p, ph)'
      <3>1. ASSUME NEW c \in Cells, PageOf(c) = p, mem'[c] = Dirty
            PROVE  ph.flags \cap {"w", "x"} # {}
        <4>1. CASE mem[c] = Dirty
          BY <2>2, <3>1, <4>1 DEF HoldsImage
        <4>2. CASE mem[c] # Dirty
          <5>1. acc.kind = "w" /\ c = acc.addr
            BY <1>7, <3>1, <4>2 DEF AccessDone
          <5>2. "w" \in Protection(ph.flags)
            BY <1>3, <2>2, <3>1, <5>1 DEF HoldsImage
          <5> QED BY <5>2 DEF Protection
        <4> QED BY <4>1, <4>2
      <3> QED BY <1>2, <1>7, <2>2, <3>1 DEF HoldsImage, Loads
    <2> QED BY <2>1, <2>2 DEF IInv, PagesAreImages
  <1>9. PagesAreImages'
    BY <1>8 DEF PagesAreImages
  <1> QED BY <1>2, <1>5, <1>6, <1>9 DEF IInv

\* A fault that is served maps the page for the header of its segment.
LEMMA MapIInv ==
  ASSUME IInv, NEW i \in DOMAIN segs, Covers(segs[i], acc.addr),
         MappingPage(segs[i], acc.addr), UNCHANGED <<elf, proc, segs, handler, acc>>
  PROVE  IInv'
  <1>1. acc.addr \in Cells
    BY DEF IInv, TypeOK
  <1>2. PICK ph \in Loads : segs[i] = SegmentOf(ph)
    BY DEF IInv, SegsAreLoads
  <1> DEFINE q == PageOf(acc.addr)
  <1>3. /\ q \in PagesOf(ph)
        /\ prot' = [prot EXCEPT ![q] = Protection(ph.flags)]
        /\ mem' = [c \in Cells |-> IF PageOf(c) = q THEN Prescribed(ph, c) ELSE mem[c]]
        /\ \A c \in Cells : PageOf(c) = q =>
                              Prescribed(ph, c) \in {Zero} \cup 0..(FileLen - 1)
    BY <1>1, <1>2, MappedPage DEF IInv
  <1>4. q \in 0..(Pages - 1)
    BY <1>1, CellsOfPage
  <1> HIDE DEF q
  <1>5. Protection(ph.flags) \in SUBSET {"r", "w", "x"}
    BY DEF Protection
  <1>6. prot' \in [0..(Pages - 1) -> SUBSET {"r", "w", "x"}]
    BY <1>3, <1>5 DEF IInv, TypeOK
  <1>7. mem' \in [Cells -> {Zero, Dirty, Unmapped} \cup 0..(FileLen - 1)]
    BY <1>3 DEF IInv, TypeOK
  <1>8. TypeOK'
    BY <1>6, <1>7 DEF IInv, TypeOK
  <1>9. SegsAreLoads'
    BY DEF IInv, SegsAreLoads, Loads
  <1>10. ASSUME NEW p \in 0..(Pages - 1)
         PROVE  NotMapped(p)' \/ \E h \in Loads' : HoldsImage(p, h)'
    <2>1. CASE p = q
      <3>1. prot'[q] = Protection(ph.flags)
        BY <1>3, <1>4 DEF IInv, TypeOK
      <3>2. \A c \in Cells : PageOf(c) = q => mem'[c] # Dirty
        BY <1>3, LoaderAssumption DEF Dirty, Zero
      <3> QED BY <1>3, <2>1, <3>1, <3>2 DEF HoldsImage, Loads
    <2>2. CASE p # q
      <3>1. prot'[p] = prot[p]
        BY <1>3, <2>2 DEF IInv, TypeOK
      <3>2. \A c \in Cells : PageOf(c) = p => mem'[c] = mem[c]
        BY <1>3, <2>2
      <3>3. NotMapped(p) => NotMapped(p)'
        BY <3>1, <3>2 DEF NotMapped
      <3>4. \A h \in Loads : HoldsImage(p, h) => h \in Loads' /\ HoldsImage(p, h)'
        BY <3>1, <3>2 DEF HoldsImage, Loads
      <3> QED BY <3>3, <3>4 DEF IInv, PagesAreImages
    <2> QED BY <2>1, <2>2
  <1>11. PagesAreImages'
    BY <1>10 DEF PagesAreImages
  <1> QED BY <1>8, <1>9, <1>11 DEF IInv

\* A fault keeps the invariant, whether it is served, passed on or deadly.
LEMMA FaultIInv == IInv /\ Fault => IInv'
  <1> SUFFICES ASSUME IInv, Fault PROVE IInv'
    OBVIOUS
  <1>1. CASE UNCHANGED <<prot, mem>>
    <2>1. PagesAreImages'
      BY <1>1, MemoryUnchanged DEF IInv, Fault
    <2>2. /\ proc' \in {"start", "running", "refused", "killed"}
          /\ handler' \in {"segv_handler", "default"}
      BY DEF Fault, SegvHandler, IInv, TypeOK
    <2> QED BY <1>1, <2>1, <2>2 DEF IInv, Fault, TypeOK, SegsAreLoads, Loads
  <1>2. CASE \E i \in DOMAIN segs : /\ Covers(segs[i], acc.addr)
                                    /\ MappingPage(segs[i], acc.addr)
                                    /\ UNCHANGED <<proc, handler>>
    BY <1>2, MapIInv DEF Fault
  <1> QED BY <1>1, <1>2 DEF Fault, SegvHandler

\* Every step keeps the invariant.
LEMMA NextIInv == IInv /\ [Next]_vars => IInv'
  <1> SUFFICES ASSUME IInv, [Next]_vars PROVE IInv'
    OBVIOUS
  <1>1. CASE SoExecute
    BY <1>1, ExecuteIInv
  <1>2. ASSUME NEW a \in Cells, NEW k \in {"r", "w", "x"}, ProgramAccesses(a, k)
        PROVE  IInv'
    BY <1>2, ProgramIInv
  <1>3. CASE AccessDone
    BY <1>3, DoneIInv
  <1>4. CASE Fault
    BY <1>4, FaultIInv
  <1>5. CASE HandlerDies
    <2>1. PagesAreImages'
      BY <1>5, MemoryUnchanged DEF IInv, HandlerDies
    <2> QED BY <1>5, <2>1 DEF IInv, HandlerDies, TypeOK, SegsAreLoads, Loads
  <1>6. CASE UNCHANGED vars
    <2>1. PagesAreImages'
      BY <1>6, MemoryUnchanged DEF IInv, vars
    <2> QED BY <1>6, <2>1 DEF IInv, vars, TypeOK, SegsAreLoads, Loads
  <1> QED BY <1>1, <1>2, <1>3, <1>4, <1>5, <1>6 DEF Next

\* The inductive invariant holds in every state.
LEMMA Invariance == Spec => []IInv
  BY InitIInv, NextIInv, PTL DEF Spec

-----------------------------------------------------------------------------
\* An access outside the pages of the PT_LOAD headers never gets memory.
THEOREM OnlyLoaded == Spec => []OnlyLoadedPages
  <1>1. IInv => OnlyLoadedPages
    <2> SUFFICES ASSUME IInv, NEW a \in Cells, mem[a] # Unmapped
                 PROVE  \E ph \in Loads :
                          PageOf(a) \in PageOf(ph.vaddr)..PageOf(ph.vaddr + ph.memsz - 1)
      BY DEF OnlyLoadedPages
    <2>1. PageOf(a) \in 0..(Pages - 1) /\ ~NotMapped(PageOf(a))
      BY CellsOfPage DEF NotMapped
    <2> QED BY <2>1 DEF IInv, PagesAreImages, HoldsImage, PagesOf
  <1> QED BY <1>1, Invariance, PTL

\* For every page size, layout and file, pages shared by two segments
\* included: the program changes a page only if the header it was mapped for
\* is writable, or executable.
THEOREM OnlyAllowedWrites == Spec => []WritesAreAllowed
  <1>1. IInv => WritesAreAllowed
    <2> SUFFICES ASSUME IInv, NEW a \in Cells, mem[a] = Dirty
                 PROVE  \E ph \in Loads :
                          /\ PageOf(a) \in PageOf(ph.vaddr)..PageOf(ph.vaddr + ph.memsz - 1)
                          /\ ph.flags \cap {"w", "x"} # {}
      BY DEF WritesAreAllowed
    <2>1. PageOf(a) \in 0..(Pages - 1) /\ ~NotMapped(PageOf(a))
      BY CellsOfPage DEF NotMapped, Dirty, Unmapped
    <2> QED BY <2>1 DEF IInv, PagesAreImages, HoldsImage, PagesOf
  <1> QED BY <1>1, Invariance, PTL

-----------------------------------------------------------------------------
\* No page holds cells of two PT_LOAD headers.  Without this the handler maps
\* a page that two segments share for one of them only: mappingPage knows
\* nothing of the other.
SeparatePages ==
  \A h \in Headers : \A i, j \in DOMAIN h.phdrs :
    h.phdrs[i].load /\ h.phdrs[j].load /\ h.phdrs[i] # h.phdrs[j] =>
      PagesOf(h.phdrs[i]) \cap PagesOf(h.phdrs[j]) = {}

\* A page belongs to one PT_LOAD header.
LEMMA OnePageOneLoad ==
  ASSUME SeparatePages, elf \in Headers, NEW ph \in Loads, NEW h \in Loads,
         NEW p \in PagesOf(ph), p \in PagesOf(h)
  PROVE  ph = h
  BY DEF SeparatePages, Loads

\* The cells of a header are in its pages.
LEMMA CellInPages ==
  ASSUME elf \in Headers, NEW ph \in Loads, NEW a \in Int,
         a \in ph.vaddr..(ph.vaddr + ph.memsz - 1)
  PROVE  a \in Cells /\ PageOf(a) \in PagesOf(ph)
  <1>1. PageSize \in Nat \ {0} /\ Pages \in Nat \ {0} /\ Pages * PageSize \in Nat
    BY LoaderAssumption
  <1>2. /\ ph.vaddr \in Nat /\ ph.memsz \in Nat
        /\ ph.vaddr + ph.memsz <= Pages * PageSize
    BY LoadIsPhdr
  <1>3. a \in Nat /\ ph.vaddr <= a /\ a <= ph.vaddr + ph.memsz - 1
        /\ ph.vaddr + ph.memsz - 1 \in Nat
    BY <1>2
  <1>4. PageOf(ph.vaddr) <= PageOf(a) /\ PageOf(a) <= PageOf(ph.vaddr + ph.memsz - 1)
    BY <1>2, <1>3, PageMonotone
  <1>5. /\ PageOf(a) \in Nat /\ PageOf(ph.vaddr) \in Nat
        /\ PageOf(ph.vaddr + ph.memsz - 1) \in Nat
    BY <1>2, <1>3, PageOfCell
  <1> QED BY <1>1, <1>2, <1>3, <1>4, <1>5 DEF Cells, PagesOf

\* For every page size, layout and file: what is mapped is the image the
\* program headers prescribe, cell by cell, until the program writes it.
THEOREM MappedIsImage == ASSUME SeparatePages PROVE Spec => []ImageIsFile
  <1>1. IInv => ImageIsFile
    <2> SUFFICES ASSUME IInv, NEW ph \in Loads,
                        NEW a \in ph.vaddr..(ph.vaddr + ph.memsz - 1)
                 PROVE  mem[a] \in {Unmapped, Dirty, Prescribed(ph, a)}
      BY DEF ImageIsFile
    <2>1. elf \in Headers
      BY DEF IInv
    <2>2. a \in Int
      BY <2>1, LoadIsPhdr
    <2>3. a \in Cells /\ PageOf(a) \in PagesOf(ph)
      BY <2>1, <2>2, CellInPages
    <2>4. PageOf(a) \in 0..(Pages - 1)
      BY <2>3, CellsOfPage
    <2>5. CASE NotMapped(PageOf(a))
      BY <2>3, <2>5 DEF NotMapped
    <2>6. ASSUME NEW h \in Loads, HoldsImage(PageOf(a), h)
          PROVE  mem[a] \in {Dirty, Prescribed(ph, a)}
      <3>1. h = ph
        BY <2>1, <2>3, <2>6, OnePageOneLoad DEF HoldsImage
      <3> QED BY <2>3, <2>6, <3>1 DEF HoldsImage
    <2> QED BY <2>4, <2>5, <2>6 DEF IInv, PagesAreImages
  <1> QED BY <1>1, Invariance, PTL

\* What the program wrote stays written: no fault of an access that the
\* program headers permit maps over a page in use.
THEOREM WritesKept == ASSUME SeparatePages PROVE Spec => WritesSurvive
  <1> DEFINE Kept == \A a \in Cells :
               mem[a] = Dirty /\ mem'[a] # Dirty => ~PermittedAt(acc.addr, acc.kind)
  <1>1. IInv /\ [Next]_vars => [Kept]_vars
    <2> SUFFICES ASSUME IInv, Next, NEW a \in Cells, mem[a] = Dirty, mem'[a] # Dirty,
                        PermittedAt(acc.addr, acc.kind)
                 PROVE  FALSE
      OBVIOUS
    <2>1. elf \in Headers /\ TypeOK /\ acc.addr \in Cells
      BY DEF IInv, TypeOK
    <2>2. PICK i \in DOMAIN segs : /\ Faults
                                   /\ Covers(segs[i], acc.addr)
                                   /\ MappingPage(segs[i], acc.addr)
      BY DEF Next, SoExecute, ProgramAccesses, AccessDone, Fault, SegvHandler, HandlerDies,
             IInv, TypeOK
    <2>3. PICK ph \in Loads : segs[i] = SegmentOf(ph)
      BY DEF IInv, SegsAreLoads
    <2>4. mem' = [c \in Cells |-> IF PageOf(c) = PageOf(acc.addr)
                                  THEN Prescribed(ph, c) ELSE mem[c]]
      BY <2>1, <2>2, <2>3, MappedPage
    <2>5. PageOf(a) = PageOf(acc.addr)
      BY <2>4
    <2>6. PageOf(a) \in 0..(Pages - 1) /\ ~NotMapped(PageOf(a))
      BY CellsOfPage DEF NotMapped, Dirty, Unmapped
    <2>7. PICK h \in Loads : HoldsImage(PageOf(a), h)
      BY <2>6 DEF IInv, PagesAreImages
    <2>8. PICK g \in Loads : /\ acc.kind \in g.flags
                             /\ acc.addr \in g.vaddr..(g.vaddr + g.memsz - 1)
      BY DEF PermittedAt
    <2>9. acc.addr \in Int
      BY <2>1, CellsOfPage
    <2>10. PageOf(acc.addr) \in PagesOf(g)
      BY <2>1, <2>8, <2>9, CellInPages
    <2>11. g = h
      BY <2>1, <2>5, <2>7, <2>10, OnePageOneLoad DEF HoldsImage
    <2>12. g.flags \in SUBSET {"r", "w", "x"}
      BY <2>1, LoadIsPhdr
    <2>13. acc.kind \in Protection(g.flags)
      BY <2>8, <2>12 DEF Protection
    <2>14. acc.kind \in prot[PageOf(acc.addr)]
      BY <2>5, <2>7, <2>11, <2>13 DEF HoldsImage
    <2> QED BY <2>2, <2>14 DEF Faults, Allowed
  <1>2. Spec => [][Kept]_vars
    BY <1>1, Invariance, PTL DEF Spec
  <1> QED BY <1>2 DEF WritesSurvive
=============================================================================
