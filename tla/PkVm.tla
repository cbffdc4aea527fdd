-------------------------------- MODULE PkVm --------------------------------
(***************************************************************************)
(* Virtual memory of the proxy kernel: src/pk/pk/mmap.c with its callers   *)
(* in syscall.c and handlers.c, the file table it holds references in      *)
(* (PkFiles), and the user program, whose accesses go through the TLBs and *)
(* the page table walker of Ariane (mmu.sv, ptw.sv).                       *)
(*                                                                         *)
(* A page table entry is zero, a pointer to the vmr that describes the     *)
(* page (not yet touched), or a valid mapping.  Virtual page p always has  *)
(* the same physical page, so that a new mapping inherits the bytes of an  *)
(* older one until the first fault clears or reads them.                   *)
(*                                                                         *)
(* Addresses are bytes, a page has PGSIZE of them.  A uintptr_t has MPAGES *)
(* pages of addresses and its sums wrap; the page table has VPAGES entries *)
(* and looks an address up modulo them.  Nothing bounds the length of a    *)
(* mapping without MAP_FIXED.  The kernel serves one trap at a time: each  *)
(* trap is one step, its loops over pages in closed form.  Page-table      *)
(* pages are abstracted: a missing table is a zero entry, a new one may be *)
(* one more than the pool has.  So are the bytes of a page, except whose   *)
(* data they are.                                                          *)
(***************************************************************************)
EXTENDS PkFiles, Integers

CONSTANTS
    PGSIZE,        \* bytes in a page
    NPAGE,         \* pages below mmap_max
    STACK,         \* pages of the stack, at the top
    ELF,           \* the page of the program's text
    BRK_MIN,       \* first byte after the program
    MAX_VMR,       \* entries of vmrs[]
    Prots,         \* protections the program asks mmap for, subsets of RWX
    NewProts,      \* protections the program asks mprotect for
    Targets,       \* pages the program's requests start at
    Offsets,       \* pages of a file its mappings start at
    Lengths,       \* bytes of one request
    KERNEL,        \* the page that stands for the kernel's range
    VPAGES,        \* entries of the page table, 2^27 for Sv39
    MPAGES,        \* pages of a uintptr_t, 2^52
    UINT,          \* values of an unsigned, 2^32
    TLB_ENTRIES,   \* entries of each TLB, 16
    LEAKS          \* bound of the model: references to a file that may leak

RWX == {"R", "W", "X"}

ASSUME VmAssumption ==
    /\ PGSIZE \in Nat \ {0} /\ NPAGE \in Nat \ {0}
    /\ STACK \in 1 .. NPAGE - 1
    /\ ELF \in 1 .. NPAGE - STACK - 1
    /\ BRK_MIN \in (ELF * PGSIZE) + 1 .. (NPAGE - STACK) * PGSIZE
    /\ MAX_VMR \in Nat \ {0}
    /\ Prots \cup NewProts \subseteq SUBSET RWX
    /\ VPAGES \in Nat /\ KERNEL \in NPAGE .. VPAGES - 2
    /\ MPAGES \in Nat /\ MPAGES >= VPAGES /\ MPAGES % VPAGES = 0
    /\ UINT \in Nat /\ UINT >= VPAGES
    /\ TLB_ENTRIES \in Nat \ {0} /\ LEAKS \in Nat
    /\ Targets \subseteq 0 .. MPAGES - 1
    /\ Offsets \subseteq Nat
    /\ Lengths \subseteq 1 .. (MPAGES * PGSIZE) - 1

VARIABLES
    pte,           \* [Page -> entry] the page table
    vmr,           \* [Vmr -> region] vmrs[]
    brk, brk_max,  \* current.brk, current.brk_max
    tlb,           \* set of cached translations, both TLBs
    data,          \* [Page -> whose data the physical page holds]
    acc,           \* the access to be repeated, or NoAccess
    mode,          \* user, retry (after a handled fault), halted
    prom,          \* history: what the mapping of a page promised
    leaked         \* history: references to a file taken for no region

vmVars == <<pte, vmr, brk, brk_max, tlb, data, acc, mode, prom, leaked>>
vars == <<fileVars, vmVars>>

Page     == 0 .. VPAGES - 1
UserPage == 0 .. NPAGE - 1
WORD     == MPAGES * PGSIZE       \* addresses of a uintptr_t
Vmr      == 1 .. MAX_VMR
Bits     == RWX \cup {"V", "A", "D", "U"}
mmap_max == NPAGE * PGSIZE
NoAccess == [page |-> 0, kind |-> "none"]
Kind     == {"fetch", "load", "store"}

Roundup(a)  == ((a + PGSIZE - 1) \div PGSIZE) * PGSIZE
Npage_Mutant(len) == len \div PGSIZE
Npage(len)  == (len - 1) \div PGSIZE + 1

\* The pages of the loop for (a = addr; a < addr + length; a += RISCV_PGSIZE),
\* where addr begins a page: none if the sum wraps below addr.
Pages(a, n)  == a \div PGSIZE .. (((a + n) % WORD) - 1) \div PGSIZE

\* __walk: the index bits of an address, and nothing else, choose its entry.
Walk(b)     == b % VPAGES

\* The pages __do_mmap can map and live on: mapping the kernel's own takes its
\* code away, and the tables for all of the address space exceed the pool.
Mappable    == (0 .. VPAGES - 2) \ {KERNEL}

\* The mutants of this module (names ending in _Mutant) are the mistakes that the
\* checks are known to find; no specification uses them.
TypeOf_Mutant(prot, user) ==
    (prot \cup (IF "W" \in prot THEN {"D"} ELSE {})) \cup (IF user THEN {"U"} ELSE {}) \cup {"V"}

\* prot_to_type and pte_create: no rights at all become a readable page whose
\* accessed bit is clear.
TypeOf(prot, user) ==
    LET t == (IF "R" \in prot THEN {"R", "A"} ELSE {})
                \cup (IF "W" \in prot THEN {"W", "D"} ELSE {})
                \cup (IF "X" \in prot THEN {"X", "A"} ELSE {})
    IN  (IF t = {} THEN {"R"} ELSE t) \cup (IF user THEN {"U"} ELSE {}) \cup {"V"}

Zero        == [v |-> 0, type |-> {}]
Pending(v)  == [v |-> v, type |-> {}]
Mapped(t)   == [v |-> 0, type |-> t]
Valid(p)    == "V" \in pte[p].type
Avail(p)    == pte[p] = Zero

\* Whose data a page holds: zeroes, a block <<file, page of it>>, what the
\* program wrote under the present mapping, what an earlier mapping left, the
\* program's text.
Clean   == <<0, 0>>
User    == <<-1, 0>>
Old     == <<-2, 0>>
Text    == <<-3, 0>>
Nothing == [src |-> Old, prot |-> {}]

NoRegion == [addr |-> 0, length |-> 0, file |-> 0, offset |-> 0, refcnt |-> 0, prot |-> {}]

-----------------------------------------------------------------------------
(* vmrs[] and the references it holds.                                      *)

FreeVmr == {v \in Vmr : vmr[v].refcnt = 0}

\* Entries of S that point to v, dropped by __do_munmap.
Dropped(S, v) == Cardinality({p \in S : pte[p].v = v})

\* __vmr_decref for every dropped entry of S.  The fields of a region nobody
\* refers to are never read again: they are cleared here.
DecrefVmrs(S) ==
    [v \in Vmr |-> IF vmr[v].refcnt = Dropped(S, v) THEN NoRegion
                   ELSE [vmr[v] EXCEPT !.refcnt = @ - Dropped(S, v)]]

\* Regions of f that lose their last page when S is unmapped.
Released(S, f) ==
    {v \in Vmr : vmr[v].file = f /\ Dropped(S, v) > 0 /\ vmr[v].refcnt = Dropped(S, v)}

\* The file references after S is unmapped and one for g (0: none) is taken.
FileRefs_Mutant(S, g) ==
    [f \in File |-> DecrefTo(refcnt[f], Cardinality(Released(S, f)))]

FileRefs(S, g) ==
    [f \in File |-> DecrefTo(refcnt[f] + (IF f = g THEN 1 ELSE 0),
                             Cardinality(Released(S, f)))]

\* Files whose last reference goes with S are closed on the host.
Closed(S, g) == {kfd[f] : f \in {h \in File : refcnt[h] # 0 /\ FileRefs(S, g)[h] = 0}}

-----------------------------------------------------------------------------
(* __vm_alloc: the search for npage free pages from the break upwards, as   *)
(* the two nested loops run it: the inner one looks from the last page      *)
(* down, and the outer one goes on behind the page that was taken.  Both    *)
(* the end of the search and the last page are unsigned: for more pages     *)
(* than the program has the end wraps, and the search runs past mmap_max;   *)
(* a last page that wraps ends the inner loop at once and is returned.      *)

VmAlloc_Mutant(n) ==
    LET end == (NPAGE - n) % MPAGES
        scan[a \in 0 .. MPAGES] ==
            LET last == (a + n - 1) % MPAGES
            IN  IF a >= end THEN 0
                ELSE IF last < a THEN last
                ELSE IF \E b \in a .. last : ~Avail(Walk(b)) THEN scan[a + 1] ELSE a
    IN  scan[brk \div PGSIZE]

VmAlloc(n) ==
    LET end == (NPAGE - n) % MPAGES
        scan[a \in 0 .. MPAGES] ==
            LET last  == (a + n - 1) % MPAGES
                taken == {b \in a + 1 .. last : ~Avail(Walk(b))}
            IN  IF a > end THEN 0
                ELSE IF ~Avail(Walk(a)) THEN scan[a + 1]
                ELSE IF last < a THEN last
                ELSE IF taken = {} THEN a
                ELSE scan[Max(taken) + 1]
    IN  scan[brk \div PGSIZE]

-----------------------------------------------------------------------------
(* __do_mmap with a region to give: addr is a page, S its pages.            *)

Region_Mutant(p, len, f, off, prot) ==
    IF Npage(len) % UINT = 0 THEN NoRegion
    ELSE [addr |-> p, length |-> len, file |-> f, offset |-> 0,
          refcnt |-> Npage(len) % UINT, prot |-> prot]

RegionUncut_Mutant(p, len, f, off, prot) ==
    [addr |-> p, length |-> len, file |-> f, offset |-> IF f = 0 THEN 0 ELSE off,
     refcnt |-> Npage(len), prot |-> prot]

\* The count is an unsigned: the number of pages cut to its width.  If that
\* leaves zero the slot stays free, whatever is written there.
Region(p, len, f, off, prot) ==
    IF Npage(len) % UINT = 0 THEN NoRegion
    ELSE [addr |-> p, length |-> len, file |-> f, offset |-> IF f = 0 THEN 0 ELSE off,
          refcnt |-> Npage(len) % UINT, prot |-> prot]

\* __vmr_alloc has taken a reference to the file for a slot that stays free.
Leaks(len, f) == f # 0 /\ Npage(len) % UINT = 0

\* What the pages of a mapping hold when they are first read.
Source(p, first, f, off) == IF f = 0 THEN Clean ELSE <<f, off + (p - first)>>

Promise(S, first, f, off, prot) ==
    prom' = [p \in Page |-> IF p \in S
                            THEN [src |-> Source(p, first, f, off), prot |-> prot]
                            ELSE prom[p]]

\* The regions after the mapping; old entries of S are dropped after the new
\* region has its slot.
MapRegion(S, first, len, f, off, prot) ==
    LET v == Min(FreeVmr) IN
    /\ pte' = [p \in Page |-> IF p \in S THEN Pending(v) ELSE pte[p]]
    /\ vmr' = [DecrefVmrs(S) EXCEPT ![v] = Region(first, len, f, off, prot)]
    /\ refcnt' = FileRefs(S, f)
    /\ host' = host \ Closed(S, f)
    /\ tlb' = IF \E p \in S : ~Avail(p) THEN {} ELSE tlb
    /\ data' = [p \in Page |-> IF p \in S THEN Old ELSE data[p]]
    /\ Promise(S, first, f, off, prot)
    /\ leaked' = [g \in File |-> IF g = f /\ Leaks(len, f) THEN leaked[g] + 1 ELSE leaked[g]]

\* With MAP_POPULATE every page is faulted in at once, which uses the region
\* up: its slot is free again and its reference to the file given back.
PopulateRegion(S, first, f, off, prot) ==
    /\ pte' = [p \in Page |-> IF p \in S THEN Mapped(TypeOf(prot, TRUE)) ELSE pte[p]]
    /\ vmr' = DecrefVmrs(S)
    /\ refcnt' = FileRefs(S, 0)
    /\ host' = host \ Closed(S, 0)
    /\ tlb' = {}
    /\ data' = [p \in Page |-> IF p \in S THEN Source(p, first, f, off) ELSE data[p]]
    /\ Promise(S, first, f, off, prot)
    /\ leaked' = leaked

\* __do_munmap
UnmapPages_Mutant(S) ==
    /\ pte' = [p \in Page |-> IF p \in S THEN Zero ELSE pte[p]]
    /\ vmr' = DecrefVmrs(S)
    /\ refcnt' = FileRefs(S, 0)
    /\ host' = host \ Closed(S, 0)
    /\ tlb' = tlb
    /\ prom' = [p \in Page |-> IF p \in S THEN Nothing ELSE prom[p]]
    /\ data' = [p \in Page |-> IF p \in S THEN Old ELSE data[p]]
    /\ leaked' = leaked

UnmapPages(S) ==
    /\ pte' = [p \in Page |-> IF p \in S THEN Zero ELSE pte[p]]
    /\ vmr' = DecrefVmrs(S)
    /\ refcnt' = FileRefs(S, 0)
    /\ host' = host \ Closed(S, 0)
    /\ tlb' = {}
    /\ prom' = [p \in Page |-> IF p \in S THEN Nothing ELSE prom[p]]
    /\ data' = [p \in Page |-> IF p \in S THEN Old ELSE data[p]]
    /\ leaked' = leaked

\* A failed kassert or a segfault: panic, the machine is shut down.
Panic ==
    /\ mode' = "halted" /\ acc' = NoAccess
    /\ UNCHANGED <<fileVars, pte, vmr, brk, brk_max, tlb, data, prom, leaked>>

-----------------------------------------------------------------------------
(* The system calls of the program.                                         *)

\* pk_vm_init maps the stack, load_elf the program's text (populated and then
\* made read-only); nothing is in the TLBs.
Init ==
    LET stack == NPAGE - STACK .. NPAGE - 1 IN
    /\ FilesInit
    /\ pte = [p \in Page |-> CASE p = KERNEL -> Mapped(TypeOf(RWX, FALSE))
                              [] p \in stack -> Pending(1)
                              [] p = ELF -> Mapped(TypeOf({"R", "X"}, TRUE))
                              [] OTHER -> Zero]
    /\ vmr = [v \in Vmr |-> IF v = 1
                            THEN Region(NPAGE - STACK, STACK * PGSIZE, 0, 0, RWX)
                            ELSE NoRegion]
    /\ brk = 0
    /\ brk_max = mmap_max
    /\ tlb = {}
    /\ data = [p \in Page |-> IF p = ELF THEN Text ELSE Old]
    /\ acc = NoAccess
    /\ mode = "user"
    /\ prom = [p \in Page |-> CASE p \in stack -> [src |-> Clean, prot |-> RWX]
                               [] p = ELF -> [src |-> Text, prot |-> {"R", "X"}]
                               [] OTHER -> Nothing]
    /\ leaked = [f \in File |-> 0]

Open ==
    /\ mode = "user"
    /\ SysOpen
    /\ UNCHANGED vmVars

\* brk_max after do_mmap: the lowest address it has handed out.
NewBrkMax_Mutant(first) == brk_max
NewBrkMax(first) == Min({brk_max, first * PGSIZE})

\* do_mmap of len bytes from page first, with a region to give; d is -1 for
\* MAP_ANONYMOUS.  A request that is refused changes nothing.  The machine stops
\* if a table is missing for one of the pages, if the kernel is among them, and
\* on a kassert of MAP_POPULATE: file_pread read nothing, or __handle_page_fault
\* refused a page that is not the program's.
Mmap(first, len, prot, d, off, populate) ==
    LET f == IF d = -1 THEN 0 ELSE FileGet(d)
        S == Pages(first * PGSIZE, len)
    IN
    /\ d # -1 => f # 0
    /\ FreeVmr # {}
    /\ Leaks(len, f) => leaked[f] < LEAKS
    /\ \/ /\ S \subseteq Mappable
          /\ \/ /\ populate /\ S # {} /\ S \subseteq UserPage
                /\ PopulateRegion(S, first, f, off, prot)
             \/ /\ ~populate \/ S = {}
                /\ MapRegion(S, first, len, f, off, prot)
          /\ brk_max' = NewBrkMax(first)
          /\ UNCHANGED <<kfd, fds, brk, acc, mode>>
       \/ S # {} /\ Panic

MmapFixed ==
    /\ mode = "user"
    /\ \E first \in Targets, len \in Lengths :
         /\ first * PGSIZE + len <= mmap_max
         /\ \E prot \in Prots, d \in (STD .. MAX_FDS - 1) \cup {-1}, off \in Offsets,
               populate \in BOOLEAN : Mmap(first, len, prot, d, off, populate)

MmapAnywhere ==
    /\ mode = "user"
    /\ \E len \in Lengths :
         LET first == VmAlloc(Npage(len)) IN
         /\ first # 0
         /\ \E prot \in Prots, d \in (STD .. MAX_FDS - 1) \cup {-1}, off \in Offsets,
               populate \in BOOLEAN : Mmap(first, len, prot, d, off, populate)

Munmap ==
    /\ mode = "user"
    /\ \E first \in Targets, len \in Lengths :
         /\ first * PGSIZE + len <= mmap_max
         /\ UnmapPages(Pages(first * PGSIZE, len))
    /\ UNCHANGED <<kfd, fds, brk, brk_max, acc, mode>>

\* A page that stops do_mprotect: nothing there, or rights it does not have.
Refuses_Mutant(p, prot) ==
    Avail(p) \/ (Valid(p) /\ ~("U" \in pte[p].type /\ prot \subseteq pte[p].type))

Refuses(p, prot) ==
    \/ Avail(p)
    \/ ~Valid(p) /\ ~(prot \subseteq vmr[pte[p].v].prot)
    \/ Valid(p) /\ ~("U" \in pte[p].type /\ prot \subseteq pte[p].type)

\* do_mprotect works page by page up to the first that refuses, on whatever entry
\* the address leads to.  A page that is not yet touched changes its region, and
\* with it all pages of the region.
Mprotect ==
    /\ mode = "user"
    /\ \E first \in Targets, len \in Lengths, prot \in NewProts :
         LET S == Pages(first * PGSIZE, len)
             T == {Walk(p) : p \in {q \in S : \A r \in S : r <= q => ~Refuses(Walk(r), prot)}}
         IN
         /\ pte' = [p \in Page |-> IF p \in T /\ Valid(p)
                                   THEN Mapped(TypeOf(prot, TRUE)) ELSE pte[p]]
         /\ vmr' = [v \in Vmr |-> IF \E p \in T : pte[p].v = v
                                  THEN [vmr[v] EXCEPT !.prot = prot] ELSE vmr[v]]
    /\ tlb' = {}
    /\ UNCHANGED <<fileVars, brk, brk_max, data, acc, mode, prom, leaked>>

\* do_brk: the break is kept between brk_min and brk_max, which is the lowest
\* address mmap has handed out.  No region or no table left for the new pages is
\* a failed kassert.
Brk ==
    /\ mode = "user"
    /\ \E addr \in 0 .. mmap_max :
         LET newbrk == CASE addr < BRK_MIN -> BRK_MIN
                         [] addr >= BRK_MIN /\ addr > brk_max -> brk_max
                         [] OTHER -> addr
             old  == IF brk = 0 THEN Roundup(BRK_MIN) ELSE brk
             new  == Roundup(newbrk)
             S    == Pages(old, new - old)
         IN
         \/ /\ new > old /\ FreeVmr # {}
            /\ MapRegion(S, old \div PGSIZE, new - old, 0, 0, RWX)
            /\ brk' = new
            /\ UNCHANGED <<kfd, fds, brk_max, acc, mode>>
         \/ new > old /\ Panic
         \/ /\ new < old
            /\ UnmapPages(Pages(new, old - new))
            /\ brk' = new
            /\ UNCHANGED <<kfd, fds, brk_max, acc, mode>>
         \/ /\ new = old
            /\ brk' = new
            /\ UNCHANGED <<fileVars, pte, vmr, brk_max, tlb, data, acc, mode, prom, leaked>>

SysExit == mode = "user" /\ Panic

-----------------------------------------------------------------------------
(* The program's accesses and the page faults they take.                    *)

Need(k) == CASE k = "fetch" -> {"X"} [] k = "load" -> {"R"} [] k = "store" -> {"W"}
Side(k) == IF k = "fetch" THEN "i" ELSE "d"

\* The walker: what it takes for a translation it may put into the TLB.
WalkFinds(t, k) ==
    /\ "V" \in t /\ "A" \in t
    /\ "W" \in t => "R" \in t
    /\ k = "fetch" => "X" \in t
    /\ k \in {"load", "store"} => "R" \in t
    /\ k = "store" => {"W", "D"} \subseteq t

\* The check of a translation that hits, for a program in user mode.
HitAllows(t, k) == "U" \in t /\ (k = "store" => {"W", "D"} \subseteq t)

Hits(p, k) == {e \in tlb : e.page = p /\ e.side = Side(k)}

Allowed(p, k) ==
    \/ \E e \in Hits(p, k) : HitAllows(e.type, k)
    \/ Hits(p, k) = {} /\ WalkFinds(pte[p].type, k) /\ HitAllows(pte[p].type, k)

\* A new translation takes a free entry of its TLB or that of another one.
Update(p, k) ==
    LET old == {e \in tlb : e.side = Side(k)} IN
    \E out \in SUBSET old :
        /\ Cardinality(out) <= 1 /\ Cardinality(old \ out) < TLB_ENTRIES
        /\ tlb' = (tlb \ out) \cup {[page |-> p, side |-> Side(k), type |-> pte[p].type]}

\* An access that succeeds, with the translation it leaves in the TLB.
Access(p, k) ==
    /\ Allowed(p, k)
    /\ IF Hits(p, k) # {} THEN tlb' = tlb ELSE Update(p, k)
    /\ mode' = "user"
    /\ acc' = NoAccess
    /\ data' = IF k = "store" THEN [data EXCEPT ![p] = User] ELSE data
    /\ UNCHANGED <<fileVars, pte, vmr, brk, brk_max, prom, leaked>>

\* The handler lets the access be repeated if the entry has the rights it
\* stands for, and ends the program otherwise.
Grants(t, k) == TypeOf(Need(k), TRUE) \subseteq t

\* A fault on a page that was never touched: it is cleared or read from the
\* file, its region loses it, and the entry gets the region's rights.
FaultIn(p, k) ==
    LET v == pte[p].v
        t == TypeOf(vmr[v].prot, TRUE)
    IN
    /\ ~Allowed(p, k) /\ p \in UserPage /\ v # 0
    /\ \/ /\ pte' = [pte EXCEPT ![p] = Mapped(t)]
          /\ vmr' = DecrefVmrs({p})
          /\ refcnt' = FileRefs({p}, 0)
          /\ host' = host \ Closed({p}, 0)
          /\ data' = [data EXCEPT ![p] = Source(p, vmr[v].addr, vmr[v].file, vmr[v].offset)]
          /\ tlb' = {}
          /\ \/ Grants(t, k) /\ mode' = "retry" /\ acc' = [page |-> p, kind |-> k]
             \/ ~Grants(t, k) /\ mode' = "halted" /\ acc' = NoAccess
          /\ UNCHANGED <<kfd, fds, brk, brk_max, prom, leaked>>
       \/ vmr[v].file # 0 /\ Panic     \* kassert(ret > 0) on file_pread

\* A fault on a page that is there: the rights are checked, the TLB flushed.
FaultAgain(p, k) ==
    /\ ~Allowed(p, k) /\ p \in UserPage /\ Valid(p)
    /\ Grants(pte[p].type, k)
    /\ tlb' = {}
    /\ mode' = "retry"
    /\ acc' = [page |-> p, kind |-> k]
    /\ UNCHANGED <<fileVars, pte, vmr, brk, brk_max, data, prom, leaked>>

Segfault(p, k) ==
    /\ ~Allowed(p, k)
    /\ \/ p \notin UserPage
       \/ Avail(p)
       \/ Valid(p) /\ ~Grants(pte[p].type, k)
    /\ Panic

\* One instruction of the program; after a handled fault it is the same again.
Instruction ==
    \E p \in Page, k \in Kind :
        /\ \/ mode = "user"
           \/ mode = "retry" /\ acc = [page |-> p, kind |-> k]
        /\ Access(p, k) \/ FaultIn(p, k) \/ FaultAgain(p, k) \/ Segfault(p, k)

Next ==
    \/ Open \/ MmapFixed \/ MmapAnywhere \/ Munmap \/ Mprotect \/ Brk \/ SysExit
    \/ Instruction

Spec == Init /\ [][Next]_vars

-----------------------------------------------------------------------------
(* Properties.                                                              *)

\* The type invariant: no count leaves the width of an unsigned, and the page
\* table always has an entry left, so that the search of mmap comes to an end.
VmTypeOK ==
    /\ FilesTypeOK
    /\ pte \in [Page -> [v : Vmr \cup {0}, type : SUBSET Bits]]
    /\ vmr \in [Vmr -> [addr : 0 .. MPAGES - 1, length : 0 .. WORD - 1,
                        file : File \cup {0}, offset : Offsets \cup {0},
                        refcnt : 0 .. UINT - 1, prot : SUBSET RWX]]
    /\ Avail(VPAGES - 1)
    /\ brk \in 0 .. mmap_max /\ brk_max \in 0 .. mmap_max
    /\ \A e \in tlb : e.page \in Page /\ e.side \in {"i", "d"} /\ e.type \subseteq Bits
    /\ mode \in {"user", "retry", "halted"}
    /\ acc = NoAccess \/ (acc.page \in Page /\ acc.kind \in Kind)
    /\ leaked \in [File -> 0 .. LEAKS]

\* A region whose end wraps: __do_mmap took a slot for it and mapped no page.
Lost(v) == vmr[v].addr * PGSIZE + vmr[v].length >= WORD

\* The count of a region is the number of page table entries that point to it,
\* whatever mmap, munmap, brk and the faults did to its pages: a slot of vmrs[]
\* is not given away while a fault can still read it.  It is lost for good only
\* if its mapping was so long that its end wrapped, and then no entry is left
\* pointing to it.
VmrCountsPages ==
    \A v \in Vmr :
        LET pages == Cardinality({p \in Page : pte[p].v = v})
        IN  IF Lost(v) THEN pages = 0 ELSE vmr[v].refcnt = pages

\* Between two system calls a file in use is held once for existing, once for
\* being opened, once by each descriptor and each region that refers to it, and
\* once for each mapping so long that the count of its region was cut to zero;
\* its host descriptor is open and its own.  Nothing refers to a free entry.
FilesHeldByReferences ==
    \A f \in File :
        LET held == Cardinality({d \in Fd : fds[d] = f})
                        + Cardinality({v \in Vmr : vmr[v].refcnt # 0 /\ vmr[v].file = f})
                        + leaked[f]
        IN  /\ refcnt[f] = 0 => held = 0
            /\ refcnt[f] # 0 => /\ refcnt[f] = 2 + held
                                /\ kfd[f] \in host
                                /\ \A g \in File \ {f} : refcnt[g] # 0 => kfd[g] # kfd[f]

\* The program never reads what an earlier mapping of the same page left there,
\* nor another block of the file than the one its mmap asked for.
FreshData ==
    \A p \in UserPage : Valid(p) => data[p] \in {prom[p].src, User}

\* When the program runs, every cached translation is the one in the table.
NoStaleTranslation ==
    mode \in {"user", "retry"} => \A e \in tlb : pte[e.page].type = e.type

\* An access whose page fault was handled does not fault again, for every page
\* but one with W and without R: the bits the kernel sets are those the walker
\* wants.
HandledFaultIsOver ==
    mode = "retry" => \/ Allowed(acc.page, acc.kind)
                      \/ "W" \in pte[acc.page].type /\ "R" \notin pte[acc.page].type

\* The program never gets the right to write or to execute a page beyond what
\* its mapping was made with, by whatever sequence of mprotect and faults.
RightsNeverGrow ==
    \A p \in Page : "U" \in pte[p].type =>
        pte[p].type \cap {"W", "X"} \subseteq prom[p].prot

\* Once the break is set, the search of mmap finds the lowest room between the
\* break and its end, which for more pages than the program has lies behind
\* mmap_max.  Without such room it fails, unless a free page was so high that
\* the last page of the mapping wrapped: then it is that last page.
AllocFindsRoom ==
    brk # 0 => \A n \in 1 .. MPAGES :
        LET search == brk \div PGSIZE .. (NPAGE - n) % MPAGES
            fits(a) == a + n <= MPAGES
            room == {a \in search : fits(a) /\ \A b \in a .. a + n - 1 : Avail(Walk(b))}
            wraps == {a + n - 1 - MPAGES : a \in {b \in search : ~fits(b) /\ Avail(Walk(b))}}
        IN  IF room # {} THEN VmAlloc(n) = Min(room) ELSE VmAlloc(n) \in wraps \cup {0}

\* As long as every mmap lay above the program, raising the break never replaces
\* a page the program mapped with mmap.
BrkSparesMappings ==
    [][\A p \in UserPage :
          /\ brk_max > BRK_MIN
          /\ brk # 0 /\ brk <= p * PGSIZE /\ p * PGSIZE < brk'
          => Avail(p) \/ p >= NPAGE - STACK]_vars
=============================================================================
