----------------------------- MODULE PkVmProofs -----------------------------
(***************************************************************************)
(* Proofs about the virtual memory of the proxy kernel, for every size of  *)
(* memory, page, page table, word, region table and file table, and every  *)
(* program.                                                                *)
(***************************************************************************)
EXTENDS PkVm, TLAPS, FiniteSetTheorems, WellFoundedInduction

\* Every page but the kernel's: the program's, and those beyond mmap_max that an
\* overlong mapping may take.
OtherPage == Page \ {KERNEL}

\* The kernel's range keeps its entry and the last page has none; the entry of any
\* other page is pending (or zero), or has the bits of some protection.
EntriesWellFormed ==
    /\ pte[KERNEL] = Mapped(TypeOf(RWX, FALSE))
    /\ pte[VPAGES - 1] = Zero
    /\ \A p \in OtherPage :
         \/ pte[p].type = {}
         \/ pte[p].v = 0 /\ \E prot \in SUBSET RWX : pte[p].type = TypeOf(prot, TRUE)

\* The region a pending page points to still says what its mapping promised.
RegionKeepsPromise ==
    \A p \in OtherPage : pte[p].v # 0 =>
        /\ Source(p, vmr[pte[p].v].addr, vmr[pte[p].v].file, vmr[pte[p].v].offset)
              = prom[p].src
        /\ vmr[pte[p].v].prot \subseteq prom[p].prot

PageKeepsPromise ==
    \A p \in OtherPage : pte[p].type # {} =>
        /\ data[p] \in {prom[p].src, User}
        /\ pte[p].type \cap {"W", "X"} \subseteq prom[p].prot

Entry    == [v : Vmr \cup {0}, type : SUBSET Bits]
VmRegion == [addr : 0 .. MPAGES - 1, length : 0 .. WORD - 1,
             file : File \cup {0}, offset : Offsets \cup {0},
             refcnt : 0 .. UINT - 1, prot : SUBSET RWX]
Block    == Int \X Int
TableTypes ==
    /\ pte \in [Page -> Entry]
    /\ vmr \in [Vmr -> VmRegion]
    /\ data \in [Page -> Block]
    /\ prom \in [Page -> [src : Block, prot : SUBSET RWX]]

\* Region r is the one n entries point to, or its end wraps and none does.
Counted(r, n) == IF r.addr * PGSIZE + r.length >= WORD THEN n = 0 ELSE r.refcnt = n

\* What the page table, the regions and the pages owe each other.
MemInv ==
    /\ TableTypes /\ EntriesWellFormed /\ VmrCountsPages
    /\ RegionKeepsPromise /\ PageKeepsPromise

-----------------------------------------------------------------------------
(* Addresses and pages.                                                     *)

LEMMA Constants ==
    /\ PGSIZE \in Nat \ {0} /\ NPAGE \in Nat \ {0} /\ VPAGES \in Nat \ {0}
    /\ MPAGES \in Nat \ {0} /\ UINT \in Nat \ {0} /\ VPAGES <= UINT
    /\ NPAGE <= KERNEL /\ KERNEL <= VPAGES - 2 /\ VPAGES <= MPAGES /\ KERNEL \in Nat
    /\ Page \subseteq Nat /\ UserPage \subseteq OtherPage /\ OtherPage \subseteq Page
    /\ UserPage \subseteq Mappable /\ Mappable \subseteq OtherPage
    /\ Page = OtherPage \cup {KERNEL} /\ KERNEL \notin OtherPage
    /\ VPAGES - 1 \in OtherPage /\ VPAGES - 1 \notin Mappable /\ VPAGES - 1 \notin UserPage
  BY VmAssumption DEF Page, UserPage, OtherPage, Mappable

\* The least element of a set of naturals is one of its elements.
LEMMA MinIn ==
    ASSUME NEW S \in SUBSET Nat, S # {}
    PROVE  Min(S) \in S /\ \A y \in S : Min(S) <= y
  <1> DEFINE R == OpToRel(<, Nat)
  <1>1. IsWellFoundedOn(R, Nat)
    BY NatLessThanWellFounded
  <1>2. \A x, y \in Nat : x < y => <<x, y>> \in R
    BY DEF OpToRel
  <1> HIDE DEF R
  <1>3. PICK x \in S : \A y \in S : ~(<<y, x>> \in R)
    BY <1>1, WFMin
  <1>4. ASSUME NEW y \in S PROVE x <= y
    <2>1. ~(y < x)
      BY <1>2, <1>3, Zenon
    <2> QED BY <2>1
  <1> QED BY <1>4 DEF Min

\* Multiples of the page size are ordered as the pages are.
LEMMA PageOrder ==
    \A a, b \in Int : /\ a < b <=> a * PGSIZE < b * PGSIZE
                      /\ a <= b <=> a * PGSIZE <= b * PGSIZE
  <1> PGSIZE \in Nat /\ PGSIZE > 0
    BY VmAssumption
  <1> QED OBVIOUS

\* The page of an address.
LEMMA PageOf ==
    \A a \in Nat : /\ a \div PGSIZE \in Nat
                   /\ (a \div PGSIZE) * PGSIZE <= a
                   /\ a < (a \div PGSIZE + 1) * PGSIZE
  <1> PGSIZE \in Nat /\ PGSIZE > 0
    BY VmAssumption
  <1> QED OBVIOUS

\* ROUNDUP: the next multiple of the page size.
LEMMA RoundupOf ==
    ASSUME NEW a \in Nat
    PROVE  \E q \in Nat : /\ Roundup(a) = q * PGSIZE /\ a <= q * PGSIZE
                          /\ \A r \in Nat : a <= r * PGSIZE => q <= r
  <1> PGSIZE \in Nat /\ PGSIZE > 0
    BY VmAssumption
  <1> DEFINE b == a + PGSIZE - 1
             q == b \div PGSIZE
  <1>1. b \in Nat
    OBVIOUS
  <1>2. q \in Nat /\ q * PGSIZE <= b /\ b < (q + 1) * PGSIZE
    BY <1>1, PageOf
  <1>3. Roundup(a) = q * PGSIZE
    BY DEF Roundup
  <1> HIDE DEF q
  <1>4. (q + 1) * PGSIZE = q * PGSIZE + PGSIZE
    BY <1>2
  <1>5. a <= q * PGSIZE
    BY <1>2, <1>4
  <1>6. ASSUME NEW r \in Nat, a <= r * PGSIZE PROVE q <= r
    <2>1. (r + 1) * PGSIZE = r * PGSIZE + PGSIZE
      OBVIOUS
    <2>2. q * PGSIZE < (r + 1) * PGSIZE
      BY <1>2, <1>6, <2>1
    <2> QED BY <1>2, <2>2, PageOrder
  <1> QED BY <1>2, <1>3, <1>5, <1>6

\* Everything the program has is a small part of a uintptr_t.
LEMMA Word ==
    /\ WORD \in Nat \ {0} /\ WORD = MPAGES * PGSIZE
    /\ mmap_max \in Nat \ {0} /\ mmap_max = NPAGE * PGSIZE /\ mmap_max < WORD
  <1> USE Constants
  <1>1. 0 * PGSIZE < NPAGE * PGSIZE /\ NPAGE * PGSIZE < MPAGES * PGSIZE
    BY PageOrder
  <1>2. NPAGE * PGSIZE \in Nat /\ MPAGES * PGSIZE \in Nat
    OBVIOUS
  <1> QED BY <1>1, <1>2 DEF WORD, mmap_max

\* A sum of two numbers below w, in w.
LEMMA WrapOnce ==
    ASSUME NEW w \in Nat \ {0}, NEW x \in Nat, x < 2 * w
    PROVE  x % w = IF x < w THEN x ELSE x - w
  <1>1. CASE x < w
    BY <1>1
  <1>2. CASE ~(x < w)
    <2>1. x = (x - w) + 1 * w /\ x - w \in 0 .. w - 1
      BY <1>2
    <2> QED BY <1>2, <2>1
  <1> QED BY <1>1, <1>2

\* The last page that begins below an address.
LEMMA LastPage ==
    \A e, p \in Nat : p <= (e - 1) \div PGSIZE <=> p * PGSIZE < e
  <1> SUFFICES ASSUME NEW e \in Nat, NEW p \in Nat
               PROVE  p <= (e - 1) \div PGSIZE <=> p * PGSIZE < e
    OBVIOUS
  <1>1. PGSIZE \in Nat /\ PGSIZE > 0
    BY VmAssumption
  <1>2. CASE e = 0
    <2>1. (e - 1) \div PGSIZE < 0
      BY <1>1, <1>2
    <2>2. p * PGSIZE \in Nat
      BY <1>1
    <2> QED BY <1>1, <1>2, <2>1, <2>2
  <1>3. CASE e # 0
    <2> DEFINE q == (e - 1) \div PGSIZE
    <2>1. q \in Nat /\ q * PGSIZE <= e - 1 /\ e - 1 < (q + 1) * PGSIZE
      BY <1>3, PageOf
    <2> HIDE DEF q
    <2>2. p <= q <=> p * PGSIZE <= q * PGSIZE
      BY <2>1, PageOrder
    <2>3. q + 1 <= p <=> (q + 1) * PGSIZE <= p * PGSIZE
      BY <2>1, PageOrder
    <2>4. p * PGSIZE \in Nat /\ q * PGSIZE \in Nat /\ (q + 1) * PGSIZE \in Nat
      BY <1>1, <2>1
    <2>5. p <= q <=> p * PGSIZE < e
      BY <2>1, <2>2, <2>3, <2>4
    <2> QED BY <2>5 DEF q
  <1> QED BY <1>2, <1>3

\* The pages of a loop from a page on, by the addresses they begin at.
LEMMA PagesAre ==
    ASSUME NEW first \in 0 .. MPAGES - 1, NEW len \in Nat
    PROVE  Pages(first * PGSIZE, len) =
             {p \in 0 .. MPAGES - 1 : /\ first * PGSIZE <= p * PGSIZE
                                      /\ p * PGSIZE < (first * PGSIZE + len) % WORD}
  <1> USE Constants, Word
  <1> DEFINE a == first * PGSIZE
             e == (a + len) % WORD
             d == a \div PGSIZE
             l == (e - 1) \div PGSIZE
  <1>1. PGSIZE \in Nat \ {0} /\ a \in Nat
    BY VmAssumption
  <1>2. e \in Nat /\ e < WORD
    BY <1>1
  <1>3. d = first
    <2>1. d \in Nat /\ d * PGSIZE <= a /\ a < (d + 1) * PGSIZE
      BY <1>1, PageOf
    <2> HIDE DEF d
    <2>2. d <= first /\ first < d + 1
      BY <2>1, PageOrder
    <2> QED BY <2>1, <2>2
  <1>4. l \in Int
    BY <1>1, <1>2
  <1>5. \A p \in Nat : p <= l <=> p * PGSIZE < e
    BY <1>2, LastPage
  <1>6. \A p \in Nat : first <= p <=> a <= p * PGSIZE
    BY PageOrder
  <1>7. \A p \in Nat : p * PGSIZE < e => p <= MPAGES - 1
    <2> SUFFICES ASSUME NEW p \in Nat, p * PGSIZE < e PROVE p < MPAGES
      OBVIOUS
    <2>1. p * PGSIZE \in Nat
      BY <1>1
    <2>2. p * PGSIZE < MPAGES * PGSIZE
      BY <1>2, <2>1 DEF WORD
    <2> QED BY <2>2, PageOrder
  <1>8. Pages(a, len) = d .. l
    BY DEF Pages
  <1> HIDE DEF a, d, l, e
  <1>9. d .. l = {p \in 0 .. MPAGES - 1 : a <= p * PGSIZE /\ p * PGSIZE < e}
    <2> DEFINE S == {p \in 0 .. MPAGES - 1 : a <= p * PGSIZE /\ p * PGSIZE < e}
    <2>1. \A p \in d .. l : p \in Nat /\ d <= p /\ p <= l
      BY <1>3, <1>4
    <2>2. \A p \in Nat : p \in 0 .. MPAGES - 1 <=> p <= MPAGES - 1
      OBVIOUS
    <2>3. \A p \in Nat : d <= p /\ p <= l <=> a <= p * PGSIZE /\ p * PGSIZE < e
      BY <1>3, <1>5, <1>6, Zenon
    <2>4. \A p \in d .. l : p \in S
      BY <1>7, <2>1, <2>2, <2>3, Zenon
    <2>5. \A p \in S : p \in d .. l
      <3>1. \A p \in S : p \in Nat /\ a <= p * PGSIZE /\ p * PGSIZE < e
        OBVIOUS
      <3>2. \A p \in S : p \in Nat /\ d <= p /\ p <= l
        BY <2>3, <3>1, Zenon
      <3> QED BY <1>3, <1>4, <3>2
    <2> QED BY <2>4, <2>5
  <1> QED BY <1>8, <1>9 DEF a, e

\* The pages of a request from a page on: as many as its length has, or none if
\* its end wraps.
LEMMA PagesOfRequest ==
    ASSUME NEW first \in 0 .. MPAGES - 1, NEW len \in 1 .. WORD - 1
    PROVE  /\ Npage(len) \in 1 .. MPAGES
           /\ \A p \in Pages(first * PGSIZE, len) : p \in Nat /\ first <= p
           /\ first * PGSIZE + len >= WORD => Pages(first * PGSIZE, len) = {}
           /\ first * PGSIZE + len < WORD =>
                /\ Pages(first * PGSIZE, len) = first .. first + Npage(len) - 1
                /\ Cardinality(Pages(first * PGSIZE, len)) = Npage(len)
  <1> USE Constants, Word
  <1> DEFINE n == Npage(len)
             q == (len - 1) \div PGSIZE
             S == Pages(first * PGSIZE, len)
  <1>1. q \in Nat /\ q * PGSIZE <= len - 1 /\ len - 1 < (q + 1) * PGSIZE
    BY PageOf
  <1>2. n = q + 1 /\ n \in Nat \ {0}
    BY <1>1 DEF Npage
  <1>3. first * PGSIZE \in Nat /\ first * PGSIZE < MPAGES * PGSIZE
    BY PageOrder
  <1> HIDE DEF n, q
  <1>4. n <= MPAGES
    <2>1. q * PGSIZE < MPAGES * PGSIZE
      BY <1>1
    <2>2. q < MPAGES
      BY <1>1, <2>1, PageOrder
    <2> QED BY <1>1, <1>2, <2>2
  <1>5. (first * PGSIZE + len) % WORD = IF first * PGSIZE + len < WORD
                                        THEN first * PGSIZE + len
                                        ELSE first * PGSIZE + len - WORD
    <2> DEFINE x == first * PGSIZE + len
    <2>1. x \in Nat /\ x < 2 * WORD
      BY <1>3
    <2> HIDE DEF x
    <2>2. x % WORD = IF x < WORD THEN x ELSE x - WORD
      BY <2>1, WrapOnce, Zenon
    <2> QED BY <2>2 DEF x
  <1>0. S = {p \in 0 .. MPAGES - 1 : /\ first * PGSIZE <= p * PGSIZE
                                      /\ p * PGSIZE < (first * PGSIZE + len) % WORD}
    <2>1. len \in Nat
      OBVIOUS
    <2> QED BY <2>1, PagesAre
  <1> HIDE DEF S
  <1>6. \A p \in S : p \in Nat /\ first <= p
    <2> SUFFICES ASSUME NEW p \in 0 .. MPAGES - 1, first * PGSIZE <= p * PGSIZE
                 PROVE  p \in Nat /\ first <= p
      BY <1>0
    <2> QED BY PageOrder
  <1>7. ASSUME first * PGSIZE + len >= WORD PROVE S = {}
    <2> SUFFICES ASSUME NEW p \in 0 .. MPAGES - 1, first * PGSIZE <= p * PGSIZE,
                        p * PGSIZE < (first * PGSIZE + len) % WORD
                 PROVE  FALSE
      BY <1>0
    <2>1. p * PGSIZE \in Nat /\ p * PGSIZE < first * PGSIZE + len - WORD
      BY <1>5, <1>7
    <2> QED BY <1>3, <2>1
  <1>8. ASSUME first * PGSIZE + len < WORD
        PROVE  S = first .. first + n - 1 /\ Cardinality(S) = n
    <2>1. ASSUME NEW p \in Nat
          PROVE  (first * PGSIZE <= p * PGSIZE /\ p * PGSIZE < first * PGSIZE + len)
                    <=> p \in first .. first + n - 1
      <3>1. first * PGSIZE <= p * PGSIZE <=> first <= p
        BY PageOrder
      <3>2. (first + n) * PGSIZE = first * PGSIZE + n * PGSIZE /\ n * PGSIZE \in Nat
              /\ p * PGSIZE \in Nat
        BY <1>2
      <3>3. p * PGSIZE < first * PGSIZE + len => p * PGSIZE < (first + n) * PGSIZE
        BY <1>1, <1>2, <1>3, <3>2
      <3>4. p * PGSIZE < first * PGSIZE + len => p < first + n
        BY <1>2, <3>3, PageOrder
      <3>5. ASSUME p <= first + n - 1 PROVE p * PGSIZE < first * PGSIZE + len
        <4>1. p <= first + q
          BY <1>1, <1>2, <3>5
        <4>2. p * PGSIZE <= (first + q) * PGSIZE
          BY <1>1, <4>1, PageOrder
        <4>3. (first + q) * PGSIZE = first * PGSIZE + q * PGSIZE /\ q * PGSIZE \in Nat
          BY <1>1
        <4> QED BY <1>1, <1>3, <3>2, <4>2, <4>3
      <3> QED BY <1>2, <3>1, <3>4, <3>5
    <2>2. \A p \in Nat : p * PGSIZE < first * PGSIZE + len => p \in 0 .. MPAGES - 1
      <3> SUFFICES ASSUME NEW p \in Nat, p * PGSIZE < first * PGSIZE + len
                   PROVE  p < MPAGES
        OBVIOUS
      <3>1. p * PGSIZE < MPAGES * PGSIZE
        BY <1>3, <1>8
      <3> QED BY <3>1, PageOrder
    <2>3. S = {p \in 0 .. MPAGES - 1 : first * PGSIZE <= p * PGSIZE
                                         /\ p * PGSIZE < first * PGSIZE + len}
      BY <1>0, <1>5, <1>8
    <2>4. S = first .. first + n - 1
      <3>1. \A p \in S : p \in first .. first + n - 1
        BY <2>1, <2>3
      <3>2. \A p \in first .. first + n - 1 : p \in S
        BY <1>2, <2>1, <2>2, <2>3
      <3>3. \A p \in first .. first + n - 1 : p \in Nat
        BY <1>2
      <3> QED BY <3>1, <3>2, <3>3
    <2>5. Cardinality(first .. first + n - 1) = n
      <3>1. first \in Int /\ first + n - 1 \in Int /\ ~(first > first + n - 1)
        BY <1>2
      <3>2. Cardinality(first .. first + n - 1)
              = IF first > first + n - 1 THEN 0 ELSE (first + n - 1) - first + 1
        BY <3>1, FS_Interval, Zenon
      <3> QED BY <1>2, <3>1, <3>2
    <2> QED BY <2>4, <2>5
  <1> QED BY <1>2, <1>4, <1>6, <1>7, <1>8 DEF n, S

\* Pages between two addresses below mmap_max are user pages.
LEMMA PagesBelow ==
    ASSUME NEW a \in Nat, NEW n \in Nat, a + n <= mmap_max
    PROVE  /\ Pages(a, n) \subseteq UserPage
           /\ \A p \in UserPage : a <= p * PGSIZE /\ p * PGSIZE < a + n => p \in Pages(a, n)
           /\ \A p \in Pages(a, n) : p * PGSIZE < a + n
  <1> USE Constants, Word
  <1>1. (a + n) % WORD = a + n
    <2> DEFINE x == a + n
    <2>1. x \in Nat /\ x < WORD /\ x < 2 * WORD
      OBVIOUS
    <2> HIDE DEF x
    <2>2. x % WORD = x
      BY <2>1, WrapOnce, Zenon
    <2> QED BY <2>2 DEF x
  <1> DEFINE d == a \div PGSIZE
             l == (a + n - 1) \div PGSIZE
  <1>2. Pages(a, n) = d .. l
    BY <1>1 DEF Pages
  <1>3. d \in Nat /\ d * PGSIZE <= a
    BY PageOf
  <1>4. l \in Int
    BY VmAssumption
  <1>5. \A p \in Nat : p <= l <=> p * PGSIZE < a + n
    BY LastPage
  <1> HIDE DEF d, l
  <1>6. ASSUME NEW p \in Nat, p * PGSIZE < a + n PROVE p \in UserPage
    <2>1. p * PGSIZE < NPAGE * PGSIZE
      BY <1>6
    <2> QED BY <2>1, PageOrder DEF UserPage
  <1>7. ASSUME NEW p \in Nat, a <= p * PGSIZE PROVE d <= p
    <2>1. d * PGSIZE <= p * PGSIZE
      BY <1>3, <1>7
    <2> QED BY <1>3, <2>1, PageOrder
  <1>8. \A p \in d .. l : p \in Nat /\ p <= l
    BY <1>3, <1>4
  <1>9. \A p \in UserPage : p \in Nat
    BY DEF UserPage
  <1>10. \A p \in d .. l : p * PGSIZE < a + n /\ p \in UserPage
    BY <1>5, <1>6, <1>8
  <1>11. \A p \in UserPage : a <= p * PGSIZE /\ p * PGSIZE < a + n => p \in d .. l
    <2> SUFFICES ASSUME NEW p \in UserPage, a <= p * PGSIZE, p * PGSIZE < a + n
                 PROVE  p \in d .. l
      OBVIOUS
    <2>1. p \in Nat
      BY <1>9
    <2>2. d <= p /\ p <= l
      BY <1>5, <1>7, <2>1
    <2> QED BY <1>3, <1>4, <2>1, <2>2
  <1> QED BY <1>2, <1>10, <1>11, Zenon

-----------------------------------------------------------------------------
(* Page table, regions and promises.                                        *)

LEMMA PagesFinite ==
    /\ IsFiniteSet(Page)
    /\ \A S \in SUBSET Page : IsFiniteSet(S) /\ Cardinality(S) \in Nat
  <1>1. IsFiniteSet(Page)
    BY VmAssumption, FS_Interval DEF Page
  <1>2. \A S \in SUBSET Page : IsFiniteSet(S)
    BY <1>1, FS_Subset
  <1> QED BY <1>1, <1>2, FS_CardinalityType

\* The count of every region is that of its entries.
LEMMA CountedPages ==
    VmrCountsPages <=> \A v \in Vmr : Counted(vmr[v], Cardinality({p \in Page : pte[p].v = v}))
  BY DEF VmrCountsPages, Counted, Lost

\* __do_munmap gives back as many references as it drops entries: afterwards the
\* region counts those that are left, and as long as there is one only its count
\* has changed.
LEMMA DecrefCounts ==
    ASSUME TableTypes, VmrCountsPages, NEW S \in SUBSET Page, NEW v \in Vmr
    PROVE  /\ DecrefVmrs(S)[v] \in VmRegion
           /\ Counted(DecrefVmrs(S)[v], Cardinality({p \in Page \ S : pte[p].v = v}))
           /\ (\E p \in Page \ S : pte[p].v = v) =>
                /\ DecrefVmrs(S)[v].addr = vmr[v].addr
                /\ DecrefVmrs(S)[v].file = vmr[v].file
                /\ DecrefVmrs(S)[v].offset = vmr[v].offset
                /\ DecrefVmrs(S)[v].prot = vmr[v].prot
  <1> DEFINE all  == {p \in Page : pte[p].v = v}
             left == {p \in Page \ S : pte[p].v = v}
             gone == {p \in S : pte[p].v = v}
             end(r) == r.addr * PGSIZE + r.length
  <1> USE Constants, Word
  <1>1. IsFiniteSet(all) /\ IsFiniteSet(left) /\ Cardinality(left) \in Nat
          /\ Cardinality(gone) \in Nat /\ Cardinality(all) \in Nat
    BY PagesFinite
  <1>2. left = all \ S /\ gone = all \cap S
    OBVIOUS
  <1>3. Cardinality(left) = Cardinality(all) - Cardinality(gone)
    BY <1>1, <1>2, FS_Difference
  <1>4. Cardinality(left) = 0 <=> left = {}
    BY <1>1, FS_EmptySet
  <1>5. Counted(vmr[v], Cardinality(all)) /\ Dropped(S, v) = Cardinality(gone)
    BY CountedPages DEF Dropped
  <1>6. vmr[v] \in VmRegion
    BY DEF TableTypes
  <1> HIDE DEF all, left, gone
  <1>7. /\ vmr[v].refcnt - Dropped(S, v) \in 0 .. UINT - 1
        /\ end(vmr[v]) >= WORD => left = {}
        /\ ~(end(vmr[v]) >= WORD) => vmr[v].refcnt - Dropped(S, v) = Cardinality(left)
    BY <1>1, <1>3, <1>4, <1>5, <1>6 DEF VmRegion, Counted
  <1>8. CASE vmr[v].refcnt = Dropped(S, v)
    <2>1. DecrefVmrs(S)[v] = NoRegion
      BY <1>8 DEF DecrefVmrs
    <2>2. left = {} /\ Cardinality(left) = 0
      BY <1>1, <1>4, <1>6, <1>7, <1>8 DEF VmRegion
    <2>3. NoRegion \in VmRegion /\ NoRegion.refcnt = 0 /\ ~(end(NoRegion) >= WORD)
      BY DEF NoRegion, VmRegion
    <2> QED BY <2>1, <2>2, <2>3 DEF Counted, left
  <1>9. CASE vmr[v].refcnt # Dropped(S, v)
    <2> DEFINE r == [addr |-> vmr[v].addr, length |-> vmr[v].length, file |-> vmr[v].file,
                     offset |-> vmr[v].offset, refcnt |-> vmr[v].refcnt - Dropped(S, v),
                     prot |-> vmr[v].prot]
    <2>1. DecrefVmrs(S)[v] = [vmr[v] EXCEPT !.refcnt = @ - Dropped(S, v)]
      BY <1>9 DEF DecrefVmrs
    <2>2. DecrefVmrs(S)[v] = r
      BY <1>6, <2>1 DEF VmRegion
    <2>3. r \in VmRegion
      BY <1>6, <1>7 DEF VmRegion
    <2>4. Counted(r, Cardinality(left))
      BY <1>4, <1>7 DEF Counted
    <2> QED BY <2>2, <2>3, <2>4 DEF left
  <1> QED BY <1>8, <1>9

LEMMA DecrefType ==
    ASSUME TableTypes, VmrCountsPages, NEW S \in SUBSET Page
    PROVE  DecrefVmrs(S) \in [Vmr -> VmRegion]
  BY DecrefCounts DEF DecrefVmrs

\* The region of a page that stays pending keeps its contents.
LEMMA DecrefKeeps ==
    ASSUME TableTypes, VmrCountsPages, NEW S \in SUBSET Page,
           NEW p \in Page \ S, pte[p].v # 0
    PROVE  LET v == pte[p].v IN
           /\ v \in Vmr
           /\ DecrefVmrs(S)[v].addr = vmr[v].addr
           /\ DecrefVmrs(S)[v].file = vmr[v].file
           /\ DecrefVmrs(S)[v].offset = vmr[v].offset
           /\ DecrefVmrs(S)[v].prot = vmr[v].prot
  <1>1. pte[p].v \in Vmr
    BY DEF TableTypes, Entry
  <1> QED BY <1>1, DecrefCounts

\* __do_munmap keeps the page table, the regions and the promises consistent.
LEMMA UnmapMem ==
    ASSUME MemInv, NEW S \in SUBSET UserPage, UnmapPages(S)
    PROVE  MemInv'
  <1> USE DEF MemInv
  <1> S \subseteq Page /\ OtherPage \subseteq Page /\ KERNEL \in Page /\ KERNEL \notin S
        /\ VPAGES - 1 \in Page
    BY Constants
  <1>1. pte' \in [Page -> Entry]
    BY DEF UnmapPages, TableTypes, Entry, Zero
  <1>2. vmr' \in [Vmr -> VmRegion]
    BY DecrefType DEF UnmapPages
  <1>3. data' \in [Page -> Block] /\ (prom \in [Page -> [src : Block, prot : SUBSET RWX]])'
    BY DEF UnmapPages, TableTypes, Old, Nothing, Block
  <1>4. EntriesWellFormed'
    BY DEF UnmapPages, EntriesWellFormed, Zero
  <1>5. VmrCountsPages'
    <2> SUFFICES ASSUME NEW v \in Vmr
                 PROVE  Counted(vmr'[v], Cardinality({p \in Page : pte'[p].v = v}))
      BY DEF VmrCountsPages, Counted, Lost
    <2>1. {p \in Page : pte'[p].v = v} = {p \in Page \ S : pte[p].v = v}
      BY DEF UnmapPages, Zero, Vmr
    <2> QED BY <2>1, DecrefCounts DEF UnmapPages
  <1>6. RegionKeepsPromise'
    <2> SUFFICES ASSUME NEW p \in OtherPage, pte'[p].v # 0
                 PROVE  /\ Source(p, vmr'[pte'[p].v].addr, vmr'[pte'[p].v].file,
                                  vmr'[pte'[p].v].offset) = prom'[p].src
                        /\ vmr'[pte'[p].v].prot \subseteq prom'[p].prot
      BY DEF RegionKeepsPromise, Source
    <2> DEFINE v == pte[p].v
    <2>1. p \notin S /\ pte'[p] = pte[p] /\ prom'[p] = prom[p]
      BY DEF UnmapPages, Zero
    <2>2. /\ vmr'[v].addr = vmr[v].addr /\ vmr'[v].file = vmr[v].file
          /\ vmr'[v].offset = vmr[v].offset /\ vmr'[v].prot = vmr[v].prot
      BY <2>1, DecrefKeeps DEF UnmapPages
    <2> QED BY <2>1, <2>2 DEF RegionKeepsPromise
  <1>7. PageKeepsPromise'
    BY DEF UnmapPages, Zero, PageKeepsPromise
  <1> QED BY <1>1, <1>2, <1>3, <1>4, <1>5, <1>6, <1>7 DEF TableTypes

\* A free region is one no entry points to.
LEMMA FreeRegion ==
    ASSUME TableTypes, VmrCountsPages, FreeVmr # {}
    PROVE  LET v == Min(FreeVmr) IN
           /\ v \in Vmr /\ v # 0 /\ vmr[v].refcnt = 0
           /\ \A p \in Page : pte[p].v # v
  <1> DEFINE v == Min(FreeVmr)
  <1>1. FreeVmr \subseteq Nat
    BY VmAssumption DEF FreeVmr, Vmr
  <1>2. v \in FreeVmr
    BY <1>1, MinIn
  <1>3. v \in Vmr /\ v # 0 /\ vmr[v].refcnt = 0
    BY <1>2 DEF FreeVmr, Vmr
  <1> HIDE DEF v
  <1>4. Cardinality({p \in Page : pte[p].v = v}) = 0
    BY <1>3, CountedPages DEF Counted
  <1>5. {p \in Page : pte[p].v = v} = {}
    BY <1>4, PagesFinite, FS_EmptySet
  <1> QED BY <1>3, <1>5 DEF v

\* The bits of a protection, as the page table entry has them.
LEMMA TypeOfBits ==
    ASSUME NEW prot \in SUBSET RWX
    PROVE  /\ TypeOf(prot, TRUE) \in SUBSET Bits
           /\ {"V", "U"} \subseteq TypeOf(prot, TRUE)
           /\ TypeOf(prot, TRUE) \cap {"W", "X"} \subseteq prot
           /\ {"W", "D"} \subseteq TypeOf(prot, TRUE) <=> "W" \in prot
           /\ "A" \in TypeOf(prot, TRUE) <=> ("R" \in prot \/ "X" \in prot)
           /\ "R" \in TypeOf(prot, TRUE) <=> ("R" \in prot \/ prot = {})
  BY DEF TypeOf, Bits, RWX

\* What the page of a mapping holds when it is first read is a block.
LEMMA SourceType ==
    ASSUME NEW p \in Page, NEW first \in Nat, NEW f \in File \cup {0},
           NEW off \in Offsets \cup {0}
    PROVE  Source(p, first, f, off) \in Block
  BY VmAssumption, FilesAssumption DEF Source, Block, Page, File, Clean

\* What __vmr_alloc writes for a request: its count is the number of pages of the
\* request, unless its end wraps.
LEMMA RegionCounts ==
    ASSUME NEW first \in 0 .. MPAGES - 1, NEW len \in 1 .. WORD - 1, NEW f \in File \cup {0},
           NEW off \in Offsets \cup {0}, NEW prot \in SUBSET RWX,
           Pages(first * PGSIZE, len) \subseteq Mappable
    PROVE  LET r == Region(first, len, f, off, prot)
               S == Pages(first * PGSIZE, len)
           IN  /\ r \in VmRegion
               /\ Counted(r, Cardinality(S))
               /\ r.refcnt = 0 => r.file = 0
               /\ r.refcnt # 0 => r.file = f
               /\ r.refcnt = 0 <=> Npage(len) % UINT = 0
               /\ S # {} => Npage(len) % UINT # 0
  <1> USE Constants, Word
  <1> DEFINE r == Region(first, len, f, off, prot)
             S == Pages(first * PGSIZE, len)
             n == Npage(len)
             c == n % UINT
             full == [addr |-> first, length |-> len, file |-> f,
                      offset |-> IF f = 0 THEN 0 ELSE off, refcnt |-> c, prot |-> prot]
  <1>1. /\ n \in 1 .. MPAGES
        /\ first * PGSIZE + len >= WORD => S = {}
        /\ first * PGSIZE + len < WORD => Cardinality(S) = n
    BY PagesOfRequest
  <1>2. c \in 0 .. UINT - 1 /\ (n < UINT => c = n)
    BY <1>1
  <1>3. r = IF c = 0 THEN NoRegion ELSE full
    BY DEF Region
  <1>4. Cardinality(S) = 0 <=> S = {}
    <2>1. IsFiniteSet(S)
      BY PagesFinite
    <2> QED BY <2>1, FS_EmptySet
  <1>5. first * PGSIZE + len < WORD => c = n
    <2> SUFFICES ASSUME first * PGSIZE + len < WORD PROVE n < UINT
      BY <1>2
    <2>1. S \subseteq Page \ {KERNEL} /\ IsFiniteSet(Page) /\ Cardinality(Page) = VPAGES
      <3>1. 0 \in Int /\ VPAGES - 1 \in Int /\ ~(0 > VPAGES - 1)
        OBVIOUS
      <3>2. Cardinality(0 .. VPAGES - 1) = IF 0 > VPAGES - 1 THEN 0 ELSE (VPAGES - 1) - 0 + 1
        BY <3>1, FS_Interval, Zenon
      <3>3. Page = 0 .. VPAGES - 1 /\ (VPAGES - 1) - 0 + 1 = VPAGES
        BY DEF Page
      <3>4. S \subseteq Page \ {KERNEL}
        OBVIOUS
      <3>5. Cardinality(Page) = VPAGES
        BY <3>1, <3>2, <3>3
      <3> QED BY <3>4, <3>5, PagesFinite
    <2>2. Cardinality(Page \ {KERNEL}) = VPAGES - 1
      BY <2>1, FS_RemoveElement
    <2>3. Cardinality(S) <= Cardinality(Page \ {KERNEL})
      <3>1. IsFiniteSet(Page \ {KERNEL})
        BY <2>1, FS_Subset
      <3> QED BY <2>1, <3>1, FS_Subset
    <2> QED BY <1>1, <2>2, <2>3
  <1>6. full \in VmRegion /\ NoRegion \in VmRegion
    BY <1>2 DEF VmRegion, NoRegion
  <1>7. NoRegion.refcnt = 0 /\ NoRegion.addr = 0 /\ NoRegion.length = 0 /\ NoRegion.file = 0
    BY DEF NoRegion
  <1> HIDE DEF S, n, c, r
  <1>8. Counted(r, Cardinality(S))
    <2>1. CASE c = 0
      <3>1. S = {} /\ r = NoRegion
        BY <1>1, <1>3, <1>5, <2>1
      <3> QED BY <1>4, <1>7, <3>1 DEF Counted
    <2>2. CASE c # 0
      BY <1>1, <1>3, <1>4, <1>5, <2>2 DEF Counted
    <2> QED BY <2>1, <2>2
  <1>9. S # {} => c # 0
    BY <1>1, <1>5
  <1> QED BY <1>3, <1>6, <1>7, <1>8, <1>9 DEF S, n, c, r

\* A new region is given to the pages of a request: its count is their number,
\* and the entries it replaces are given back to the regions they came from.
LEMMA MapMem ==
    ASSUME MemInv, FreeVmr # {}, NEW first \in 0 .. MPAGES - 1, NEW len \in 1 .. WORD - 1,
           Pages(first * PGSIZE, len) \subseteq Mappable, NEW f \in File \cup {0},
           NEW off \in Offsets \cup {0}, NEW prot \in SUBSET RWX,
           MapRegion(Pages(first * PGSIZE, len), first, len, f, off, prot)
    PROVE  MemInv'
  <1> USE DEF MemInv
  <1> DEFINE S == Pages(first * PGSIZE, len)
             v == Min(FreeVmr)
  <1>1. OtherPage \subseteq Page /\ KERNEL \in Page /\ VPAGES - 1 \in Page /\ first \in Nat
    BY Constants
  <1>2. S \subseteq Page /\ KERNEL \notin S /\ VPAGES - 1 \notin S
    BY Constants
  <1>3. S \in SUBSET Page
    BY <1>2
  <1>4. v \in Vmr /\ v # 0 /\ \A p \in Page : pte[p].v # v
    BY FreeRegion
  <1> DEFINE r == Region(first, len, f, off, prot)
  <1>5. r \in VmRegion /\ Counted(r, Cardinality(S))
    BY RegionCounts
  <1>6. /\ pte' = [p \in Page |-> IF p \in S THEN Pending(v) ELSE pte[p]]
        /\ vmr' = [DecrefVmrs(S) EXCEPT ![v] = r]
        /\ data' = [p \in Page |-> IF p \in S THEN Old ELSE data[p]]
        /\ prom' = [p \in Page |-> IF p \in S
                            THEN [src |-> Source(p, first, f, off), prot |-> prot]
                            ELSE prom[p]]
    BY DEF MapRegion, Promise
  <1>7. S # {} => r.addr = first /\ r.file = f /\ r.prot = prot /\ (f # 0 => r.offset = off)
    <2>1. S # {} => Npage(len) % UINT # 0
      BY RegionCounts
    <2> QED BY <2>1 DEF Region
  <1> HIDE DEF S, v, r
  <1>8. pte' \in [Page -> Entry]
    BY <1>4, <1>6 DEF TableTypes, Entry, Pending
  <1>9. vmr' \in [Vmr -> VmRegion]
    BY <1>3, <1>4, <1>5, <1>6, DecrefType
  <1>10. data' \in [Page -> Block] /\ (prom \in [Page -> [src : Block, prot : SUBSET RWX]])'
    <2>1. \A p \in Page : Source(p, first, f, off) \in Block
      BY SourceType
    <2>2. Old \in Block
      BY DEF Old, Block
    <2> QED BY <1>6, <2>1, <2>2 DEF TableTypes
  <1>11. EntriesWellFormed'
    BY <1>1, <1>2, <1>6 DEF EntriesWellFormed, Pending
  <1>12. VmrCountsPages'
    <2> SUFFICES ASSUME NEW w \in Vmr
                 PROVE  Counted(vmr'[w], Cardinality({p \in Page : pte'[p].v = w}))
      BY DEF VmrCountsPages, Counted, Lost
    <2>1. CASE w = v
      <3>1. {p \in Page : pte'[p].v = w} = S
        BY <1>3, <1>4, <1>6, <2>1 DEF Pending
      <3>2. vmr'[w] = r
        BY <1>3, <1>4, <1>6, <2>1, DecrefType
      <3> QED BY <1>5, <3>1, <3>2
    <2>2. CASE w # v
      <3>1. {p \in Page : pte'[p].v = w} = {p \in Page \ S : pte[p].v = w}
        BY <1>6, <2>2 DEF Pending
      <3>2. vmr'[w] = DecrefVmrs(S)[w]
        BY <1>3, <1>6, <2>2, DecrefType
      <3> QED BY <1>3, <3>1, <3>2, DecrefCounts
    <2> QED BY <2>1, <2>2
  <1>13. RegionKeepsPromise'
    <2> SUFFICES ASSUME NEW p \in OtherPage, pte'[p].v # 0
                 PROVE  /\ Source(p, vmr'[pte'[p].v].addr, vmr'[pte'[p].v].file,
                                  vmr'[pte'[p].v].offset) = prom'[p].src
                        /\ vmr'[pte'[p].v].prot \subseteq prom'[p].prot
      BY DEF RegionKeepsPromise, Source
    <2>1. CASE p \in S
      <3>1. pte'[p].v = v /\ prom'[p].src = Source(p, first, f, off) /\ prom'[p].prot = prot
        BY <1>1, <1>6, <2>1 DEF Pending
      <3>2. vmr'[v] = r
        BY <1>3, <1>4, <1>6, DecrefType
      <3>3. Source(p, r.addr, r.file, r.offset) = Source(p, first, f, off)
        BY <1>7, <2>1 DEF Source
      <3> QED BY <1>7, <2>1, <3>1, <3>2, <3>3
    <2>2. CASE p \notin S
      <3>1. pte'[p] = pte[p] /\ prom'[p] = prom[p] /\ pte[p].v # v
        BY <1>1, <1>4, <1>6, <2>2
      <3>2. pte[p].v \in Vmr
        BY <1>1, <3>1 DEF TableTypes, Entry
      <3>3. vmr'[pte[p].v] = DecrefVmrs(S)[pte[p].v]
        BY <1>3, <1>6, <3>1, <3>2, DecrefType
      <3> QED BY <1>1, <1>3, <2>2, <3>1, <3>3, DecrefKeeps DEF RegionKeepsPromise
    <2> QED BY <2>1, <2>2
  <1>14. PageKeepsPromise'
    BY <1>1, <1>6 DEF Pending, PageKeepsPromise
  <1> QED BY <1>8, <1>9, <1>10, <1>11, <1>12, <1>13, <1>14 DEF TableTypes

\* MAP_POPULATE: every page is read in at once, and no region is left behind.
LEMMA PopulateMem ==
    ASSUME MemInv, NEW S \in SUBSET UserPage, NEW first \in Nat, NEW f \in File \cup {0},
           NEW off \in Offsets \cup {0}, NEW prot \in SUBSET RWX,
           PopulateRegion(S, first, f, off, prot)
    PROVE  MemInv'
  <1> USE DEF MemInv
  <1>1. S \subseteq Page /\ OtherPage \subseteq Page /\ KERNEL \in Page /\ KERNEL \notin S
          /\ VPAGES - 1 \in Page /\ VPAGES - 1 \notin S
    BY Constants
  <1> DEFINE t == TypeOf(prot, TRUE)
  <1>2. t \in SUBSET Bits /\ t \cap {"W", "X"} \subseteq prot
    BY TypeOfBits
  <1>3. /\ pte' = [p \in Page |-> IF p \in S THEN Mapped(t) ELSE pte[p]]
        /\ vmr' = DecrefVmrs(S)
        /\ data' = [p \in Page |-> IF p \in S THEN Source(p, first, f, off) ELSE data[p]]
        /\ prom' = [p \in Page |-> IF p \in S
                            THEN [src |-> Source(p, first, f, off), prot |-> prot]
                            ELSE prom[p]]
    BY DEF PopulateRegion, Promise
  <1>4. EntriesWellFormed'
    BY <1>1, <1>3 DEF EntriesWellFormed, Mapped
  <1> HIDE DEF t
  <1>5. pte' \in [Page -> Entry]
    BY <1>2, <1>3 DEF TableTypes, Entry, Mapped
  <1>6. vmr' \in [Vmr -> VmRegion]
    BY <1>1, <1>3, DecrefType
  <1>7. data' \in [Page -> Block] /\ (prom \in [Page -> [src : Block, prot : SUBSET RWX]])'
    <2>1. \A p \in Page : Source(p, first, f, off) \in Block
      BY SourceType
    <2> QED BY <1>3, <2>1 DEF TableTypes
  <1>8. VmrCountsPages'
    <2> SUFFICES ASSUME NEW v \in Vmr
                 PROVE  Counted(vmr'[v], Cardinality({p \in Page : pte'[p].v = v}))
      BY DEF VmrCountsPages, Counted, Lost
    <2>1. {p \in Page : pte'[p].v = v} = {p \in Page \ S : pte[p].v = v}
      BY <1>3 DEF Mapped, Vmr
    <2>2. S \in SUBSET Page /\ TableTypes /\ VmrCountsPages
      BY <1>1
    <2>3. Counted(DecrefVmrs(S)[v], Cardinality({p \in Page \ S : pte[p].v = v}))
      BY <2>2, DecrefCounts, Zenon
    <2> QED BY <1>3, <2>1, <2>3
  <1>9. RegionKeepsPromise'
    <2> SUFFICES ASSUME NEW p \in OtherPage, pte'[p].v # 0
                 PROVE  /\ Source(p, vmr'[pte'[p].v].addr, vmr'[pte'[p].v].file,
                                  vmr'[pte'[p].v].offset) = prom'[p].src
                        /\ vmr'[pte'[p].v].prot \subseteq prom'[p].prot
      BY DEF RegionKeepsPromise, Source
    <2>1. p \notin S /\ pte'[p] = pte[p] /\ prom'[p] = prom[p]
      BY <1>1, <1>3 DEF Mapped
    <2>2. S \in SUBSET Page /\ p \in Page \ S /\ pte[p].v # 0 /\ TableTypes /\ VmrCountsPages
      BY <1>1, <2>1
    <2> DEFINE v == pte[p].v
    <2>3. /\ vmr'[v].addr = vmr[v].addr /\ vmr'[v].file = vmr[v].file
          /\ vmr'[v].offset = vmr[v].offset /\ vmr'[v].prot = vmr[v].prot
      BY <1>3, <2>2, DecrefKeeps
    <2> QED BY <2>1, <2>2, <2>3 DEF RegionKeepsPromise
  <1>10. PageKeepsPromise'
    BY <1>1, <1>2, <1>3 DEF Mapped, PageKeepsPromise
  <1> QED BY <1>4, <1>5, <1>6, <1>7, <1>8, <1>9, <1>10 DEF TableTypes

\* What a page fault that reads a page in does to the tables.
FaultedIn(p) ==
    /\ pte' = [pte EXCEPT ![p] = Mapped(TypeOf(vmr[pte[p].v].prot, TRUE))]
    /\ vmr' = DecrefVmrs({p})
    /\ data' = [data EXCEPT ![p] = Source(p, vmr[pte[p].v].addr, vmr[pte[p].v].file,
                                          vmr[pte[p].v].offset)]
    /\ UNCHANGED prom

\* A page is faulted in: its region loses one page and the entry gets the
\* region's rights and contents.
LEMMA FaultMem ==
    ASSUME MemInv, NEW p \in UserPage, pte[p].v # 0, FaultedIn(p)
    PROVE  MemInv'
  <1> TableTypes /\ EntriesWellFormed /\ VmrCountsPages /\ RegionKeepsPromise /\ PageKeepsPromise
    BY DEF MemInv
  <1>1. p \in Page /\ p \in OtherPage /\ OtherPage \subseteq Page /\ KERNEL \in Page
          /\ KERNEL # p /\ VPAGES - 1 \in Page /\ VPAGES - 1 # p
    BY Constants
  <1> DEFINE v == pte[p].v
             t == TypeOf(vmr[v].prot, TRUE)
             src == Source(p, vmr[v].addr, vmr[v].file, vmr[v].offset)
  <1>2. v \in Vmr /\ vmr[v] \in VmRegion
    BY <1>1 DEF TableTypes, Entry
  <1>3. /\ vmr[v].prot \in SUBSET RWX /\ vmr[v].addr \in Nat
        /\ vmr[v].file \in File \cup {0} /\ vmr[v].offset \in Offsets \cup {0}
    BY <1>2 DEF VmRegion
  <1>4. t \in SUBSET Bits /\ t \cap {"W", "X"} \subseteq vmr[v].prot
    BY <1>3, TypeOfBits
  <1>5. src \in Block
    BY <1>1, <1>3, SourceType
  <1>6. \E prot \in SUBSET RWX : t = TypeOf(prot, TRUE)
    BY <1>3
  <1>7. src = prom[p].src /\ t \cap {"W", "X"} \subseteq prom[p].prot
    BY <1>1, <1>4 DEF RegionKeepsPromise
  <1>8. pte' = [pte EXCEPT ![p] = Mapped(t)] /\ vmr' = DecrefVmrs({p}) /\ prom' = prom
    BY DEF FaultedIn
  <1>9. data' = [data EXCEPT ![p] = src]
    BY DEF FaultedIn
  <1> HIDE DEF t, src, v
  <1>10. pte'[p].v = 0 /\ pte'[p].type = t /\ \A q \in Page : q # p => pte'[q] = pte[q]
    BY <1>1, <1>8 DEF TableTypes, Mapped
  <1>11. data'[p] = src /\ \A q \in Page : q # p => data'[q] = data[q]
    BY <1>1, <1>9 DEF TableTypes
  <1>12. pte' \in [Page -> Entry]
    BY <1>4, <1>8 DEF TableTypes, Entry, Mapped
  <1>13. vmr' \in [Vmr -> VmRegion]
    BY <1>1, <1>8, DecrefType
  <1>14. data' \in [Page -> Block] /\ (prom \in [Page -> [src : Block, prot : SUBSET RWX]])'
    BY <1>1, <1>5, <1>8, <1>9 DEF TableTypes
  <1>15. EntriesWellFormed'
    BY <1>1, <1>6, <1>10 DEF EntriesWellFormed
  <1>16. VmrCountsPages'
    <2> SUFFICES ASSUME NEW w \in Vmr
                 PROVE  Counted(vmr'[w], Cardinality({q \in Page : pte'[q].v = w}))
      BY DEF VmrCountsPages, Counted, Lost
    <2>1. {q \in Page : pte'[q].v = w} = {q \in Page \ {p} : pte[q].v = w}
      <3>1. w # 0
        BY DEF Vmr
      <3>2. \A q \in Page : pte'[q].v = w <=> (q \in Page \ {p} /\ pte[q].v = w)
        BY <1>10, <3>1
      <3> QED BY <3>2
    <2> QED BY <1>1, <1>8, <2>1, DecrefCounts
  <1>17. RegionKeepsPromise'
    <2> SUFFICES ASSUME NEW q \in OtherPage, pte'[q].v # 0
                 PROVE  /\ Source(q, vmr'[pte'[q].v].addr, vmr'[pte'[q].v].file,
                                  vmr'[pte'[q].v].offset) = prom'[q].src
                        /\ vmr'[pte'[q].v].prot \subseteq prom'[q].prot
      BY DEF RegionKeepsPromise, Source
    <2>1. q # p /\ pte'[q] = pte[q] /\ prom'[q] = prom[q]
      BY <1>1, <1>8, <1>10
    <2>2. q \in Page \ {p} /\ {p} \in SUBSET Page /\ pte[q].v # 0
      BY <1>1, <2>1
    <2>3. /\ vmr'[pte[q].v].addr = vmr[pte[q].v].addr
          /\ vmr'[pte[q].v].file = vmr[pte[q].v].file
          /\ vmr'[pte[q].v].offset = vmr[pte[q].v].offset
          /\ vmr'[pte[q].v].prot = vmr[pte[q].v].prot
      BY <1>8, <2>2, DecrefKeeps
    <2> QED BY <2>1, <2>2, <2>3 DEF RegionKeepsPromise
  <1>18. PageKeepsPromise'
    <2> SUFFICES ASSUME NEW q \in OtherPage, pte'[q].type # {}
                 PROVE  /\ data'[q] \in {prom[q].src, User}
                        /\ pte'[q].type \cap {"W", "X"} \subseteq prom[q].prot
      BY <1>8 DEF PageKeepsPromise
    <2>1. CASE q = p
      BY <1>7, <1>10, <1>11, <2>1
    <2>2. CASE q # p
      BY <1>1, <1>10, <1>11, <2>2 DEF PageKeepsPromise
    <2> QED BY <2>1, <2>2
  <1> QED BY <1>12, <1>13, <1>14, <1>15, <1>16, <1>17, <1>18 DEF MemInv, TableTypes

\* A store leaves the program's own data in a page.
LEMMA StoreMem ==
    ASSUME MemInv, NEW p \in Page, data' = [data EXCEPT ![p] = User],
           UNCHANGED <<pte, vmr, prom>>
    PROVE  MemInv'
  <1>1. User \in Block
    BY DEF User, Block
  <1>2. OtherPage \subseteq Page
    BY Constants
  <1> QED BY <1>1, <1>2 DEF MemInv, TableTypes, EntriesWellFormed, VmrCountsPages, Lost,
                            RegionKeepsPromise, PageKeepsPromise

\* The entry of the kernel's range has no user bit.
LEMMA KernelEntry ==
    ASSUME EntriesWellFormed
    PROVE  "U" \notin pte[KERNEL].type /\ pte[KERNEL].v = 0
  BY DEF EntriesWellFormed, Mapped, TypeOf, RWX

\* What do_mprotect does to the tables when it gets through the pages of T.
Protected(T, prot) ==
    /\ pte' = [p \in Page |-> IF p \in T /\ Valid(p)
                              THEN Mapped(TypeOf(prot, TRUE)) ELSE pte[p]]
    /\ vmr' = [v \in Vmr |-> IF \E p \in T : pte[p].v = v
                             THEN [vmr[v] EXCEPT !.prot = prot] ELSE vmr[v]]
    /\ UNCHANGED <<data, prom>>

\* Pages that let do_mprotect pass lose rights only.
LEMMA MprotectMem ==
    ASSUME MemInv, NEW T \in SUBSET Page, NEW prot \in SUBSET RWX,
           \A p \in T : ~Refuses(p, prot), Protected(T, prot)
    PROVE  MemInv'
  <1> TableTypes /\ EntriesWellFormed /\ VmrCountsPages /\ RegionKeepsPromise /\ PageKeepsPromise
    BY DEF MemInv
  <1>1. OtherPage \subseteq Page /\ KERNEL \in Page /\ Page = OtherPage \cup {KERNEL}
          /\ KERNEL \notin OtherPage /\ VPAGES - 1 \in Page
    BY Constants
  <1> DEFINE t == TypeOf(prot, TRUE)
             Done(p) == p \in T /\ "V" \in pte[p].type
             Hit(v) == \E p \in T : pte[p].v = v
  <1>2. t \in SUBSET Bits /\ t \cap {"W", "X"} \subseteq prot
    BY TypeOfBits
  <1>3. ASSUME NEW p \in T, "V" \in pte[p].type
        PROVE  p \in OtherPage /\ prot \subseteq pte[p].type /\ pte[p].v = 0
    <2>1. "U" \in pte[p].type /\ prot \subseteq pte[p].type
      BY <1>3 DEF Refuses, Valid
    <2>2. p \in OtherPage
      BY <1>1, <2>1, KernelEntry
    <2> QED BY <1>3, <2>1, <2>2 DEF EntriesWellFormed
  <1>4. ASSUME NEW p \in T, pte[p].v # 0
        PROVE  prot \subseteq vmr[pte[p].v].prot
    <2>1. p \in OtherPage
      BY <1>1, <1>4, KernelEntry
    <2>2. pte[p].type = {}
      BY <1>4, <2>1 DEF EntriesWellFormed
    <2> QED BY <2>2 DEF Refuses, Valid
  <1>5. \E r \in SUBSET RWX : t = TypeOf(r, TRUE)
    OBVIOUS
  <1>6. pte' = [p \in Page |-> IF Done(p) THEN Mapped(t) ELSE pte[p]]
    BY DEF Protected, Valid
  <1>7. \A v \in Vmr : vmr'[v] = IF Hit(v) THEN [vmr[v] EXCEPT !.prot = prot] ELSE vmr[v]
    BY DEF Protected
  <1>8. vmr' = [v \in Vmr |-> vmr'[v]] /\ prom' = prom /\ data' = data
    BY DEF Protected
  <1>9. \A v \in Vmr : Hit(v) => prot \subseteq vmr[v].prot
    BY <1>4 DEF Vmr
  <1>10. \A p \in Page : Done(p) => p \in OtherPage /\ prot \subseteq pte[p].type /\ pte[p].v = 0
                                   /\ pte[p].type # {}
    BY <1>3
  <1> HIDE DEF t, Done, Hit
  <1>11. \A p \in Page : pte'[p].v = pte[p].v
    BY <1>6, <1>10 DEF Mapped
  <1>12. pte' \in [Page -> Entry]
    BY <1>2, <1>6 DEF TableTypes, Entry, Mapped
  <1>13. ASSUME NEW v \in Vmr
         PROVE  /\ vmr'[v] \in VmRegion
                /\ vmr'[v].addr = vmr[v].addr /\ vmr'[v].length = vmr[v].length /\ vmr'[v].file = vmr[v].file
                /\ vmr'[v].offset = vmr[v].offset /\ vmr'[v].refcnt = vmr[v].refcnt
                /\ vmr'[v].prot \subseteq vmr[v].prot
    <2>1. vmr[v] \in VmRegion
      BY DEF TableTypes
    <2>2. CASE Hit(v)
      <3>1. vmr'[v] = [addr |-> vmr[v].addr, length |-> vmr[v].length, file |-> vmr[v].file,
                       offset |-> vmr[v].offset, refcnt |-> vmr[v].refcnt, prot |-> prot]
        BY <1>7, <2>1, <2>2 DEF VmRegion
      <3> QED BY <1>9, <2>1, <2>2, <3>1 DEF VmRegion
    <2>3. CASE ~Hit(v)
      BY <1>7, <2>1, <2>3
    <2> QED BY <2>2, <2>3
  <1>14. vmr' \in [Vmr -> VmRegion]
    BY <1>8, <1>13
  <1>15. EntriesWellFormed'
    <2>1. "V" \notin pte[VPAGES - 1].type
      BY DEF EntriesWellFormed, Zero
    <2>2. ~Done(VPAGES - 1)
      BY <2>1 DEF Done
    <2> QED BY <1>1, <1>5, <1>6, <1>10, <2>2 DEF EntriesWellFormed, Mapped
  <1>16. VmrCountsPages'
    <2>1. \A v \in Vmr : {p \in Page : pte'[p].v = v} = {p \in Page : pte[p].v = v}
      BY <1>11
    <2> QED BY <1>13, <2>1 DEF VmrCountsPages, Lost
  <1>17. RegionKeepsPromise'
    <2> SUFFICES ASSUME NEW q \in OtherPage, pte[q].v # 0
                 PROVE  /\ Source(q, vmr'[pte[q].v].addr, vmr'[pte[q].v].file,
                                  vmr'[pte[q].v].offset) = prom[q].src
                        /\ vmr'[pte[q].v].prot \subseteq prom[q].prot
      BY <1>1, <1>8, <1>11 DEF RegionKeepsPromise, Source
    <2>1. pte[q].v \in Vmr
      BY <1>1 DEF TableTypes, Entry
    <2> QED BY <1>13, <2>1 DEF RegionKeepsPromise
  <1>18. PageKeepsPromise'
    <2> SUFFICES ASSUME NEW q \in OtherPage, pte'[q].type # {}
                 PROVE  /\ data[q] \in {prom[q].src, User}
                        /\ pte'[q].type \cap {"W", "X"} \subseteq prom[q].prot
      BY <1>8 DEF PageKeepsPromise
    <2>1. CASE Done(q)
      <3>1. pte'[q].type = t /\ prot \subseteq pte[q].type /\ pte[q].type # {}
        BY <1>1, <1>6, <1>10, <2>1 DEF Mapped
      <3> QED BY <1>2, <3>1 DEF PageKeepsPromise
    <2>2. CASE ~Done(q)
      BY <1>1, <1>6, <2>2 DEF PageKeepsPromise
    <2> QED BY <2>1, <2>2
  <1> QED BY <1>8, <1>12, <1>14, <1>15, <1>16, <1>17, <1>18 DEF MemInv, TableTypes

-----------------------------------------------------------------------------
(* The file table.                                                          *)

\* A file is in use exactly as long as a descriptor refers to it, so that no
\* entry is given up; a free one has no open host descriptor.
DescriptorsHoldFiles ==
    \A f \in File :
        /\ refcnt[f] # 0 => \E d \in Fd : fds[d] = f
        /\ refcnt[f] = 0 => kfd[f] \notin host /\ (FreeFds # {} => kfd[f] = NoKfd)

FileInv ==
    /\ FilesTypeOK /\ FilesHeldByReferences /\ DescriptorsHoldFiles
    /\ leaked \in [File -> 0 .. LEAKS]

\* The regions in use that map f, and the descriptors of f.
MapsOf(f) == {v \in Vmr : vmr[v].refcnt # 0 /\ vmr[v].file = f}
FdsOf(f)  == {d \in Fd : fds[d] = f}

LEMMA HoldersFinite ==
    /\ \A S \in SUBSET Vmr : IsFiniteSet(S) /\ Cardinality(S) \in Nat
    /\ \A S \in SUBSET Fd : IsFiniteSet(S) /\ Cardinality(S) \in Nat
  <1>1. IsFiniteSet(Vmr)
    BY VmAssumption, FS_Interval DEF Vmr
  <1>2. IsFiniteSet(Fd)
    BY FilesAssumption, FS_Interval DEF Fd
  <1>3. \A S \in SUBSET Vmr : IsFiniteSet(S)
    BY <1>1, FS_Subset
  <1>4. \A S \in SUBSET Fd : IsFiniteSet(S)
    BY <1>2, FS_Subset
  <1> QED BY <1>3, <1>4, FS_CardinalityType

\* A file in use is held by more references than its regions can give back.
LEMMA UsedFile ==
    ASSUME FileInv, NEW f \in File, refcnt[f] # 0
    PROVE  /\ refcnt[f] = 2 + Cardinality(FdsOf(f)) + Cardinality(MapsOf(f)) + leaked[f]
           /\ Cardinality(FdsOf(f)) \in Nat \ {0} /\ Cardinality(MapsOf(f)) \in Nat
           /\ leaked[f] \in Nat
  <1>1. FdsOf(f) # {} /\ FdsOf(f) \in SUBSET Fd /\ MapsOf(f) \in SUBSET Vmr
    BY DEF FileInv, DescriptorsHoldFiles, FdsOf, MapsOf
  <1>2. Cardinality(FdsOf(f)) # 0
    BY <1>1, HoldersFinite, FS_EmptySet
  <1>3. leaked[f] \in Nat
    BY VmAssumption DEF FileInv
  <1>4. refcnt[f] = 2 + Cardinality(FdsOf(f)) + Cardinality(MapsOf(f)) + leaked[f]
    <2> USE DEF FileInv, FilesHeldByReferences
    <2>1. refcnt[f] = 2 + (Cardinality({d \in Fd : fds[d] = f})
                    + Cardinality({v \in Vmr : vmr[v].refcnt # 0 /\ vmr[v].file = f}) + leaked[f])
      OBVIOUS
    <2> QED BY <1>1, <1>3, <2>1, HoldersFinite DEF FdsOf, MapsOf
  <1> QED BY <1>1, <1>2, <1>3, <1>4, HoldersFinite

\* The regions of f that are given up are among those that map it.
LEMMA ReleasedMaps ==
    ASSUME TableTypes, VmrCountsPages, NEW S \in SUBSET Page, NEW f \in File
    PROVE  /\ Released(S, f) \subseteq MapsOf(f)
           /\ Cardinality(Released(S, f)) \in Nat
           /\ Cardinality(MapsOf(f) \ Released(S, f))
                 = Cardinality(MapsOf(f)) - Cardinality(Released(S, f))
           /\ {v \in Vmr : DecrefVmrs(S)[v].refcnt # 0 /\ DecrefVmrs(S)[v].file = f}
                 = MapsOf(f) \ Released(S, f)
  <1>1. Released(S, f) \subseteq MapsOf(f)
    BY DEF Released, MapsOf
  <1>2. MapsOf(f) \in SUBSET Vmr /\ Released(S, f) \in SUBSET Vmr
    BY DEF MapsOf, Released
  <1>3. Cardinality(MapsOf(f) \ Released(S, f))
          = Cardinality(MapsOf(f)) - Cardinality(MapsOf(f) \cap Released(S, f))
    BY <1>2, HoldersFinite, FS_Difference
  <1>4. MapsOf(f) \cap Released(S, f) = Released(S, f)
    BY <1>1
  <1>5. ASSUME NEW v \in Vmr
        PROVE  (DecrefVmrs(S)[v].refcnt # 0 /\ DecrefVmrs(S)[v].file = f)
                  <=> v \in MapsOf(f) \ Released(S, f)
    <2>1. vmr[v] \in VmRegion /\ Dropped(S, v) \in Nat
      <3>1. {p \in S : pte[p].v = v} \in SUBSET Page
        OBVIOUS
      <3> QED BY <3>1, PagesFinite DEF TableTypes, Dropped
    <2>2. CASE vmr[v].refcnt = Dropped(S, v)
      <3>1. DecrefVmrs(S)[v].refcnt = 0
        BY <2>2 DEF DecrefVmrs, NoRegion
      <3>2. v \in MapsOf(f) => v \in Released(S, f)
        BY <2>1, <2>2 DEF MapsOf, Released
      <3> QED BY <3>1, <3>2
    <2>3. CASE vmr[v].refcnt # Dropped(S, v)
      <3>1. v \notin Released(S, f)
        BY <2>3 DEF Released
      <3>2. DecrefVmrs(S)[v] = [vmr[v] EXCEPT !.refcnt = @ - Dropped(S, v)]
        BY <2>3 DEF DecrefVmrs
      <3>3. /\ DecrefVmrs(S)[v].file = vmr[v].file
            /\ DecrefVmrs(S)[v].refcnt = vmr[v].refcnt - Dropped(S, v)
        BY <2>1, <3>2 DEF VmRegion
      <3>4. vmr[v].refcnt \in Nat /\ DecrefVmrs(S)[v].refcnt \in Nat
        <4>1. DecrefVmrs(S)[v] \in VmRegion
          BY DecrefCounts
        <4> QED BY <2>1, <4>1, VmAssumption DEF VmRegion
      <3>5. vmr[v].refcnt # 0 /\ DecrefVmrs(S)[v].refcnt # 0
        BY <2>1, <2>3, <3>3, <3>4
      <3> QED BY <3>1, <3>3, <3>5 DEF MapsOf
    <2> QED BY <2>2, <2>3
  <1> QED BY <1>1, <1>2, <1>3, <1>4, <1>5, HoldersFinite DEF MapsOf

\* The file table after entries of S are dropped and a reference to g (0: none) is
\* taken, for a new region or for none: every file has the references it is held by.
LEMMA FileStep ==
    ASSUME TableTypes, VmrCountsPages, FileInv, NEW S \in SUBSET Page,
           NEW g \in File \cup {0}, g # 0 => refcnt[g] # 0,
           leaked' \in [File -> 0 .. LEAKS],
           \A f \in File : Cardinality(MapsOf(f)') + leaked'[f]
                             = Cardinality(MapsOf(f) \ Released(S, f)) + leaked[f]
                                 + (IF f = g THEN 1 ELSE 0),
           refcnt' = FileRefs(S, g), host' = host \ Closed(S, g), UNCHANGED <<kfd, fds>>
    PROVE  FileInv'
  <1> FilesTypeOK /\ FilesHeldByReferences /\ DescriptorsHoldFiles
    BY DEF FileInv
  <1>1. ASSUME NEW f \in File
        PROVE  /\ leaked[f] \in Nat /\ leaked'[f] \in Nat
               /\ Cardinality(FdsOf(f)) \in Nat /\ Cardinality(MapsOf(f)) \in Nat
               /\ Cardinality(MapsOf(f)') \in Nat
    <2>1. FdsOf(f) \in SUBSET Fd /\ MapsOf(f) \in SUBSET Vmr /\ MapsOf(f)' \in SUBSET Vmr
      BY DEF FdsOf, MapsOf
    <2>2. leaked[f] \in Nat /\ leaked'[f] \in Nat
      BY VmAssumption DEF FileInv
    <2> QED BY <2>1, <2>2, HoldersFinite
  <1>2. ASSUME NEW f \in File, refcnt[f] = 0
        PROVE  /\ refcnt'[f] = 0 /\ Cardinality(FdsOf(f)) = 0
               /\ Cardinality(MapsOf(f)') = 0 /\ leaked'[f] = 0
    <2>1. f # g
      BY <1>2 DEF File
    <2>2. FdsOf(f) \in SUBSET Fd /\ MapsOf(f) \in SUBSET Vmr
      BY DEF FdsOf, MapsOf
    <2>3. Cardinality(FdsOf(f)) + Cardinality(MapsOf(f)) + leaked[f] = 0
      BY <1>2 DEF FilesHeldByReferences, FdsOf, MapsOf
    <2>4. Cardinality(FdsOf(f)) = 0 /\ Cardinality(MapsOf(f)) = 0 /\ leaked[f] = 0
      BY <1>1, <2>3
    <2>5. MapsOf(f) = {}
      BY <2>2, <2>4, HoldersFinite, FS_EmptySet
    <2>6. Released(S, f) = {} /\ MapsOf(f) \ Released(S, f) = {}
      BY <2>5, ReleasedMaps
    <2>7. Cardinality(Released(S, f)) = 0 /\ Cardinality(MapsOf(f) \ Released(S, f)) = 0
      BY <2>6, FS_EmptySet
    <2>8. refcnt'[f] = DecrefTo(refcnt[f] + 0, 0)
      BY <2>1, <2>7 DEF FileRefs
    <2>9. Cardinality(MapsOf(f)') + leaked'[f] = 0
      BY <2>1, <2>4, <2>7
    <2> QED BY <1>1, <1>2, <2>4, <2>8, <2>9 DEF DecrefTo
  <1>3. ASSUME NEW f \in File, refcnt[f] # 0
        PROVE  /\ refcnt'[f] = 2 + Cardinality(FdsOf(f)) + Cardinality(MapsOf(f)') + leaked'[f]
               /\ refcnt'[f] \in Nat \ {0}
    <2> DEFINE n == Cardinality(Released(S, f))
               m == IF f = g THEN 1 ELSE 0
    <2>1. /\ refcnt[f] = 2 + Cardinality(FdsOf(f)) + Cardinality(MapsOf(f)) + leaked[f]
          /\ Cardinality(FdsOf(f)) \in Nat \ {0} /\ Cardinality(MapsOf(f)) \in Nat
      BY <1>3, UsedFile
    <2>2. n \in Nat /\ Cardinality(MapsOf(f) \ Released(S, f)) = Cardinality(MapsOf(f)) - n
      BY ReleasedMaps
    <2>3. MapsOf(f) \ Released(S, f) \in SUBSET Vmr
      BY DEF MapsOf
    <2>4. Cardinality(MapsOf(f) \ Released(S, f)) \in Nat
      BY <2>3, HoldersFinite
    <2>5. Cardinality(MapsOf(f)') + leaked'[f] = Cardinality(MapsOf(f)) - n + leaked[f] + m
      BY <2>2
    <2>6. refcnt'[f] = DecrefTo(refcnt[f] + m, n)
      BY DEF FileRefs
    <2>7. m \in Nat
      OBVIOUS
    <2> HIDE DEF n, m
    <2>8. refcnt[f] + m - n >= 3
      <3>1. \A a, b, c, d \in Nat : b - n \in Nat /\ a # 0 => (2 + a + b + c) + d - n >= 3
        BY <2>2
      <3>2. Cardinality(MapsOf(f)) - n \in Nat /\ leaked[f] \in Nat
        BY <1>1, <2>2, <2>4
      <3> HIDE DEF FdsOf, MapsOf
      <3> QED BY <2>1, <2>7, <3>1, <3>2
    <2>9. refcnt'[f] = refcnt[f] + m - n
      BY <1>1, <2>1, <2>2, <2>6, <2>7, <2>8 DEF DecrefTo
    <2> QED BY <1>1, <2>1, <2>2, <2>5, <2>7, <2>8, <2>9
  <1>4. \A f \in File : refcnt'[f] = 0 <=> refcnt[f] = 0
    BY <1>2, <1>3
  <1>5. host' = host
    BY <1>4 DEF Closed
  <1>6. refcnt' \in [File -> Nat]
    <2>1. \A f \in File : refcnt'[f] \in Nat
      BY <1>2, <1>3
    <2> QED BY <2>1 DEF FileRefs
  <1>7. FilesTypeOK'
    BY <1>5, <1>6 DEF FilesTypeOK
  <1>8. DescriptorsHoldFiles'
    BY <1>4, <1>5 DEF DescriptorsHoldFiles, FreeFds
  <1>9. FilesHeldByReferences'
    <2> SUFFICES ASSUME NEW f \in File
                 PROVE  /\ refcnt'[f] = 0 =>
                              Cardinality(FdsOf(f)') + Cardinality(MapsOf(f)') + leaked'[f] = 0
                        /\ refcnt'[f] # 0 =>
                              /\ refcnt'[f] = 2 + (Cardinality(FdsOf(f)') + Cardinality(MapsOf(f)')
                                                     + leaked'[f])
                              /\ kfd'[f] \in host'
                              /\ \A h \in File \ {f} : refcnt'[h] # 0 => kfd'[h] # kfd'[f]
      BY DEF FilesHeldByReferences, FdsOf, MapsOf
    <2>1. FdsOf(f)' = FdsOf(f)
      BY DEF FdsOf
    <2>2. CASE refcnt[f] = 0
      BY <1>2, <2>1, <2>2
    <2>3. CASE refcnt[f] # 0
      <3>1. kfd'[f] \in host' /\ \A h \in File \ {f} : refcnt'[h] # 0 => kfd'[h] # kfd'[f]
        BY <1>4, <1>5, <2>3 DEF FilesHeldByReferences
      <3> QED BY <1>1, <1>3, <1>4, <2>1, <2>3, <3>1
    <2> QED BY <2>2, <2>3
  <1> QED BY <1>7, <1>8, <1>9 DEF FileInv

\* munmap, a shrinking break, a populated mapping or a fault drops entries only.
LEMMA UnmapFiles ==
    ASSUME TableTypes, VmrCountsPages, FileInv, NEW S \in SUBSET Page,
           vmr' = DecrefVmrs(S), refcnt' = FileRefs(S, 0), host' = host \ Closed(S, 0),
           UNCHANGED <<kfd, fds, leaked>>
    PROVE  FileInv'
  <1>1. 0 \notin File
    BY DEF File
  <1>2. ASSUME NEW f \in File
        PROVE  Cardinality(MapsOf(f)') + leaked'[f]
                 = Cardinality(MapsOf(f) \ Released(S, f)) + leaked[f] + (IF f = 0 THEN 1 ELSE 0)
    <2>1. MapsOf(f)' = {v \in Vmr : DecrefVmrs(S)[v].refcnt # 0 /\ DecrefVmrs(S)[v].file = f}
      BY DEF MapsOf
    <2>2. MapsOf(f)' = MapsOf(f) \ Released(S, f)
      BY <2>1, ReleasedMaps
    <2>3. MapsOf(f) \ Released(S, f) \in SUBSET Vmr /\ leaked[f] \in Nat
      BY VmAssumption DEF MapsOf, FileInv
    <2>4. Cardinality(MapsOf(f) \ Released(S, f)) \in Nat
      BY <2>3, HoldersFinite
    <2> QED BY <1>1, <2>2, <2>3, <2>4
  <1>3. leaked' \in [File -> 0 .. LEAKS]
    BY DEF FileInv
  <1> QED BY <1>2, <1>3, FileStep

\* A new region takes a reference to its file while the old ones give theirs back;
\* if the count of the region was cut to zero the reference is lost.
LEMMA MapFiles ==
    ASSUME TableTypes, VmrCountsPages, FileInv, FreeVmr # {}, NEW S \in SUBSET Page,
           NEW g \in File \cup {0}, g # 0 => refcnt[g] # 0,
           NEW r, r.refcnt = 0 => r.file = 0, r.refcnt # 0 => r.file = g,
           g # 0 /\ r.refcnt = 0 => leaked[g] < LEAKS,
           leaked' = [f \in File |-> IF f = g /\ r.refcnt = 0 THEN leaked[f] + 1 ELSE leaked[f]],
           vmr' = [DecrefVmrs(S) EXCEPT ![Min(FreeVmr)] = r],
           refcnt' = FileRefs(S, g), host' = host \ Closed(S, g),
           UNCHANGED <<kfd, fds>>
    PROVE  FileInv'
  <1> DEFINE v == Min(FreeVmr)
  <1>1. v \in Vmr /\ vmr[v].refcnt = 0
    BY FreeRegion
  <1>2. vmr' = [DecrefVmrs(S) EXCEPT ![v] = r]
    OBVIOUS
  <1> HIDE DEF v
  <1>3. \A f \in File : v \notin MapsOf(f)
    BY <1>1 DEF MapsOf
  <1>4. vmr'[v] = r /\ \A w \in Vmr : w # v => vmr'[w] = DecrefVmrs(S)[w]
    BY <1>1, <1>2, DecrefType
  <1>5. leaked \in [File -> 0 .. LEAKS] /\ LEAKS \in Nat /\ 0 \notin File
    BY VmAssumption DEF FileInv, File
  <1>6. leaked' \in [File -> 0 .. LEAKS]
    BY <1>5
  <1>7. ASSUME NEW f \in File
        PROVE  Cardinality(MapsOf(f)') + leaked'[f]
                 = Cardinality(MapsOf(f) \ Released(S, f)) + leaked[f] + (IF f = g THEN 1 ELSE 0)
    <2> DEFINE D == MapsOf(f) \ Released(S, f)
    <2>1. D = {w \in Vmr : DecrefVmrs(S)[w].refcnt # 0 /\ DecrefVmrs(S)[w].file = f}
      BY ReleasedMaps
    <2>2. v \notin D /\ D \in SUBSET Vmr
      BY <1>3 DEF MapsOf
    <2>3. MapsOf(f)' = {w \in Vmr : vmr'[w].refcnt # 0 /\ vmr'[w].file = f}
      BY DEF MapsOf
    <2>4. \A w \in Vmr : w # v => (w \in D <=> w \in MapsOf(f)')
      BY <1>4, <2>1, <2>3
    <2>5. v \in MapsOf(f)' <=> f = g /\ r.refcnt # 0
      BY <1>1, <1>4, <1>5, <2>3
    <2>6. MapsOf(f)' \subseteq Vmr
      BY <2>3
    <2> HIDE DEF D
    <2>7. MapsOf(f)' = D \cup (IF f = g /\ r.refcnt # 0 THEN {v} ELSE {})
      BY <1>1, <2>2, <2>4, <2>5, <2>6
    <2>8. IsFiniteSet(D) /\ Cardinality(D) \in Nat
      BY <2>2, HoldersFinite
    <2>9. Cardinality(MapsOf(f)') = Cardinality(D) + (IF f = g /\ r.refcnt # 0 THEN 1 ELSE 0)
      <3>1. Cardinality(D \cup {v}) = Cardinality(D) + 1
        BY <2>2, <2>8, FS_AddElement
      <3>2. CASE f = g /\ r.refcnt # 0
        <4>1. MapsOf(f)' = D \cup {v}
          BY <2>7, <3>2
        <4> QED BY <3>1, <3>2, <4>1
      <3>3. CASE ~(f = g /\ r.refcnt # 0)
        <4>1. MapsOf(f)' = D
          BY <2>7, <3>3
        <4> QED BY <2>8, <3>3, <4>1
      <3> QED BY <3>2, <3>3
    <2>10. leaked[f] \in Nat /\ leaked'[f] = IF f = g /\ r.refcnt = 0 THEN leaked[f] + 1 ELSE leaked[f]
      BY <1>5
    <2> QED BY <2>8, <2>9, <2>10 DEF D
  <1> QED BY <1>6, <1>7, FileStep

\* A region without a file takes no reference.
LEMMA HeapFiles ==
    ASSUME TableTypes, VmrCountsPages, FileInv, FreeVmr # {}, NEW S \in SUBSET Page,
           NEW first, NEW len, NEW prot, MapRegion(S, first, len, 0, 0, prot),
           UNCHANGED <<kfd, fds>>
    PROVE  FileInv'
  <1> DEFINE r == Region(first, len, 0, 0, prot)
             g == 0
  <1>1. r.file = 0
    BY DEF Region, NoRegion
  <1>2. /\ vmr' = [DecrefVmrs(S) EXCEPT ![Min(FreeVmr)] = r]
        /\ refcnt' = FileRefs(S, g) /\ host' = host \ Closed(S, g)
        /\ leaked' = [f \in File |-> IF f = g /\ Leaks(len, g) THEN leaked[f] + 1 ELSE leaked[f]]
    BY DEF MapRegion
  <1>3. leaked' = [f \in File |-> IF f = g /\ r.refcnt = 0 THEN leaked[f] + 1 ELSE leaked[f]]
    BY <1>2 DEF File
  <1>4. g \in File \cup {0} /\ (g # 0 => refcnt[g] # 0)
    OBVIOUS
  <1>5. /\ r.refcnt = 0 => r.file = 0
        /\ r.refcnt # 0 => r.file = g
        /\ g # 0 /\ r.refcnt = 0 => leaked[g] < LEAKS
    BY <1>1
  <1> HIDE DEF r, g
  <1> QED BY <1>2, <1>3, <1>4, <1>5, MapFiles, ZenonT(60)

\* Steps that leave the file table and who maps what alone.
LEMMA SameFiles ==
    ASSUME FileInv, UNCHANGED <<fileVars, leaked>>,
           \A v \in Vmr : vmr'[v].refcnt = vmr[v].refcnt /\ vmr'[v].file = vmr[v].file
    PROVE  FileInv'
  <1>1. UNCHANGED <<refcnt, kfd, fds, host, leaked>>
    BY DEF fileVars
  <1>2. FilesTypeOK' /\ DescriptorsHoldFiles' /\ leaked' \in [File -> 0 .. LEAKS]
    BY <1>1 DEF FileInv, FilesTypeOK, DescriptorsHoldFiles, FreeFds
  <1>3. \A f \in File : {v \in Vmr : vmr'[v].refcnt # 0 /\ vmr'[v].file = f}
                          = {v \in Vmr : vmr[v].refcnt # 0 /\ vmr[v].file = f}
    OBVIOUS
  <1>4. FilesHeldByReferences'
    BY <1>1, <1>3 DEF FileInv, FilesHeldByReferences
  <1> QED BY <1>2, <1>4 DEF FileInv

\* sys_open: a free entry and the first free descriptor, and a host descriptor
\* no file in use has.
LEMMA OpenFiles ==
    ASSUME FileInv, SysOpen, UNCHANGED <<vmr, leaked>>
    PROVE  FileInv'
  <1> FilesTypeOK /\ FilesHeldByReferences /\ DescriptorsHoldFiles
    BY DEF FileInv
  <1>0. leaked' \in [File -> 0 .. LEAKS] /\ LEAKS \in Nat
    BY VmAssumption DEF FileInv
  <1> DEFINE f == Min(FreeFiles)
  <1>1. FreeFiles # {} /\ FreeFiles \subseteq Nat
    BY FilesAssumption DEF SysOpen, OpenRefused, OpenGranted, FreeFiles, File
  <1>2. f \in File /\ refcnt[f] = 0 /\ kfd[f] \notin host
    <2>1. f \in FreeFiles
      BY <1>1, MinIn
    <2> QED BY <2>1 DEF FreeFiles, DescriptorsHoldFiles
  <1>3. CASE OpenRefused
    <2>1. host' = host \ {kfd[f]} /\ UNCHANGED <<refcnt, kfd, fds>>
      BY <1>3 DEF OpenRefused
    <2>2. host' = host
      BY <1>2, <2>1
    <2> QED BY <2>1, <2>2, SameFiles DEF fileVars
  <1>4. CASE OpenGranted
    <2>1. PICK k \in Kfd \ host :
            /\ kfd' = [kfd EXCEPT ![f] = k]
            /\ \/ /\ FreeFds # {}
                  /\ fds' = [fds EXCEPT ![Min(FreeFds)] = f]
                  /\ refcnt' = [refcnt EXCEPT ![f] = 3]
                  /\ host' = host \cup {k}
               \/ FreeFds = {} /\ UNCHANGED <<fds, refcnt, host>>
      BY <1>4 DEF OpenGranted
    <2> HIDE DEF f
    <2>2. kfd'[f] = k /\ \A g \in File : g # f => kfd'[g] = kfd[g]
      BY <1>2, <2>1 DEF FilesTypeOK
    <2>3. kfd' \in [File -> Kfd \cup {NoKfd}]
      BY <1>2, <2>1 DEF FilesTypeOK
    <2>4. \A g \in File : refcnt[g] # 0 => kfd[g] \in host /\ kfd[g] # k /\ g # f
      BY <1>2 DEF FilesHeldByReferences
    <2>5. CASE FreeFds = {} /\ UNCHANGED <<fds, refcnt, host>>
      <3>1. FilesTypeOK'
        BY <2>3, <2>5 DEF FilesTypeOK
      <3>2. DescriptorsHoldFiles'
        BY <2>2, <2>5 DEF DescriptorsHoldFiles, FreeFds
      <3>3. FilesHeldByReferences'
        BY <2>2, <2>4, <2>5 DEF FilesHeldByReferences
      <3> QED BY <1>0, <3>1, <3>2, <3>3 DEF FileInv
    <2>6. CASE /\ FreeFds # {} /\ fds' = [fds EXCEPT ![Min(FreeFds)] = f]
               /\ refcnt' = [refcnt EXCEPT ![f] = 3] /\ host' = host \cup {k}
      <3> DEFINE d == Min(FreeFds)
      <3>1. d \in Fd /\ fds[d] = 0
        <4>1. FreeFds \subseteq Nat
          BY FilesAssumption DEF FreeFds, Fd
        <4>2. d \in FreeFds
          BY <2>6, <4>1, MinIn
        <4> QED BY <4>2 DEF FreeFds
      <3>2. /\ fds' = [fds EXCEPT ![d] = f] /\ refcnt' = [refcnt EXCEPT ![f] = 3]
            /\ host' = host \cup {k}
        BY <2>6
      <3> HIDE DEF d
      <3>3. FilesTypeOK'
        BY <1>2, <2>3, <3>1, <3>2 DEF FilesTypeOK
      <3>4. /\ fds'[d] = f /\ \A e \in Fd : e # d => fds'[e] = fds[e]
            /\ refcnt'[f] = 3 /\ \A g \in File : g # f => refcnt'[g] = refcnt[g]
        BY <1>2, <3>1, <3>2 DEF FilesTypeOK
      <3>5. 0 \notin File /\ NoKfd \notin Kfd
        BY FilesAssumption DEF File, NoKfd, Kfd
      <3>6. DescriptorsHoldFiles'
        <4> SUFFICES ASSUME NEW g \in File
                     PROVE  /\ refcnt'[g] # 0 => \E e \in Fd : fds'[e] = g
                            /\ refcnt'[g] = 0 => kfd'[g] \notin host' /\ kfd'[g] = NoKfd
          BY DEF DescriptorsHoldFiles
        <4>1. CASE g = f
          BY <3>1, <3>4, <4>1
        <4>2. CASE g # f
          <5>1. refcnt[g] # 0 => \E e \in Fd : fds'[e] = g
            BY <3>1, <3>4, <3>5 DEF DescriptorsHoldFiles
          <5>2. refcnt[g] = 0 => kfd[g] \notin host /\ kfd[g] = NoKfd
            BY <2>6 DEF DescriptorsHoldFiles
          <5> QED BY <2>2, <3>2, <3>4, <3>5, <4>2, <5>1, <5>2
        <4> QED BY <4>1, <4>2
      <3>7. FilesHeldByReferences'
        <4> SUFFICES ASSUME NEW g \in File
                     PROVE  /\ refcnt'[g] = 0 =>
                                  Cardinality(FdsOf(g)') + Cardinality(MapsOf(g)') + leaked'[g] = 0
                            /\ refcnt'[g] # 0 =>
                                  /\ refcnt'[g] = 2 + (Cardinality(FdsOf(g)') + Cardinality(MapsOf(g)')
                                                         + leaked'[g])
                                  /\ kfd'[g] \in host'
                                  /\ \A h \in File \ {g} : refcnt'[h] # 0 => kfd'[h] # kfd'[g]
          BY DEF FilesHeldByReferences, FdsOf, MapsOf
        <4>1. MapsOf(g)' = MapsOf(g) /\ leaked'[g] = leaked[g] /\ leaked[g] \in Nat
          BY <1>0 DEF MapsOf
        <4>2. /\ refcnt[g] = 0 => Cardinality(FdsOf(g)) + Cardinality(MapsOf(g)) + leaked[g] = 0
              /\ refcnt[g] # 0 => refcnt[g] = 2 + (Cardinality(FdsOf(g)) + Cardinality(MapsOf(g))
                                                     + leaked[g])
          BY DEF FilesHeldByReferences, FdsOf, MapsOf
        <4>3. FdsOf(g) \in SUBSET Fd /\ MapsOf(g) \in SUBSET Vmr
          BY DEF FdsOf, MapsOf
        <4>4. Cardinality(FdsOf(g)) \in Nat /\ Cardinality(MapsOf(g)) \in Nat
          BY <4>3, HoldersFinite
        <4>5. refcnt'[g] # 0 => /\ kfd'[g] \in host'
                                /\ \A h \in File \ {g} : refcnt'[h] # 0 => kfd'[h] # kfd'[g]
          <5>1. \A a, b \in File : a # b /\ refcnt[a] # 0 /\ refcnt[b] # 0 => kfd[a] # kfd[b]
            BY DEF FilesHeldByReferences
          <5>2. k \in host' /\ host \subseteq host'
            BY <3>2
          <5>3. \A a \in File : refcnt'[a] # 0 => \/ a = f /\ kfd'[a] = k
                                                  \/ /\ a # f /\ refcnt[a] # 0 /\ kfd'[a] = kfd[a]
                                                     /\ kfd[a] # k /\ kfd[a] \in host
            BY <2>2, <2>4, <3>4
          <5> QED BY <5>1, <5>2, <5>3
        <4>6. CASE g = f
          <5>1. Cardinality(FdsOf(g)) = 0 /\ Cardinality(MapsOf(g)) = 0 /\ leaked[g] = 0
            BY <1>2, <4>1, <4>2, <4>4, <4>6
          <5>2. FdsOf(g) = {}
            BY <4>3, <5>1, HoldersFinite, FS_EmptySet
          <5>3. FdsOf(g)' = {d}
            BY <3>1, <3>4, <4>6, <5>2 DEF FdsOf
          <5>4. Cardinality(FdsOf(g)') = 1
            BY <5>3, FS_Singleton
          <5> QED BY <3>4, <4>1, <4>5, <4>6, <5>1, <5>4
        <4>7. CASE g # f
          <5>1. FdsOf(g)' = FdsOf(g)
            BY <3>1, <3>4, <3>5, <4>7 DEF FdsOf
          <5> QED BY <3>4, <4>1, <4>2, <4>5, <4>7, <5>1
        <4> QED BY <4>6, <4>7
      <3> QED BY <1>0, <3>3, <3>6, <3>7 DEF FileInv
    <2> QED BY <2>1, <2>5, <2>6
  <1> QED BY <1>3, <1>4 DEF SysOpen
-----------------------------------------------------------------------------
(* The search of __vm_alloc.                                                *)

\* Where the search for n pages ends, and the last page of a mapping from page a.
End(n) == (NPAGE - n) % MPAGES
Last(a, n) == (a + n - 1) % MPAGES

\* The places from a upwards where n pages are free, and the last pages of the
\* mappings from a free page that wrap.
Rooms(a, n) == {b \in a .. End(n) : b + n <= MPAGES /\ \A c \in b .. b + n - 1 : Avail(Walk(c))}
Wraps(a, n) == {b + n - 1 - MPAGES : b \in {c \in a .. End(n) : ~(c + n <= MPAGES) /\ Avail(Walk(c))}}

\* The right answer of a search from a upwards.
Good(x, a, n) == IF Rooms(a, n) # {} THEN x = Min(Rooms(a, n)) ELSE x \in Wraps(a, n) \cup {0}

\* One round of the outer loop at page a, with the answers f of the later ones.
Taken(a, n) == {b \in a + 1 .. Last(a, n) : ~Avail(Walk(b))}
Round(f, a, n) ==
    IF a > End(n) THEN 0
    ELSE IF ~Avail(Walk(a)) THEN f[a + 1]
    ELSE IF Last(a, n) < a THEN Last(a, n)
    ELSE IF Taken(a, n) = {} THEN a
    ELSE f[Max(Taken(a, n)) + 1]

LEMMA AllocIsScan ==
    ASSUME NEW n
    PROVE  VmAlloc(n) = (CHOOSE f : f = [a \in 0 .. MPAGES |-> Round(f, a, n)])[brk \div PGSIZE]
  BY DEF VmAlloc, Round, Taken, Last, End

\* A number of pages below zero wraps, and so does a last page.
LEMMA EndAndLast ==
    ASSUME NEW n \in 1 .. MPAGES
    PROVE  /\ End(n) \in 0 .. MPAGES - 1
           /\ \A a \in 0 .. MPAGES - 1 :
                /\ a + n <= MPAGES => Last(a, n) = a + n - 1 /\ a <= Last(a, n)
                /\ ~(a + n <= MPAGES) => Last(a, n) = a + n - 1 - MPAGES /\ Last(a, n) < a
                /\ Last(a, n) \in 0 .. MPAGES - 1
  <1> USE Constants
  <1>1. End(n) \in 0 .. MPAGES - 1
    BY DEF End
  <1>2. ASSUME NEW a \in 0 .. MPAGES - 1
        PROVE  Last(a, n) = IF a + n <= MPAGES THEN a + n - 1 ELSE a + n - 1 - MPAGES
    <2> DEFINE x == a + n - 1
    <2>1. x \in Nat /\ x < 2 * MPAGES /\ (x < MPAGES <=> a + n <= MPAGES)
      OBVIOUS
    <2> HIDE DEF x
    <2>2. x % MPAGES = IF x < MPAGES THEN x ELSE x - MPAGES
      BY <2>1, WrapOnce, Zenon
    <2> QED BY <2>1, <2>2 DEF Last, x
  <1> QED BY <1>1, <1>2

\* The greatest element of a bounded set of naturals is one of its elements.
LEMMA MaxIn ==
    ASSUME NEW N \in Nat, NEW S \in SUBSET (0 .. N), S # {}
    PROVE  Max(S) \in S /\ \A y \in S : Max(S) >= y
  <1> DEFINE T == {N - x : x \in S}
  <1>1. T \in SUBSET Nat /\ T # {}
    <2>1. \A x \in S : N - x \in Nat
      OBVIOUS
    <2>2. PICK x \in S : TRUE
      OBVIOUS
    <2>3. N - x \in T
      BY <2>2
    <2> QED BY <2>1, <2>3
  <1>2. PICK m \in T : \A y \in T : m <= y
    BY <1>1, MinIn
  <1>3. PICK x \in S : m = N - x
    OBVIOUS
  <1>4. \A y \in S : N - x <= N - y
    BY <1>2, <1>3
  <1>5. \A y \in S : x >= y
    BY <1>4
  <1> QED BY <1>5 DEF Max

\* A page Max(Taken) is one that stops the inner loop.
LEMMA TakenMax ==
    ASSUME NEW n \in 1 .. MPAGES, NEW a \in 0 .. MPAGES - 1, Taken(a, n) # {}
    PROVE  /\ Max(Taken(a, n)) \in a + 1 .. Last(a, n) /\ ~Avail(Walk(Max(Taken(a, n))))
           /\ Max(Taken(a, n)) + 1 \in a + 1 .. MPAGES
  <1> USE Constants
  <1>1. Last(a, n) \in 0 .. MPAGES - 1
    BY EndAndLast
  <1>2. Taken(a, n) \in SUBSET (0 .. MPAGES)
    BY <1>1 DEF Taken
  <1>3. Max(Taken(a, n)) \in Taken(a, n)
    BY <1>2, MaxIn
  <1> QED BY <1>1, <1>3 DEF Taken

\* A round asks for the answers of later ones only.
LEMMA RoundLooksUp ==
    ASSUME NEW n \in 1 .. MPAGES, NEW a \in 0 .. MPAGES, NEW f, NEW g,
           \A b \in a + 1 .. MPAGES : f[b] = g[b]
    PROVE  Round(f, a, n) = Round(g, a, n)
  <1> USE Constants
  <1>1. End(n) \in 0 .. MPAGES - 1
    BY EndAndLast
  <1>2. CASE a > End(n)
    BY <1>2 DEF Round
  <1>3. CASE ~(a > End(n))
    <2>1. a \in 0 .. MPAGES - 1 /\ f[a + 1] = g[a + 1]
      BY <1>1, <1>3
    <2>2. Taken(a, n) # {} => f[Max(Taken(a, n)) + 1] = g[Max(Taken(a, n)) + 1]
      BY <2>1, TakenMax
    <2> QED BY <2>1, <2>2 DEF Round
  <1> QED BY <1>2, <1>3

\* The answer of a search from b is that of one from a, if no room lies between.
LEMMA GoodLater ==
    ASSUME NEW n \in 1 .. MPAGES, NEW a \in Nat, NEW b \in Nat, a <= b,
           Rooms(a, n) = Rooms(b, n), NEW x, Good(x, b, n)
    PROVE  Good(x, a, n)
  <1>1. Wraps(b, n) \subseteq Wraps(a, n)
    <2>1. End(n) \in Nat
      BY EndAndLast, Constants
    <2>2. \A c \in b .. End(n) : c \in a .. End(n)
      BY <2>1
    <2> QED BY <2>2 DEF Wraps
  <1> QED BY <1>1 DEF Good

\* Each round gives a right answer, if the later ones do.
LEMMA RoundIsGood ==
    ASSUME NEW n \in 1 .. MPAGES, NEW a \in 0 .. MPAGES, NEW f,
           \A b \in a + 1 .. MPAGES : Good(f[b], b, n)
    PROVE  Good(Round(f, a, n), a, n)
  <1> USE Constants
  <1>1. End(n) \in 0 .. MPAGES - 1 /\ n \in Nat \ {0} /\ a \in Nat
    BY EndAndLast, SMTT(30)
  <1>2. CASE a > End(n)
    <2>1. Rooms(a, n) = {}
      BY <1>1, <1>2 DEF Rooms
    <2> QED BY <1>2, <2>1 DEF Round, Good
  <1>3. CASE a <= End(n) /\ ~Avail(Walk(a))
    <2>1. a \notin Rooms(a, n)
      <3>1. a \in a .. a + n - 1
        BY <1>1
      <3> QED BY <1>3, <3>1 DEF Rooms
    <2>2. Rooms(a, n) = Rooms(a + 1, n)
      <3>1. \A b \in Rooms(a, n) : b # a
        BY <2>1
      <3> QED BY <1>1, <3>1 DEF Rooms
    <2>3. Good(f[a + 1], a + 1, n)
      BY <1>1, <1>3
    <2>4. Round(f, a, n) = f[a + 1]
      BY <1>1, <1>3 DEF Round
    <2> QED BY <1>1, <2>2, <2>3, <2>4, GoodLater
  <1>4. CASE a <= End(n) /\ Avail(Walk(a)) /\ ~(a + n <= MPAGES)
    <2>1. Last(a, n) = a + n - 1 - MPAGES /\ Last(a, n) < a
      <3>1. a \in 0 .. MPAGES - 1 /\ ~(a + n <= MPAGES)
        BY <1>1, <1>4
      <3> QED BY <3>1, EndAndLast, Zenon
    <2>2. Rooms(a, n) = {}
      BY <1>1, <1>4 DEF Rooms
    <2>3. a + n - 1 - MPAGES \in Wraps(a, n)
      <3>1. a \in {c \in a .. End(n) : ~(c + n <= MPAGES) /\ Avail(Walk(c))}
        BY <1>1, <1>4
      <3> QED BY <3>1 DEF Wraps
    <2>4. Round(f, a, n) = Last(a, n)
      BY <1>1, <1>4, <2>1 DEF Round
    <2> QED BY <2>1, <2>2, <2>3, <2>4 DEF Good
  <1>5. CASE a <= End(n) /\ Avail(Walk(a)) /\ a + n <= MPAGES
    <2>1. Last(a, n) = a + n - 1 /\ ~(Last(a, n) < a) /\ a \in 0 .. MPAGES - 1
      <3>1. a \in 0 .. MPAGES - 1 /\ a + n <= MPAGES
        BY <1>1, <1>5
      <3>2. Last(a, n) = a + n - 1
        BY <3>1, EndAndLast, Zenon
      <3> QED BY <1>1, <3>1, <3>2
    <2>2. CASE Taken(a, n) = {}
      <3>1. \A c \in a .. a + n - 1 : Avail(Walk(c))
        <4>1. \A c \in a + 1 .. a + n - 1 : Avail(Walk(c))
          BY <2>1, <2>2 DEF Taken
        <4>2. \A c \in a .. a + n - 1 : c = a \/ c \in a + 1 .. a + n - 1
          BY <1>1
        <4> QED BY <1>5, <4>1, <4>2
      <3>2. a \in Rooms(a, n) /\ \A b \in Rooms(a, n) : a <= b
        BY <1>1, <1>5, <3>1 DEF Rooms
      <3>3. Rooms(a, n) \in SUBSET Nat
        BY <1>1 DEF Rooms
      <3>4. Min(Rooms(a, n)) \in Rooms(a, n) /\ Min(Rooms(a, n)) <= a
        BY <3>2, <3>3, MinIn
      <3>5. Min(Rooms(a, n)) = a
        BY <1>1, <3>2, <3>3, <3>4
      <3>6. Round(f, a, n) = a
        BY <1>1, <1>5, <2>1, <2>2 DEF Round
      <3> QED BY <3>2, <3>5, <3>6 DEF Good
    <2>3. CASE Taken(a, n) # {}
      <3> DEFINE m == Max(Taken(a, n))
      <3>1. m \in a + 1 .. a + n - 1 /\ ~Avail(Walk(m)) /\ m + 1 \in a + 1 .. MPAGES
        BY <2>1, <2>3, TakenMax
      <3>2. Round(f, a, n) = f[m + 1]
        BY <1>1, <1>5, <2>1, <2>3 DEF Round
      <3> HIDE DEF m
      <3>3. ASSUME NEW b \in Rooms(a, n) PROVE b >= m + 1
        <4>1. b \in a .. End(n) /\ \A c \in b .. b + n - 1 : Avail(Walk(c))
          BY DEF Rooms
        <4>2. m \notin b .. b + n - 1
          BY <3>1, <4>1
        <4> QED BY <1>1, <3>1, <4>1, <4>2
      <3>4. Rooms(a, n) = Rooms(m + 1, n)
        BY <1>1, <3>1, <3>3 DEF Rooms
      <3>5. Good(f[m + 1], m + 1, n)
        BY <3>1
      <3>6. m + 1 \in Nat /\ a <= m + 1
        BY <1>1, <3>1
      <3> QED BY <1>1, <3>2, <3>4, <3>5, <3>6, GoodLater
    <2> QED BY <2>2, <2>3
  <1> QED BY <1>1, <1>2, <1>3, <1>4, <1>5

\* The rounds of the last k pages can be answered: those of one page more, too.
Scanned(k, n) == \E f : f = [a \in MPAGES - k .. MPAGES |-> Round(f, a, n)]

LEMMA ScanNone ==
    ASSUME NEW n \in 1 .. MPAGES
    PROVE  Scanned(0, n)
  <1> USE Constants
  <1> DEFINE f == [a \in MPAGES - 0 .. MPAGES |-> 0]
  <1>1. End(n) \in 0 .. MPAGES - 1
    BY EndAndLast
  <1>2. ASSUME NEW a \in MPAGES - 0 .. MPAGES PROVE Round(f, a, n) = 0
    <2>1. a > End(n)
      BY <1>1
    <2> QED BY <2>1 DEF Round
  <1>3. f = [a \in MPAGES - 0 .. MPAGES |-> Round(f, a, n)]
    <2> HIDE DEF f
    <2>1. f = [a \in MPAGES - 0 .. MPAGES |-> 0]
      BY DEF f
    <2> QED BY <1>2, <2>1
  <1> QED BY <1>3 DEF Scanned

LEMMA ScanOneMore ==
    ASSUME NEW n \in 1 .. MPAGES, NEW k \in Nat, k + 1 <= MPAGES, Scanned(k, n)
    PROVE  Scanned(k + 1, n)
  <1> USE Constants
  <1> DEFINE D == MPAGES - k .. MPAGES
             E == MPAGES - (k + 1) .. MPAGES
             c == MPAGES - (k + 1)
  <1>1. PICK f : f = [a \in D |-> Round(f, a, n)]
    BY DEF Scanned
  <1> DEFINE g == [a \in E |-> IF a = c THEN Round(f, c, n) ELSE f[a]]
  <1>2. c \in E /\ D \subseteq E /\ (\A a \in E : a = c \/ a \in D) /\ c \notin D
          /\ E \subseteq 0 .. MPAGES
    OBVIOUS
  <1> HIDE DEF c
  <1>3. \A a \in D : g[a] = f[a]
    BY <1>2
  <1>4. g[c] = Round(f, c, n)
    BY <1>2
  <1> HIDE DEF g
  <1>5. ASSUME NEW a \in E PROVE g[a] = Round(g, a, n)
    <2>1. \A b \in a + 1 .. MPAGES : f[b] = g[b]
      <3>1. \A b \in a + 1 .. MPAGES : b \in D
        BY DEF c
      <3> QED BY <1>3, <3>1
    <2>2. Round(f, a, n) = Round(g, a, n)
      <3>1. a \in 0 .. MPAGES
        BY <1>2
      <3> QED BY <2>1, <3>1, RoundLooksUp
    <2>3. CASE a = c
      BY <1>4, <2>2, <2>3
    <2>4. CASE a \in D
      <3>1. f[a] = Round(f, a, n)
        BY <1>1, <2>4, Zenon
      <3> QED BY <1>3, <2>2, <2>4, <3>1
    <2> QED BY <1>2, <2>3, <2>4
  <1>6. g = [a \in E |-> g[a]]
    BY DEF g
  <1>7. g = [a \in E |-> Round(g, a, n)]
    BY <1>5, <1>6, Zenon
  <1> QED BY <1>7 DEF Scanned

\* The search of mmap finds the lowest room at or above the break; if there is
\* none, it fails or answers with a last page that wrapped.
LEMMA AllocIsGood ==
    ASSUME brk \in 0 .. mmap_max, NEW n \in 1 .. MPAGES
    PROVE  Good(VmAlloc(n), brk \div PGSIZE, n)
  <1> USE Constants
  <1> DEFINE D == 0 .. MPAGES
             h == CHOOSE f : f = [a \in D |-> Round(f, a, n)]
             stuck == {k \in Nat : k <= MPAGES /\ ~Scanned(k, n)}
  <1>1. stuck = {}
    <2> SUFFICES ASSUME stuck # {} PROVE FALSE
      OBVIOUS
    <2>1. Min(stuck) \in stuck /\ \A y \in stuck : Min(stuck) <= y
      BY MinIn
    <2> DEFINE k == Min(stuck)
    <2>2. k \in Nat /\ k <= MPAGES /\ ~Scanned(k, n) /\ \A y \in stuck : k <= y
      BY <2>1
    <2> HIDE DEF k
    <2>3. k # 0
      BY <2>2, ScanNone
    <2>4. k - 1 \in Nat /\ k - 1 <= MPAGES /\ k - 1 \notin stuck
      BY <2>2, <2>3
    <2>5. Scanned(k - 1, n)
      BY <2>4
    <2>6. Scanned((k - 1) + 1, n)
      BY <2>2, <2>4, <2>5, ScanOneMore
    <2>7. (k - 1) + 1 = k
      BY <2>2
    <2> QED BY <2>2, <2>6, <2>7
  <1>2. Scanned(MPAGES, n)
    BY <1>1
  <1>3. \E f : f = [a \in D |-> Round(f, a, n)]
    <2>1. MPAGES - MPAGES = 0
      OBVIOUS
    <2> QED BY <1>2, <2>1 DEF Scanned
  <1>4. h = [a \in D |-> Round(h, a, n)]
    BY <1>3, Zenon
  <1> HIDE DEF h, stuck
  <1> DEFINE bad == {k \in Nat : \E a \in D : k = MPAGES - a /\ ~Good(h[a], a, n)}
  <1>5. bad = {}
    <2> SUFFICES ASSUME bad # {} PROVE FALSE
      OBVIOUS
    <2>1. Min(bad) \in bad /\ \A y \in bad : Min(bad) <= y
      BY MinIn
    <2>2. PICK a \in D : Min(bad) = MPAGES - a /\ ~Good(h[a], a, n)
      BY <2>1
    <2>3. ASSUME NEW b \in a + 1 .. MPAGES PROVE Good(h[b], b, n)
      <3>1. b \in D /\ MPAGES - b \in Nat /\ MPAGES - b < MPAGES - a
        OBVIOUS
      <3>2. MPAGES - b \notin bad
        BY <2>1, <2>2, <3>1
      <3> QED BY <3>1, <3>2
    <2>4. Good(Round(h, a, n), a, n)
      BY <2>3, RoundIsGood
    <2>5. h[a] = Round(h, a, n)
      BY <1>4, Zenon
    <2> QED BY <2>2, <2>4, <2>5
  <1>6. \A a \in D : Good(h[a], a, n)
    <2> SUFFICES ASSUME NEW a \in D, ~Good(h[a], a, n) PROVE FALSE
      OBVIOUS
    <2>1. MPAGES - a \in bad
      OBVIOUS
    <2> QED BY <1>5, <2>1
  <1>7. brk \div PGSIZE \in D
    <2>1. brk \in Nat /\ brk \div PGSIZE \in Nat /\ (brk \div PGSIZE) * PGSIZE <= NPAGE * PGSIZE
      BY PageOf DEF mmap_max
    <2>2. brk \div PGSIZE <= NPAGE
      BY <2>1, PageOrder
    <2> QED BY <2>1, <2>2
  <1>8. VmAlloc(n) = h[brk \div PGSIZE]
    BY AllocIsScan DEF h
  <1> QED BY <1>6, <1>7, <1>8

\* Whatever the search answers is a page of the address space.
LEMMA AllocType ==
    ASSUME brk \in 0 .. mmap_max, NEW n \in 1 .. MPAGES
    PROVE  VmAlloc(n) \in 0 .. MPAGES - 1
  <1> USE Constants
  <1> DEFINE b == brk \div PGSIZE
  <1>1. b \in Nat
    <2>1. brk \in Nat
      BY Word
    <2> QED BY <2>1, PageOf
  <1>2. Good(VmAlloc(n), b, n) /\ End(n) \in 0 .. MPAGES - 1
    BY AllocIsGood, EndAndLast
  <1> HIDE DEF b
  <1>3. Rooms(b, n) # {} => Min(Rooms(b, n)) \in 0 .. MPAGES - 1
    <2>1. Rooms(b, n) \in SUBSET (0 .. MPAGES - 1)
      BY <1>1, <1>2 DEF Rooms
    <2>2. Rooms(b, n) # {} => Min(Rooms(b, n)) \in Rooms(b, n)
      BY <2>1, MinIn
    <2> QED BY <2>1, <2>2
  <1>4. \A x \in Wraps(b, n) : x \in 0 .. MPAGES - 1
    BY <1>1, <1>2 DEF Wraps
  <1> QED BY <1>2, <1>3, <1>4 DEF Good

-----------------------------------------------------------------------------
(* The break.                                                               *)

\* Where the heap ends, and where do_brk would have it end.
OldBrk == IF brk = 0 THEN Roundup(BRK_MIN) ELSE brk
BrkFor(addr) == CASE addr < BRK_MIN -> BRK_MIN
                  [] addr >= BRK_MIN /\ addr > brk_max -> brk_max
                  [] OTHER -> addr

\* The break and the lowest mapping lie on page boundaries, and as long as all
\* mappings lay above the program, only the stack is between them.
BreakInv ==
    /\ \E q \in 0 .. NPAGE : brk = q * PGSIZE
    /\ \E q \in 0 .. NPAGE : brk_max = q * PGSIZE
    /\ brk_max > BRK_MIN =>
         \A p \in UserPage : ~Avail(p) /\ OldBrk <= p * PGSIZE =>
             brk_max <= p * PGSIZE \/ p >= NPAGE - STACK

LEMMA Sizes ==
    /\ PGSIZE \in Nat \ {0} /\ NPAGE \in Nat \ {0} /\ BRK_MIN \in Nat \ {0} /\ STACK \in Nat
    /\ mmap_max \in Nat /\ mmap_max = NPAGE * PGSIZE /\ BRK_MIN <= mmap_max
    /\ UserPage \subseteq Page /\ Page \subseteq Nat /\ UserPage \subseteq 0 .. NPAGE
    /\ \A q \in 0 .. NPAGE : q * PGSIZE \in 0 .. mmap_max
  <1>1. /\ PGSIZE \in Nat \ {0} /\ NPAGE \in Nat \ {0} /\ STACK \in 1 .. NPAGE - 1
        /\ ELF \in 1 .. NPAGE - STACK - 1
        /\ BRK_MIN \in (ELF * PGSIZE) + 1 .. (NPAGE - STACK) * PGSIZE
    BY VmAssumption
  <1>2. mmap_max \in Nat /\ mmap_max = NPAGE * PGSIZE
    BY <1>1 DEF mmap_max
  <1>3. ELF * PGSIZE \in Nat /\ (NPAGE - STACK) * PGSIZE <= NPAGE * PGSIZE
    <2>1. ELF \in Nat /\ NPAGE - STACK \in Int /\ NPAGE - STACK <= NPAGE
      BY <1>1
    <2>2. (NPAGE - STACK) * PGSIZE <= NPAGE * PGSIZE
      BY <1>1, <2>1, PageOrder
    <2> QED BY <1>1, <2>1, <2>2
  <1>4. (NPAGE - STACK) * PGSIZE \in Int
    BY <1>1
  <1>5. BRK_MIN \in Nat \ {0} /\ BRK_MIN <= mmap_max
    BY <1>1, <1>2, <1>3, <1>4
  <1>6. UserPage \subseteq Page /\ Page \subseteq Nat /\ UserPage \subseteq 0 .. NPAGE
    BY <1>1, Constants DEF UserPage
  <1>7. ASSUME NEW q \in 0 .. NPAGE PROVE q * PGSIZE \in 0 .. mmap_max
    <2>1. q \in Nat /\ q <= NPAGE
      BY <1>1
    <2>2. q * PGSIZE <= NPAGE * PGSIZE /\ 0 * PGSIZE <= q * PGSIZE
      BY <1>1, <2>1, PageOrder
    <2> QED BY <1>1, <1>2, <2>1, <2>2
  <1> QED BY <1>1, <1>2, <1>5, <1>6, <1>7

\* do_brk takes the break from a page boundary to a page boundary, and while all
\* mappings lie above the program, to one between the program and the mappings.
LEMMA BrkMoves ==
    ASSUME BreakInv, NEW addr \in 0 .. mmap_max
    PROVE  \E o, q \in 0 .. NPAGE :
             /\ OldBrk = o * PGSIZE /\ Roundup(BrkFor(addr)) = q * PGSIZE
             /\ brk_max > BRK_MIN => /\ q * PGSIZE <= brk_max /\ BRK_MIN <= q * PGSIZE
                                     /\ Roundup(BRK_MIN) <= q * PGSIZE
  <1> USE Sizes
  <1>1. PICK b \in 0 .. NPAGE : brk_max = b * PGSIZE
    BY DEF BreakInv
  <1>2. brk_max \in 0 .. mmap_max
    BY <1>1
  <1>3. PICK m \in Nat : /\ Roundup(BRK_MIN) = m * PGSIZE /\ BRK_MIN <= m * PGSIZE
                         /\ \A r \in Nat : BRK_MIN <= r * PGSIZE => m <= r
    BY RoundupOf
  <1>4. m \in 0 .. NPAGE
    <2>1. m <= NPAGE
      BY <1>3
    <2> QED BY <2>1
  <1>5. \E o \in 0 .. NPAGE : OldBrk = o * PGSIZE
    BY <1>3, <1>4 DEF BreakInv, OldBrk
  <1>6. BrkFor(addr) \in 0 .. mmap_max
    BY <1>2 DEF BrkFor
  <1>7. PICK q \in Nat : /\ Roundup(BrkFor(addr)) = q * PGSIZE /\ BrkFor(addr) <= q * PGSIZE
                         /\ \A r \in Nat : BrkFor(addr) <= r * PGSIZE => q <= r
    <2>1. BrkFor(addr) \in Nat
      BY <1>6
    <2> QED BY <2>1, RoundupOf, Zenon
  <1>8. q \in 0 .. NPAGE
    <2>1. q <= NPAGE
      BY <1>6, <1>7
    <2> QED BY <2>1
  <1>9. ASSUME brk_max > BRK_MIN
        PROVE  /\ q * PGSIZE <= brk_max /\ BRK_MIN <= q * PGSIZE
               /\ Roundup(BRK_MIN) <= q * PGSIZE
    <2>1. BRK_MIN <= BrkFor(addr) /\ BrkFor(addr) <= brk_max
      BY <1>2, <1>9 DEF BrkFor
    <2>2. q <= b /\ BRK_MIN <= q * PGSIZE
      BY <1>1, <1>6, <1>7, <2>1
    <2>3. m <= q
      BY <1>3, <2>2
    <2> QED BY <1>1, <1>3, <2>2, <2>3, PageOrder
  <1> QED BY <1>5, <1>7, <1>8, <1>9

\* Steps that map no page and leave the break alone.
LEMMA BreakKept ==
    ASSUME BreakInv, UNCHANGED <<brk, brk_max>>, \A p \in UserPage : Avail(p) => Avail(p)'
    PROVE  BreakInv'
  BY DEF BreakInv, OldBrk

\* do_mmap lowers brk_max to the lowest page it hands out.
LEMMA BreakMmap ==
    ASSUME BreakInv, NEW first \in Nat, UNCHANGED brk, brk_max' = NewBrkMax(first),
           NEW S, \A p \in S : p \in Nat /\ p >= first, \A p \in UserPage \ S : pte'[p] = pte[p]
    PROVE  BreakInv'
  <1> USE Sizes
  <1>1. PICK b \in 0 .. NPAGE : brk_max = b * PGSIZE
    BY DEF BreakInv
  <1>2. brk_max' \in {brk_max, first * PGSIZE} /\ brk_max' <= brk_max /\ brk_max' <= first * PGSIZE
    <2>1. {brk_max, first * PGSIZE} \in SUBSET Nat
      BY <1>1
    <2> QED BY <2>1, MinIn DEF NewBrkMax
  <1>3. \E q \in 0 .. NPAGE : brk_max' = q * PGSIZE
    <2>1. CASE brk_max' = brk_max
      BY <1>1, <2>1
    <2>2. CASE brk_max' = first * PGSIZE
      <3>1. first * PGSIZE <= b * PGSIZE
        BY <1>1, <1>2, <2>2
      <3>2. first <= b
        BY <3>1, PageOrder
      <3> QED BY <2>2, <3>2
    <2> QED BY <1>2, <2>1, <2>2
  <1>4. ASSUME brk_max' > BRK_MIN, NEW p \in UserPage, ~Avail(p)', OldBrk <= p * PGSIZE
        PROVE  brk_max' <= p * PGSIZE \/ p >= NPAGE - STACK
    <2>1. CASE p \in S
      <3>1. first * PGSIZE <= p * PGSIZE
        BY <2>1, PageOrder
      <3> QED BY <1>1, <1>2, <3>1
    <2>2. CASE p \notin S
      <3>1. ~Avail(p) /\ brk_max > BRK_MIN
        BY <1>1, <1>2, <1>4, <2>2 DEF Avail
      <3>2. brk_max <= p * PGSIZE \/ p >= NPAGE - STACK
        BY <1>4, <3>1 DEF BreakInv
      <3> QED BY <1>1, <1>2, <3>2
    <2> QED BY <2>1, <2>2
  <1>5. OldBrk' = OldBrk
    BY DEF OldBrk
  <1> QED BY <1>3, <1>4, <1>5 DEF BreakInv

\* do_brk maps the pages up to the new break, or unmaps those above it.
LEMMA BreakBrk ==
    ASSUME BreakInv, NEW addr \in 0 .. mmap_max, brk' = Roundup(BrkFor(addr)),
           UNCHANGED brk_max,
           \A p \in UserPage : brk' <= p * PGSIZE =>
                pte'[p] = pte[p] \/ pte'[p] = Zero,
           \A p \in UserPage : brk' <= p * PGSIZE /\ p * PGSIZE < OldBrk => pte'[p] = Zero
    PROVE  BreakInv'
  <1> USE Sizes
  <1>1. PICK o, q \in 0 .. NPAGE :
             /\ OldBrk = o * PGSIZE /\ brk' = q * PGSIZE
             /\ brk_max > BRK_MIN => /\ q * PGSIZE <= brk_max /\ BRK_MIN <= q * PGSIZE
                                     /\ Roundup(BRK_MIN) <= q * PGSIZE
    BY BrkMoves
  <1>2. ASSUME brk_max > BRK_MIN, NEW p \in UserPage, ~Avail(p)', OldBrk' <= p * PGSIZE
        PROVE  brk_max <= p * PGSIZE \/ p >= NPAGE - STACK
    <2>1. OldBrk' = q * PGSIZE
      BY <1>1, <1>2 DEF OldBrk
    <2>2. pte'[p] # Zero
      BY <1>2 DEF Avail
    <2>3. pte'[p] = pte[p] /\ OldBrk <= p * PGSIZE
      BY <1>1, <1>2, <2>1, <2>2
    <2> QED BY <1>2, <2>2, <2>3 DEF BreakInv, Avail
  <1> QED BY <1>1, <1>2 DEF BreakInv
-----------------------------------------------------------------------------
(* The inductive invariant, action by action.                               *)

\* What the TLBs hold is in the page table.
TlbInv == \A e \in tlb : e.page \in Page /\ e.side \in {"i", "d"} /\ pte[e.page].type = e.type

\* The access to repeat is one the walker and the check let pass.
RetryInv ==
    /\ mode \in {"user", "retry", "halted"}
    /\ acc = NoAccess \/ (acc.page \in Page /\ acc.kind \in Kind)
    /\ HandledFaultIsOver

IInv == MemInv /\ FileInv /\ BreakInv /\ TlbInv /\ RetryInv

LEMMA PanicInv == ASSUME IInv, Panic PROVE IInv'
  <1>1. mode' = "halted" /\ acc' = NoAccess
    BY DEF Panic
  <1>2. UNCHANGED <<fileVars, pte, vmr, brk, brk_max, tlb, data, prom, leaked>>
    BY DEF Panic
  <1>3. MemInv'
    BY <1>2 DEF IInv, MemInv, TableTypes, EntriesWellFormed, VmrCountsPages, Lost,
                RegionKeepsPromise, PageKeepsPromise
  <1>4. FileInv'
    BY <1>2, SameFiles DEF IInv
  <1>5. BreakInv' /\ TlbInv'
    BY <1>2 DEF IInv, BreakInv, OldBrk, Avail, TlbInv
  <1>6. RetryInv'
    BY <1>1 DEF RetryInv, HandledFaultIsOver
  <1> QED BY <1>3, <1>4, <1>5, <1>6 DEF IInv

LEMMA OpenInv == ASSUME IInv, Open PROVE IInv'
  <1>1. UNCHANGED vmVars /\ SysOpen
    BY DEF Open
  <1>2. UNCHANGED <<pte, vmr, brk, brk_max, tlb, data, acc, mode, prom, leaked>>
    BY <1>1 DEF vmVars
  <1>3. MemInv'
    BY <1>2 DEF IInv, MemInv, TableTypes, EntriesWellFormed, VmrCountsPages, Lost,
                RegionKeepsPromise, PageKeepsPromise
  <1>4. FileInv'
    BY <1>1, <1>2, OpenFiles DEF IInv
  <1>5. BreakInv' /\ TlbInv'
    BY <1>2 DEF IInv, BreakInv, OldBrk, Avail, TlbInv
  <1>6. RetryInv'
    BY <1>2 DEF IInv, RetryInv, HandledFaultIsOver, Allowed, Hits
  <1> QED BY <1>3, <1>4, <1>5, <1>6 DEF IInv

\* A step of the program in user mode that hands control back to it.
LEMMA UserStep ==
    ASSUME RetryInv, mode = "user", UNCHANGED <<acc, mode>>
    PROVE  RetryInv'
  BY DEF RetryInv, HandledFaultIsOver

\* What a mapping with a region does to the entries and to the TLBs.
MapRegionTlb(S, v) ==
    /\ pte' = [p \in Page |-> IF p \in S THEN Pending(v) ELSE pte[p]]
    /\ tlb' = IF \E p \in S : ~Avail(p) THEN {} ELSE tlb

\* A mapping over free pages only needs no flush: no translation is cached for a
\* page that has none.
LEMMA TlbMap ==
    ASSUME TlbInv, NEW S, NEW v, MapRegionTlb(S, v)
    PROVE  TlbInv'
  <1>1. ASSUME \A p \in S : Avail(p), NEW p \in Page PROVE pte'[p].type = pte[p].type
    <2>1. pte'[p] = IF p \in S THEN Pending(v) ELSE pte[p]
      BY DEF MapRegionTlb
    <2>2. CASE p \in S
      <3>1. pte[p] = Zero
        BY <1>1, <2>2 DEF Avail
      <3>2. pte[p].type = {} /\ pte'[p].type = {}
        BY <2>1, <2>2, <3>1 DEF Zero, Pending
      <3> QED BY <3>2
    <2> QED BY <2>1, <2>2
  <1>2. tlb' = {} \/ (tlb' = tlb /\ \A p \in S : Avail(p))
    BY DEF MapRegionTlb
  <1> QED BY <1>1, <1>2 DEF TlbInv

\* do_mmap of a request of any length, from any page.
LEMMA MmapInv ==
    ASSUME IInv, mode = "user", NEW first \in 0 .. MPAGES - 1, NEW len \in 1 .. WORD - 1,
           NEW prot \in SUBSET RWX, NEW d \in Int,
           NEW off \in Offsets, NEW populate \in BOOLEAN,
           Mmap(first, len, prot, d, off, populate)
    PROVE  IInv'
  <1> DEFINE f == IF d = -1 THEN 0 ELSE FileGet(d)
             S == Pages(first * PGSIZE, len)
  <1> USE Sizes
  <1>1. MemInv /\ FileInv /\ BreakInv /\ TlbInv /\ RetryInv
    BY DEF IInv
  <1>2. TableTypes /\ VmrCountsPages /\ EntriesWellFormed
    BY <1>1 DEF MemInv
  <1>3. f \in File \cup {0} /\ (f # 0 => refcnt[f] # 0)
    BY <1>1 DEF FileGet, FileInv, FilesTypeOK
  <1>4. first \in Nat /\ \A p \in S : p \in Nat /\ p >= first
    BY PagesOfRequest, Constants
  <1>5. FreeVmr # {} /\ (Leaks(len, f) => leaked[f] < LEAKS)
    BY DEF Mmap
  <1>6. \/ /\ S \subseteq Mappable /\ MapRegion(S, first, len, f, off, prot)
           /\ brk_max' = NewBrkMax(first) /\ UNCHANGED <<kfd, fds, brk, acc, mode>>
        \/ /\ S \subseteq UserPage /\ PopulateRegion(S, first, f, off, prot)
           /\ brk_max' = NewBrkMax(first) /\ UNCHANGED <<kfd, fds, brk, acc, mode>>
        \/ Panic
    BY DEF Mmap
  <1> HIDE DEF f
  <1>7. CASE /\ S \subseteq Mappable /\ MapRegion(S, first, len, f, off, prot)
             /\ brk_max' = NewBrkMax(first) /\ UNCHANGED <<kfd, fds, brk, acc, mode>>
    <2>1. MemInv'
      BY <1>1, <1>3, <1>5, <1>7, MapMem
    <2> DEFINE r == Region(first, len, f, off, prot)
    <2>2. /\ r.refcnt = 0 => r.file = 0
          /\ r.refcnt # 0 => r.file = f
          /\ r.refcnt = 0 <=> Npage(len) % UINT = 0
      BY <1>3, <1>7, RegionCounts
    <2> HIDE DEF S, r
    <2>3. FileInv'
      <3>1. /\ vmr' = [DecrefVmrs(S) EXCEPT ![Min(FreeVmr)] = r]
            /\ refcnt' = FileRefs(S, f) /\ host' = host \ Closed(S, f)
            /\ leaked' = [g \in File |-> IF g = f /\ Leaks(len, f) THEN leaked[g] + 1 ELSE leaked[g]]
        BY <1>7 DEF MapRegion, r
      <3>2. \A g \in File : g = f => (Leaks(len, f) <=> r.refcnt = 0)
        BY <2>2 DEF Leaks, File
      <3>3. leaked' = [g \in File |-> IF g = f /\ r.refcnt = 0 THEN leaked[g] + 1 ELSE leaked[g]]
        BY <3>1, <3>2
      <3>4. f # 0 /\ r.refcnt = 0 => leaked[f] < LEAKS
        BY <1>5, <2>2 DEF Leaks
      <3>5. S \in SUBSET Page
        BY <1>7, Constants
      <3>6. UNCHANGED <<kfd, fds>>
        BY <1>7
      <3> QED BY <1>1, <1>2, <1>3, <1>5, <2>2, <3>1, <3>3, <3>4, <3>5, <3>6, MapFiles, ZenonT(60)
    <2>4. pte' = [p \in Page |-> IF p \in S THEN Pending(Min(FreeVmr)) ELSE pte[p]]
      BY <1>7 DEF MapRegion
    <2>5. BreakInv'
      BY <1>1, <1>4, <1>7, <2>4, BreakMmap
    <2>6. TlbInv'
      <3>1. MapRegionTlb(S, Min(FreeVmr))
        BY <1>7 DEF MapRegion, MapRegionTlb
      <3> QED BY <1>1, <3>1, TlbMap
    <2> QED BY <1>1, <1>7, <2>1, <2>3, <2>5, <2>6, UserStep DEF IInv
  <1>8. CASE /\ S \subseteq UserPage /\ PopulateRegion(S, first, f, off, prot)
             /\ brk_max' = NewBrkMax(first) /\ UNCHANGED <<kfd, fds, brk, acc, mode>>
    <2> HIDE DEF S
    <2>1. MemInv'
      BY <1>1, <1>3, <1>4, <1>8, PopulateMem
    <2>2. FileInv'
      <3>1. S \in SUBSET Page
        BY <1>8
      <3> QED BY <1>1, <1>2, <1>8, <3>1, UnmapFiles DEF PopulateRegion
    <2>3. \A p \in UserPage \ S : pte'[p] = pte[p]
      BY <1>8 DEF PopulateRegion
    <2>4. BreakInv'
      BY <1>1, <1>4, <1>8, <2>3, BreakMmap
    <2>5. TlbInv'
      BY <1>8 DEF PopulateRegion, TlbInv
    <2> QED BY <1>1, <1>8, <2>1, <2>2, <2>4, <2>5, UserStep DEF IInv
  <1> QED BY <1>6, <1>7, <1>8, PanicInv

LEMMA MmapFixedInv == ASSUME IInv, MmapFixed PROVE IInv'
  <1>1. PICK first \in Targets, len \in Lengths, prot \in Prots,
             d \in (STD .. MAX_FDS - 1) \cup {-1}, off \in Offsets, populate \in BOOLEAN :
               Mmap(first, len, prot, d, off, populate)
    BY DEF MmapFixed
  <1>2. first \in 0 .. MPAGES - 1 /\ len \in 1 .. WORD - 1 /\ prot \in SUBSET RWX /\ d \in Int
    BY VmAssumption, FilesAssumption DEF WORD
  <1> QED BY <1>1, <1>2, MmapInv DEF MmapFixed

LEMMA MmapAnywhereInv == ASSUME IInv, MmapAnywhere PROVE IInv'
  <1>1. PICK len \in Lengths, prot \in Prots,
             d \in (STD .. MAX_FDS - 1) \cup {-1}, off \in Offsets, populate \in BOOLEAN :
               Mmap(VmAlloc(Npage(len)), len, prot, d, off, populate)
    BY DEF MmapAnywhere
  <1>2. len \in 1 .. WORD - 1 /\ prot \in SUBSET RWX /\ d \in Int
    BY VmAssumption, FilesAssumption DEF WORD
  <1>3. Npage(len) \in 1 .. MPAGES
    <2>1. 0 \in 0 .. MPAGES - 1
      BY Constants
    <2> QED BY <1>2, <2>1, PagesOfRequest
  <1>4. brk \in 0 .. mmap_max
    BY Sizes DEF IInv, BreakInv
  <1>5. VmAlloc(Npage(len)) \in 0 .. MPAGES - 1
    BY <1>3, <1>4, AllocType
  <1> QED BY <1>1, <1>2, <1>5, MmapInv DEF MmapAnywhere

\* __do_munmap on behalf of munmap or of a shrinking break.
LEMMA UnmapInv ==
    ASSUME IInv, NEW S \in SUBSET UserPage, UnmapPages(S), UNCHANGED <<kfd, fds>>
    PROVE  MemInv' /\ FileInv' /\ TlbInv'
  <1>1. MemInv /\ FileInv
    BY DEF IInv
  <1>2. S \in SUBSET Page
    BY Sizes
  <1>3. MemInv'
    BY <1>1, UnmapMem
  <1>4. FileInv'
    BY <1>1, <1>2, UnmapFiles DEF MemInv, UnmapPages
  <1>5. TlbInv'
    BY DEF UnmapPages, TlbInv
  <1> QED BY <1>3, <1>4, <1>5

LEMMA MunmapInv == ASSUME IInv, Munmap PROVE IInv'
  <1> USE Sizes
  <1>1. PICK first \in Targets, len \in Lengths :
          /\ first * PGSIZE + len <= mmap_max
          /\ UnmapPages(Pages(first * PGSIZE, len))
    BY DEF Munmap
  <1> DEFINE S == Pages(first * PGSIZE, len)
  <1>2. UNCHANGED <<kfd, fds, brk, brk_max, acc, mode>> /\ mode = "user"
    BY DEF Munmap
  <1>3. first \in Nat /\ len \in Nat
    BY VmAssumption, Word DEF WORD
  <1>4. S \in SUBSET UserPage
    <2>1. first * PGSIZE \in Nat
      BY <1>3
    <2> QED BY <1>1, <1>3, <2>1, PagesBelow
  <1>5. MemInv' /\ FileInv' /\ TlbInv'
    BY <1>1, <1>2, <1>4, UnmapInv
  <1> HIDE DEF S
  <1>6. \A p \in UserPage : Avail(p) => Avail(p)'
    BY <1>1 DEF UnmapPages, Avail, S
  <1>7. BreakInv'
    BY <1>2, <1>6, BreakKept DEF IInv
  <1> QED BY <1>2, <1>5, <1>7, UserStep DEF IInv

LEMMA MprotectInv == ASSUME IInv, Mprotect PROVE IInv'
  <1> USE Sizes
  <1>1. PICK first \in Targets, len \in Lengths, prot \in NewProts :
         LET S == Pages(first * PGSIZE, len)
             T == {Walk(p) : p \in {q \in S : \A r \in S : r <= q => ~Refuses(Walk(r), prot)}}
         IN
         /\ pte' = [p \in Page |-> IF p \in T /\ Valid(p)
                                   THEN Mapped(TypeOf(prot, TRUE)) ELSE pte[p]]
         /\ vmr' = [v \in Vmr |-> IF \E p \in T : pte[p].v = v
                                  THEN [vmr[v] EXCEPT !.prot = prot] ELSE vmr[v]]
    BY DEF Mprotect
  <1> DEFINE S == Pages(first * PGSIZE, len)
             T == {Walk(p) : p \in {q \in S : \A r \in S : r <= q => ~Refuses(Walk(r), prot)}}
  <1>2. /\ tlb' = {} /\ mode = "user"
        /\ UNCHANGED <<fileVars, brk, brk_max, data, acc, mode, prom, leaked>>
    BY DEF Mprotect
  <1>3. prot \in SUBSET RWX
    BY VmAssumption
  <1>4. \A p \in S : p \in Nat /\ p <= p /\ Walk(p) \in Page
    <2>1. \A p \in S : p \in Nat
      BY PagesAre, VmAssumption
    <2>2. \A p \in Nat : Walk(p) \in Page
      BY Constants DEF Walk, Page
    <2> QED BY <2>1, <2>2
  <1>5. T \in SUBSET Page /\ \A p \in T : ~Refuses(p, prot)
    <2> HIDE DEF S
    <2> QED BY <1>4
  <1>6. Protected(T, prot)
    BY <1>1, <1>2 DEF Protected
  <1> HIDE DEF S, T
  <1>7. MemInv /\ FileInv /\ BreakInv /\ RetryInv
    BY DEF IInv
  <1>8. MemInv'
    BY <1>3, <1>5, <1>6, <1>7, MprotectMem
  <1>9. FileInv'
    <2>1. \A v \in Vmr : vmr'[v].refcnt = vmr[v].refcnt /\ vmr'[v].file = vmr[v].file
      BY <1>6, <1>7 DEF Protected, MemInv, TableTypes, VmRegion
    <2> QED BY <1>2, <1>7, <2>1, SameFiles
  <1>10. BreakInv'
    <2>1. \A p \in UserPage : Avail(p) => Avail(p)'
      <3> SUFFICES ASSUME NEW p \in UserPage, pte[p] = Zero PROVE pte'[p] = Zero
        BY DEF Avail
      <3>1. ~Valid(p)
        BY DEF Valid, Zero
      <3> QED BY <1>6, <3>1 DEF Protected
    <2> QED BY <1>2, <1>7, <2>1, BreakKept
  <1>11. TlbInv'
    BY <1>2 DEF TlbInv
  <1> QED BY <1>2, <1>7, <1>8, <1>9, <1>10, <1>11, UserStep DEF IInv

\* The break grows: the new pages get a region without a file.
LEMMA BrkGrows ==
    ASSUME IInv, mode = "user", NEW addr \in 0 .. mmap_max, Roundup(BrkFor(addr)) > OldBrk,
           FreeVmr # {},
           MapRegion(Pages(OldBrk, Roundup(BrkFor(addr)) - OldBrk), OldBrk \div PGSIZE,
                     Roundup(BrkFor(addr)) - OldBrk, 0, 0, RWX),
           brk' = Roundup(BrkFor(addr)), UNCHANGED <<kfd, fds, brk_max, acc, mode>>
    PROVE  IInv'
  <1> USE Sizes
  <1>1. MemInv /\ FileInv /\ BreakInv /\ TlbInv /\ RetryInv /\ TableTypes /\ VmrCountsPages
    BY DEF IInv, MemInv
  <1>2. PICK o, q \in 0 .. NPAGE : OldBrk = o * PGSIZE /\ Roundup(BrkFor(addr)) = q * PGSIZE
    BY <1>1, BrkMoves
  <1> DEFINE len == q * PGSIZE - o * PGSIZE
             S == Pages(o * PGSIZE, len)
  <1>3. o * PGSIZE \in Nat /\ q * PGSIZE \in Nat /\ len \in Nat \ {0} /\ o \in Nat
    BY <1>2
  <1>4. (o * PGSIZE) \div PGSIZE = o
    <2> DEFINE b == (o * PGSIZE) \div PGSIZE
    <2>1. b \in Nat /\ b * PGSIZE <= o * PGSIZE /\ o * PGSIZE < (b + 1) * PGSIZE
      BY <1>3, PageOf
    <2> HIDE DEF b
    <2>2. b <= o /\ o < b + 1
      BY <1>3, <2>1, PageOrder
    <2>3. b = o
      BY <1>3, <2>1, <2>2
    <2> QED BY <2>3 DEF b
  <1>5. MapRegion(S, o, len, 0, 0, RWX)
    BY <1>2, <1>4
  <1>6. o * PGSIZE + len <= mmap_max /\ o * PGSIZE + len = q * PGSIZE
    BY <1>2, <1>3
  <1>7. o \in 0 .. MPAGES - 1 /\ len \in 1 .. WORD - 1
    <2>1. o * PGSIZE < mmap_max
      BY <1>3, <1>6
    <2>2. o < NPAGE
      BY <1>3, <2>1, PageOrder
    <2> QED BY <1>3, <1>6, <2>2, Constants, Word
  <1>8. S \subseteq UserPage /\ \A p \in S : p * PGSIZE < o * PGSIZE + len
    <2> HIDE DEF len
    <2> QED BY <1>3, <1>6, PagesBelow
  <1>9. S \in SUBSET Page /\ S \subseteq Mappable
    BY <1>8, Constants
  <1>10. \A p \in S : p * PGSIZE < q * PGSIZE
    BY <1>6, <1>8
  <1> HIDE DEF len
  <1>11. MemInv'
    BY <1>1, <1>5, <1>7, <1>9, MapMem DEF RWX
  <1>12. FileInv'
    BY <1>1, <1>5, <1>9, HeapFiles
  <1> HIDE DEF S
  <1>13. pte' = [p \in Page |-> IF p \in S THEN Pending(Min(FreeVmr)) ELSE pte[p]]
    BY <1>5 DEF MapRegion
  <1>14. BreakInv'
    <2>1. \A p \in UserPage : brk' <= p * PGSIZE => pte'[p] = pte[p]
      BY <1>2, <1>3, <1>10, <1>13
    <2>2. \A p \in UserPage : ~(brk' <= p * PGSIZE /\ p * PGSIZE < OldBrk)
      BY <1>2, <1>3
    <2> QED BY <1>1, <2>1, <2>2, BreakBrk
  <1>15. TlbInv'
    <2>1. MapRegionTlb(S, Min(FreeVmr))
      BY <1>5 DEF MapRegion, MapRegionTlb
    <2> QED BY <1>1, <2>1, TlbMap
  <1> QED BY <1>1, <1>11, <1>12, <1>14, <1>15, UserStep DEF IInv
\* The break shrinks: the pages above it are unmapped, whoever mapped them.
LEMMA BrkShrinks ==
    ASSUME IInv, mode = "user", NEW addr \in 0 .. mmap_max, Roundup(BrkFor(addr)) < OldBrk,
           UnmapPages(Pages(Roundup(BrkFor(addr)), OldBrk - Roundup(BrkFor(addr)))),
           brk' = Roundup(BrkFor(addr)), UNCHANGED <<kfd, fds, brk_max, acc, mode>>
    PROVE  IInv'
  <1> USE Sizes
  <1>1. BreakInv /\ RetryInv
    BY DEF IInv
  <1>2. PICK o, q \in 0 .. NPAGE : OldBrk = o * PGSIZE /\ Roundup(BrkFor(addr)) = q * PGSIZE
    BY <1>1, BrkMoves
  <1>3. o * PGSIZE \in 0 .. mmap_max /\ q * PGSIZE \in 0 .. mmap_max
    BY <1>2
  <1> DEFINE S == Pages(q * PGSIZE, o * PGSIZE - q * PGSIZE)
  <1>4. S \in SUBSET UserPage
          /\ \A p \in UserPage : q * PGSIZE <= p * PGSIZE /\ p * PGSIZE < o * PGSIZE => p \in S
    <2> DEFINE a == q * PGSIZE
               n == o * PGSIZE - q * PGSIZE
    <2>1. a \in Nat /\ n \in Nat /\ a + n <= mmap_max /\ a + n = o * PGSIZE
      BY <1>2, <1>3
    <2> HIDE DEF a, n
    <2>2. Pages(a, n) \subseteq UserPage
            /\ \A p \in UserPage : a <= p * PGSIZE /\ p * PGSIZE < o * PGSIZE => p \in Pages(a, n)
      BY <2>1, PagesBelow
    <2> QED BY <2>2 DEF a, n
  <1>5. UnmapPages(S)
    BY <1>2
  <1> HIDE DEF S
  <1>6. MemInv' /\ FileInv' /\ TlbInv'
    BY <1>4, <1>5, UnmapInv
  <1>7. pte' = [p \in Page |-> IF p \in S THEN Zero ELSE pte[p]]
    BY <1>5 DEF UnmapPages
  <1>8. BreakInv'
    <2>1. \A p \in UserPage : brk' <= p * PGSIZE => pte'[p] = pte[p] \/ pte'[p] = Zero
      BY <1>7
    <2>2. \A p \in UserPage : brk' <= p * PGSIZE /\ p * PGSIZE < OldBrk => pte'[p] = Zero
      BY <1>2, <1>4, <1>7
    <2> QED BY <1>1, <2>1, <2>2, BreakBrk
  <1> QED BY <1>1, <1>6, <1>8, UserStep DEF IInv

\* The break stays on its page.
LEMMA BrkStays ==
    ASSUME IInv, mode = "user", NEW addr \in 0 .. mmap_max, Roundup(BrkFor(addr)) = OldBrk,
           brk' = Roundup(BrkFor(addr)),
           UNCHANGED <<fileVars, pte, vmr, brk_max, tlb, data, acc, mode, prom, leaked>>
    PROVE  IInv'
  <1> USE Sizes
  <1>1. MemInv /\ FileInv /\ BreakInv /\ TlbInv /\ RetryInv
    BY DEF IInv
  <1>2. MemInv'
    BY <1>1 DEF MemInv, TableTypes, EntriesWellFormed, VmrCountsPages, Lost,
                RegionKeepsPromise, PageKeepsPromise
  <1>3. FileInv'
    BY <1>1, SameFiles
  <1>4. BreakInv'
    <2>1. PICK o, q \in 0 .. NPAGE : OldBrk = o * PGSIZE /\ Roundup(BrkFor(addr)) = q * PGSIZE
      BY <1>1, BrkMoves
    <2>2. \A p \in UserPage : ~(brk' <= p * PGSIZE /\ p * PGSIZE < OldBrk)
      <3>1. o * PGSIZE \in Nat /\ \A p \in UserPage : p * PGSIZE \in Nat
        OBVIOUS
      <3> QED BY <2>1, <3>1
    <2> QED BY <1>1, <2>2, BreakBrk
  <1>5. TlbInv'
    BY <1>1 DEF TlbInv
  <1> QED BY <1>1, <1>2, <1>3, <1>4, <1>5, UserStep DEF IInv

\* What do_brk does, in the terms of the lemmas above.
LEMMA BrkCases ==
    ASSUME Brk
    PROVE  /\ mode = "user"
           /\ \E addr \in 0 .. mmap_max :
                \/ /\ Roundup(BrkFor(addr)) > OldBrk /\ FreeVmr # {}
                   /\ MapRegion(Pages(OldBrk, Roundup(BrkFor(addr)) - OldBrk), OldBrk \div PGSIZE,
                                Roundup(BrkFor(addr)) - OldBrk, 0, 0, RWX)
                   /\ brk' = Roundup(BrkFor(addr)) /\ UNCHANGED <<kfd, fds, brk_max, acc, mode>>
                \/ Panic
                \/ /\ Roundup(BrkFor(addr)) < OldBrk
                   /\ UnmapPages(Pages(Roundup(BrkFor(addr)), OldBrk - Roundup(BrkFor(addr))))
                   /\ brk' = Roundup(BrkFor(addr)) /\ UNCHANGED <<kfd, fds, brk_max, acc, mode>>
                \/ /\ Roundup(BrkFor(addr)) = OldBrk /\ brk' = Roundup(BrkFor(addr))
                   /\ UNCHANGED <<fileVars, pte, vmr, brk_max, tlb, data, acc, mode, prom, leaked>>
  BY DEF Brk, BrkFor, OldBrk

LEMMA BrkInv == ASSUME IInv, Brk PROVE IInv'
  BY BrkCases, BrkGrows, PanicInv, BrkShrinks, BrkStays
\* An entry that grants an access and is readable lets the walker and the check
\* pass it: the handler and the hardware agree.
LEMMA GrantedIsAllowed ==
    ASSUME NEW prot \in SUBSET RWX, NEW k \in Kind,
           Grants(TypeOf(prot, TRUE), k),
           ~("W" \in TypeOf(prot, TRUE) /\ "R" \notin TypeOf(prot, TRUE))
    PROVE  WalkFinds(TypeOf(prot, TRUE), k) /\ HitAllows(TypeOf(prot, TRUE), k)
  <1> DEFINE t == TypeOf(prot, TRUE)
  <1>1. /\ {"V", "U"} \subseteq t
        /\ "A" \in t <=> ("R" \in prot \/ "X" \in prot)
        /\ "R" \in t <=> ("R" \in prot \/ prot = {})
        /\ {"W", "D"} \subseteq t <=> "W" \in prot
        /\ t \cap {"W", "X"} \subseteq prot
    BY TypeOfBits
  <1>2. TypeOf(Need(k), TRUE) \subseteq t
    BY DEF Grants
  <1> HIDE DEF t
  <1>3. CASE k = "fetch"
    <2>1. "X" \in t /\ "A" \in t
      BY <1>2, <1>3 DEF Need, TypeOf
    <2> QED BY <1>1, <1>3, <2>1 DEF WalkFinds, HitAllows, t
  <1>4. CASE k = "load"
    <2>1. "R" \in t /\ "A" \in t
      BY <1>2, <1>4 DEF Need, TypeOf
    <2> QED BY <1>1, <1>4, <2>1 DEF WalkFinds, HitAllows, t
  <1>5. CASE k = "store"
    <2>1. {"W", "D"} \subseteq t
      BY <1>2, <1>5 DEF Need, TypeOf
    <2>2. "A" \in t /\ "R" \in t
      BY <1>1, <2>1 DEF t
    <2> QED BY <1>1, <1>5, <2>1, <2>2 DEF WalkFinds, HitAllows, t
  <1> QED BY <1>3, <1>4, <1>5 DEF Kind

LEMMA AccessInv == ASSUME IInv, NEW p \in Page, NEW k \in Kind, Access(p, k) PROVE IInv'
  <1>1. MemInv /\ FileInv /\ BreakInv /\ TlbInv /\ RetryInv
    BY DEF IInv
  <1>2. /\ tlb' = tlb \/ Update(p, k)
        /\ mode' = "user" /\ acc' = NoAccess
        /\ data' = (IF k = "store" THEN [data EXCEPT ![p] = User] ELSE data)
    BY DEF Access
  <1>3. UNCHANGED <<fileVars, pte, vmr, brk, brk_max, prom, leaked>>
    BY DEF Access
  <1>4. MemInv'
    <2>1. CASE k = "store"
      BY <1>1, <1>2, <1>3, <2>1, StoreMem
    <2>2. CASE k # "store"
      BY <1>1, <1>2, <1>3, <2>2 DEF MemInv, TableTypes, EntriesWellFormed, VmrCountsPages, Lost,
                                    RegionKeepsPromise, PageKeepsPromise
    <2> QED BY <2>1, <2>2
  <1>5. FileInv'
    BY <1>1, <1>3, SameFiles
  <1>6. BreakInv'
    BY <1>1, <1>3 DEF BreakInv, OldBrk, Avail
  <1>7. TlbInv'
    <2>1. Side(k) \in {"i", "d"}
      BY DEF Side
    <2>2. \A e \in tlb' : \/ e \in tlb
                          \/ e.page = p /\ e.side = Side(k) /\ e.type = pte[p].type
      <3>1. CASE Update(p, k)
        <4> DEFINE new == [page |-> p, side |-> Side(k), type |-> pte[p].type]
        <4>1. new.page = p /\ new.side = Side(k) /\ new.type = pte[p].type
          OBVIOUS
        <4> HIDE DEF new
        <4>2. \E out : tlb' = (tlb \ out) \cup {new}
          BY <3>1, Zenon DEF Update, new
        <4> QED BY <4>1, <4>2
      <3> QED BY <1>2, <3>1
    <2> QED BY <1>1, <1>3, <2>1, <2>2 DEF TlbInv
  <1>8. RetryInv'
    BY <1>2 DEF RetryInv, HandledFaultIsOver
  <1> QED BY <1>4, <1>5, <1>6, <1>7, <1>8 DEF IInv

\* After the handler flushed the TLBs, an access it granted is allowed.
LEMMA RetryAllowed ==
    ASSUME NEW p \in Page, NEW k \in Kind, NEW prot \in SUBSET RWX,
           tlb' = {}, mode' = "retry", acc' = [page |-> p, kind |-> k],
           pte'[p].type = TypeOf(prot, TRUE), Grants(TypeOf(prot, TRUE), k)
    PROVE  RetryInv'
  <1> DEFINE t == TypeOf(prot, TRUE)
  <1>1. acc'.page = p /\ acc'.kind = k
    OBVIOUS
  <1>2. ~("W" \in t /\ "R" \notin t) => WalkFinds(t, k) /\ HitAllows(t, k)
    BY GrantedIsAllowed
  <1> HIDE DEF t
  <1>3. pte'[p].type = t
    BY DEF t
  <1>4. ~("W" \in t /\ "R" \notin t) => Allowed(p, k)'
    <2>1. Hits(p, k)' = {}
      BY DEF Hits
    <2> QED BY <1>2, <1>3, <2>1 DEF Allowed
  <1>5. HandledFaultIsOver'
    <2>1. ~("W" \in t /\ "R" \notin t) => Allowed(acc.page, acc.kind)'
      BY <1>1, <1>4 DEF Allowed, Hits
    <2> QED BY <1>1, <1>3, <2>1 DEF HandledFaultIsOver
  <1> QED BY <1>1, <1>5 DEF RetryInv

LEMMA FaultInInv == ASSUME IInv, NEW p \in Page, NEW k \in Kind, FaultIn(p, k) PROVE IInv'
  <1>1. MemInv /\ FileInv /\ BreakInv /\ TlbInv /\ RetryInv /\ TableTypes /\ VmrCountsPages
    BY DEF IInv, MemInv
  <1> DEFINE v == pte[p].v
             t == TypeOf(vmr[v].prot, TRUE)
  <1>2. p \in UserPage /\ v # 0
    BY DEF FaultIn
  <1>3. vmr[v].prot \in SUBSET RWX
    <2>1. v \in Vmr
      BY <1>1, <1>2 DEF TableTypes, Entry
    <2> QED BY <1>1, <2>1 DEF TableTypes, VmRegion
  <1>4. CASE Panic
    BY <1>4, PanicInv
  <1>5. CASE /\ pte' = [pte EXCEPT ![p] = Mapped(t)]
             /\ vmr' = DecrefVmrs({p})
             /\ refcnt' = FileRefs({p}, 0)
             /\ host' = host \ Closed({p}, 0)
             /\ data' = [data EXCEPT ![p] = Source(p, vmr[v].addr, vmr[v].file, vmr[v].offset)]
             /\ tlb' = {}
             /\ \/ Grants(t, k) /\ mode' = "retry" /\ acc' = [page |-> p, kind |-> k]
                \/ ~Grants(t, k) /\ mode' = "halted" /\ acc' = NoAccess
             /\ UNCHANGED <<kfd, fds, brk, brk_max, prom, leaked>>
    <2>1. FaultedIn(p)
      BY <1>5 DEF FaultedIn
    <2>2. MemInv'
      BY <1>1, <1>2, <2>1, FaultMem
    <2>3. FileInv'
      <3>1. {p} \in SUBSET Page
        OBVIOUS
      <3> QED BY <1>1, <1>5, <3>1, UnmapFiles
    <2>4. BreakInv'
      <3>1. \A q \in UserPage : Avail(q) => Avail(q)'
        <4> SUFFICES ASSUME NEW q \in UserPage, pte[q] = Zero PROVE pte'[q] = Zero
          BY DEF Avail
        <4>1. q # p
          BY <1>2 DEF Zero
        <4> QED BY <1>1, <1>5, <4>1, Sizes DEF TableTypes
      <3> QED BY <1>1, <1>5, <3>1, BreakKept
    <2>5. TlbInv'
      BY <1>5 DEF TlbInv
    <2>6. pte'[p].type = t
      BY <1>1, <1>5 DEF TableTypes, Mapped
    <2>7. RetryInv'
      <3>1. CASE Grants(t, k) /\ mode' = "retry" /\ acc' = [page |-> p, kind |-> k]
        BY <1>3, <1>5, <2>6, <3>1, RetryAllowed
      <3>2. CASE ~Grants(t, k) /\ mode' = "halted" /\ acc' = NoAccess
        BY <3>2 DEF RetryInv, HandledFaultIsOver
      <3> QED BY <1>5, <3>1, <3>2
    <2> QED BY <2>2, <2>3, <2>4, <2>5, <2>7 DEF IInv
  <1> QED BY <1>4, <1>5 DEF FaultIn

LEMMA FaultAgainInv == ASSUME IInv, NEW p \in Page, NEW k \in Kind, FaultAgain(p, k) PROVE IInv'
  <1>1. MemInv /\ FileInv /\ BreakInv /\ TlbInv /\ RetryInv
    BY DEF IInv
  <1>2. /\ p \in UserPage /\ "V" \in pte[p].type /\ Grants(pte[p].type, k)
        /\ tlb' = {} /\ mode' = "retry" /\ acc' = [page |-> p, kind |-> k]
    BY DEF FaultAgain, Valid
  <1>3. UNCHANGED <<fileVars, pte, vmr, brk, brk_max, data, prom, leaked>>
    BY DEF FaultAgain
  <1>4. MemInv'
    BY <1>1, <1>3 DEF MemInv, TableTypes, EntriesWellFormed, VmrCountsPages, Lost,
                      RegionKeepsPromise, PageKeepsPromise
  <1>5. FileInv'
    BY <1>1, <1>3, SameFiles
  <1>6. BreakInv'
    BY <1>1, <1>3 DEF BreakInv, OldBrk, Avail
  <1>7. TlbInv'
    BY <1>2 DEF TlbInv
  <1>8. PICK prot \in SUBSET RWX : pte[p].type = TypeOf(prot, TRUE)
    <2>1. pte[p].type # {} /\ p \in OtherPage
      BY <1>2, Constants
    <2> QED BY <1>1, <2>1 DEF MemInv, EntriesWellFormed
  <1>9. RetryInv'
    <2>1. pte'[p].type = TypeOf(prot, TRUE) /\ Grants(TypeOf(prot, TRUE), k)
      BY <1>2, <1>3, <1>8
    <2> QED BY <1>2, <2>1, RetryAllowed
  <1> QED BY <1>4, <1>5, <1>6, <1>7, <1>9 DEF IInv

LEMMA NextInv == ASSUME IInv, [Next]_vars PROVE IInv'
  <1>1. CASE UNCHANGED vars
    <2>1. UNCHANGED fileVars /\ UNCHANGED <<pte, vmr, brk, brk_max, tlb, data, acc, mode, prom, leaked>>
      BY <1>1 DEF vars, vmVars
    <2>2. MemInv'
      BY <2>1 DEF IInv, MemInv, TableTypes, EntriesWellFormed, VmrCountsPages, Lost,
                  RegionKeepsPromise, PageKeepsPromise
    <2>3. FileInv'
      BY <2>1, SameFiles DEF IInv
    <2>4. BreakInv' /\ TlbInv'
      BY <2>1 DEF IInv, BreakInv, OldBrk, Avail, TlbInv
    <2>5. RetryInv'
      BY <2>1 DEF IInv, RetryInv, HandledFaultIsOver, Allowed, Hits
    <2> QED BY <2>2, <2>3, <2>4, <2>5 DEF IInv
  <1>2. CASE SysExit
    BY <1>2, PanicInv DEF SysExit
  <1>3. CASE Instruction
    <2>1. PICK p \in Page, k \in Kind :
            Access(p, k) \/ FaultIn(p, k) \/ FaultAgain(p, k) \/ Segfault(p, k)
      BY <1>3 DEF Instruction
    <2>2. CASE Segfault(p, k)
      BY <2>2, PanicInv DEF Segfault
    <2> QED BY <2>1, <2>2, AccessInv, FaultInInv, FaultAgainInv
  <1> QED BY <1>1, <1>2, <1>3, OpenInv, MmapFixedInv, MmapAnywhereInv, MunmapInv,
             MprotectInv, BrkInv DEF Next
-----------------------------------------------------------------------------
(* The initial state.                                                       *)

\* The pages of a region of n whole pages are n.
LEMMA WholePages ==
    ASSUME NEW n \in Nat \ {0}
    PROVE  n * PGSIZE \in Nat \ {0} /\ Npage(n * PGSIZE) = n
  <1> USE Sizes
  <1> DEFINE q == (n * PGSIZE - 1) \div PGSIZE
  <1>1. n * PGSIZE \in Nat \ {0}
    <2>1. 0 * PGSIZE < n * PGSIZE
      BY PageOrder
    <2> QED BY <2>1
  <1>2. q \in Nat /\ q * PGSIZE <= n * PGSIZE - 1 /\ n * PGSIZE - 1 < (q + 1) * PGSIZE
    BY <1>1, PageOf
  <1>3. Npage(n * PGSIZE) = q + 1
    BY DEF Npage
  <1> HIDE DEF q
  <1>4. q * PGSIZE < n * PGSIZE /\ n * PGSIZE <= (q + 1) * PGSIZE
    BY <1>1, <1>2
  <1>5. q < n /\ n <= q + 1
    BY <1>2, <1>4, PageOrder
  <1>6. q + 1 = n
    BY <1>2, <1>5
  <1> QED BY <1>1, <1>3, <1>6

LEMMA InitMem == ASSUME Init PROVE MemInv
  <1> USE Sizes
  <1> DEFINE stack == NPAGE - STACK .. NPAGE - 1
  <1>1. /\ STACK \in 1 .. NPAGE - 1 /\ ELF \in 1 .. NPAGE - STACK - 1
    BY VmAssumption
  <1>2. /\ ELF \in UserPage /\ ELF \notin stack /\ stack \subseteq UserPage
        /\ KERNEL \notin UserPage /\ ELF # KERNEL /\ KERNEL \notin stack
        /\ KERNEL \in Page /\ UserPage \subseteq Page /\ UserPage \subseteq OtherPage
        /\ OtherPage \subseteq Page /\ VPAGES - 1 \in OtherPage /\ VPAGES - 1 \notin UserPage
        /\ KERNEL \notin OtherPage
    BY <1>1, Constants DEF UserPage
  <1> HIDE DEF stack
  <1> DEFINE text == TypeOf({"R", "X"}, TRUE)
  <1>3. pte = [p \in Page |-> CASE p = KERNEL -> Mapped(TypeOf(RWX, FALSE))
                              [] p \in stack -> Pending(1)
                              [] p = ELF -> Mapped(text)
                              [] OTHER -> Zero]
    BY DEF Init, stack
  <1>4. \E prot \in SUBSET RWX : text = TypeOf(prot, TRUE)
    <2>1. {"R", "X"} \in SUBSET RWX
      BY DEF RWX
    <2> QED BY <2>1
  <1>5. TypeOf(RWX, FALSE) \in SUBSET Bits /\ text \in SUBSET Bits
          /\ {"R", "X"} \in SUBSET RWX /\ text \cap {"W", "X"} \subseteq {"R", "X"}
    BY DEF TypeOf, RWX, Bits
  <1> HIDE DEF text
  <1>6. prom = [p \in Page |-> CASE p \in stack -> [src |-> Clean, prot |-> RWX]
                               [] p = ELF -> [src |-> Text, prot |-> {"R", "X"}]
                               [] OTHER -> Nothing]
    BY DEF Init, stack
  <1>7. /\ pte[KERNEL] = Mapped(TypeOf(RWX, FALSE))
        /\ \A p \in stack : pte[p] = Pending(1) /\ prom[p] = [src |-> Clean, prot |-> RWX]
        /\ pte[ELF] = Mapped(text)
        /\ prom[ELF] = [src |-> Text, prot |-> {"R", "X"}]
        /\ \A p \in OtherPage : p \notin stack /\ p # ELF => pte[p] = Zero
    BY <1>2, <1>3, <1>6
  <1>8. 1 \in Vmr
    BY VmAssumption DEF Vmr
  <1>9. pte \in [Page -> Entry]
    <2>1. \A t \in SUBSET Bits : Mapped(t) \in Entry
      BY DEF Mapped, Entry
    <2>2. Pending(1) \in Entry /\ Zero \in Entry
      BY <1>8 DEF Pending, Zero, Entry
    <2> QED BY <1>3, <1>5, <2>1, <2>2
  <1> DEFINE r == Region(NPAGE - STACK, STACK * PGSIZE, 0, 0, RWX)
  <1>10. vmr = [v \in Vmr |-> IF v = 1 THEN r ELSE NoRegion]
    BY DEF Init
  <1>11. STACK * PGSIZE \in Nat \ {0} /\ Npage(STACK * PGSIZE) = STACK
    BY <1>1, WholePages
  <1> USE Constants, Word
  <1>12. /\ r \in VmRegion /\ r.refcnt = STACK /\ r.file = 0 /\ r.prot = RWX
         /\ ~(r.addr * PGSIZE + r.length >= WORD)
    <2>1. STACK % UINT = STACK /\ STACK # 0 /\ STACK \in 0 .. UINT - 1
      BY <1>1
    <2>2. r = [addr |-> NPAGE - STACK, length |-> STACK * PGSIZE, file |-> 0, offset |-> 0,
               refcnt |-> STACK, prot |-> RWX]
      BY <1>11, <2>1 DEF Region
    <2>3. (NPAGE - STACK) * PGSIZE + STACK * PGSIZE = NPAGE * PGSIZE
      BY <1>1
    <2>4. (NPAGE - STACK) * PGSIZE \in Nat /\ NPAGE - STACK \in 0 .. MPAGES - 1
      BY <1>1
    <2>5. STACK * PGSIZE \in 0 .. WORD - 1 /\ ~((NPAGE - STACK) * PGSIZE + STACK * PGSIZE >= WORD)
      BY <1>11, <2>3, <2>4
    <2> HIDE DEF r
    <2> QED BY <2>1, <2>2, <2>4, <2>5 DEF VmRegion
  <1>13. NoRegion \in VmRegion /\ NoRegion.refcnt = 0 /\ NoRegion.addr = 0 /\ NoRegion.length = 0
    BY DEF NoRegion, VmRegion
  <1> HIDE DEF r
  <1>14. vmr \in [Vmr -> VmRegion]
    BY <1>10, <1>12, <1>13
  <1>15. data = [p \in Page |-> IF p = ELF THEN Text ELSE Old]
    BY DEF Init
  <1>16. data \in [Page -> Block] /\ prom \in [Page -> [src : Block, prot : SUBSET RWX]]
    <2>1. Text \in Block /\ Old \in Block /\ Clean \in Block
      BY DEF Text, Old, Clean, Block
    <2>2. Nothing \in [src : Block, prot : SUBSET RWX]
      BY <2>1 DEF Nothing
    <2> QED BY <1>6, <1>5, <1>15, <2>1, <2>2
  <1>17. EntriesWellFormed
    <2> SUFFICES ASSUME NEW p \in OtherPage, pte[p].type # {}
                 PROVE  pte[p].v = 0 /\ \E prot \in SUBSET RWX : pte[p].type = TypeOf(prot, TRUE)
      BY <1>2, <1>7 DEF EntriesWellFormed
    <2>1. p = ELF
      BY <1>7 DEF Pending, Zero
    <2>2. pte[p].v = 0 /\ pte[p].type = text
      BY <1>7, <2>1 DEF Mapped
    <2> QED BY <1>4, <2>2
  <1>18. VmrCountsPages
    <2>1. Page = OtherPage \cup {KERNEL}
      BY Constants
    <2>2. \A p \in Page : pte[p].v = IF p \in stack THEN 1 ELSE 0
      BY <1>2, <1>7, <2>1 DEF Mapped, Pending, Zero
    <2> SUFFICES ASSUME NEW v \in Vmr
                 PROVE  Counted(vmr[v], Cardinality({p \in Page : pte[p].v = v}))
      BY DEF VmrCountsPages, Counted, Lost
    <2>3. CASE v = 1
      <3>1. {p \in Page : pte[p].v = v} = stack
        <4>1. \A p \in Page : pte[p].v = v <=> p \in stack
          BY <2>2, <2>3
        <4> QED BY <1>2, <4>1
      <3>2. Cardinality(stack) = STACK
        BY <1>1, FS_Interval DEF stack
      <3>3. vmr[v] = r
        BY <1>8, <1>10, <2>3
      <3> QED BY <1>12, <3>1, <3>2, <3>3 DEF Counted
    <2>4. CASE v # 1
      <3>1. v # 0
        BY DEF Vmr
      <3>2. {p \in Page : pte[p].v = v} = {}
        BY <2>2, <2>4, <3>1
      <3>3. vmr[v] = NoRegion /\ Cardinality({p \in Page : pte[p].v = v}) = 0
        BY <1>10, <2>4, <3>2, FS_EmptySet
      <3> QED BY <1>13, <3>3 DEF Counted
    <2> QED BY <2>3, <2>4
  <1>19. RegionKeepsPromise
    <2> SUFFICES ASSUME NEW p \in OtherPage, pte[p].v # 0
                 PROVE  /\ Source(p, vmr[pte[p].v].addr, vmr[pte[p].v].file,
                                  vmr[pte[p].v].offset) = prom[p].src
                        /\ vmr[pte[p].v].prot \subseteq prom[p].prot
      BY DEF RegionKeepsPromise
    <2>1. p \in stack
      BY <1>7 DEF Mapped, Zero
    <2>2. pte[p].v = 1 /\ prom[p].src = Clean /\ prom[p].prot = RWX
      BY <1>7, <2>1 DEF Pending
    <2>3. vmr[1] = r
      BY <1>8, <1>10
    <2> QED BY <1>12, <2>2, <2>3 DEF Source
  <1>20. PageKeepsPromise
    <2> SUFFICES ASSUME NEW p \in OtherPage, pte[p].type # {}
                 PROVE  /\ data[p] \in {prom[p].src, User}
                        /\ pte[p].type \cap {"W", "X"} \subseteq prom[p].prot
      BY DEF PageKeepsPromise
    <2>1. p = ELF
      BY <1>7 DEF Pending, Zero
    <2>2. data[p] = Text /\ prom[p].src = Text /\ prom[p].prot = {"R", "X"}
      BY <1>7, <1>15, <2>1
    <2>3. pte[p].type = text
      BY <1>7, <2>1 DEF Mapped
    <2> QED BY <1>5, <2>2, <2>3
  <1> QED BY <1>9, <1>14, <1>16, <1>17, <1>18, <1>19, <1>20 DEF MemInv, TableTypes

LEMMA InitFiles == ASSUME Init PROVE FileInv
  <1>1. /\ MAX_FILES \in Nat \ {0} /\ MAX_FDS \in Nat \ {0}
        /\ STD \in 1 .. MAX_FILES /\ STD <= MAX_FDS
    BY FilesAssumption
  <1>2. /\ refcnt = [f \in File |-> IF f <= STD THEN 3 ELSE 0]
        /\ kfd = [f \in File |-> IF f <= STD THEN f - 1 ELSE NoKfd]
        /\ fds = [d \in Fd |-> IF d < STD THEN d + 1 ELSE 0]
        /\ host = 0 .. STD - 1
    BY DEF Init, FilesInit
  <1>3. FilesTypeOK
    BY <1>1, <1>2 DEF FilesTypeOK, File, Fd, Kfd, NoKfd
  <1>4. /\ \A v \in Vmr : vmr[v].file = 0
        /\ leaked = [f \in File |-> 0]
    BY DEF Init, Region, NoRegion
  <1>5. ASSUME NEW f \in File
        PROVE  f \in Nat \ {0} /\ f <= MAX_FILES /\ refcnt[f] = (IF f <= STD THEN 3 ELSE 0)
               /\ kfd[f] = (IF f <= STD THEN f - 1 ELSE NoKfd)
    BY <1>1, <1>2 DEF File
  <1>6. ASSUME NEW f \in File
        PROVE  FdsOf(f) = IF f <= STD THEN {f - 1} ELSE {}
    BY <1>1, <1>2, <1>5 DEF FdsOf, Fd
  <1>7. NoKfd \notin host
    BY <1>1, <1>2 DEF NoKfd
  <1>8. DescriptorsHoldFiles
    <2> SUFFICES ASSUME NEW f \in File
                 PROVE  /\ refcnt[f] # 0 => \E d \in Fd : fds[d] = f
                        /\ refcnt[f] = 0 => kfd[f] \notin host /\ kfd[f] = NoKfd
      BY DEF DescriptorsHoldFiles
    <2>1. CASE f <= STD
      <3>1. f - 1 \in FdsOf(f)
        BY <1>6, <2>1
      <3> QED BY <1>5, <2>1, <3>1 DEF FdsOf
    <2>2. CASE ~(f <= STD)
      BY <1>5, <1>7, <2>2
    <2> QED BY <2>1, <2>2
  <1>9. FilesHeldByReferences
    <2> SUFFICES ASSUME NEW f \in File
                 PROVE  /\ refcnt[f] = 0 => Cardinality(FdsOf(f)) + Cardinality(MapsOf(f)) + leaked[f] = 0
                        /\ refcnt[f] # 0 =>
                              /\ refcnt[f] = 2 + (Cardinality(FdsOf(f)) + Cardinality(MapsOf(f)) + leaked[f])
                              /\ kfd[f] \in host
                              /\ \A g \in File \ {f} : refcnt[g] # 0 => kfd[g] # kfd[f]
      BY DEF FilesHeldByReferences, FdsOf, MapsOf
    <2>1. MapsOf(f) = {}
      BY <1>4, <1>5 DEF MapsOf
    <2>2. Cardinality(MapsOf(f)) = 0 /\ leaked[f] = 0
      BY <1>4, <2>1, FS_EmptySet
    <2>3. CASE f <= STD
      <3>1. Cardinality(FdsOf(f)) = 1
        BY <1>6, <2>3, FS_Singleton
      <3>2. kfd[f] \in host
        BY <1>1, <1>2, <1>5, <2>3
      <3>3. \A g \in File \ {f} : refcnt[g] # 0 => kfd[g] # kfd[f]
        BY <1>5, <2>3
      <3> QED BY <1>5, <2>2, <2>3, <3>1, <3>2, <3>3
    <2>4. CASE ~(f <= STD)
      <3>1. Cardinality(FdsOf(f)) = 0
        BY <1>6, <2>4, FS_EmptySet
      <3> QED BY <1>5, <2>2, <2>4, <3>1
    <2> QED BY <2>3, <2>4
  <1>10. leaked \in [File -> 0 .. LEAKS]
    BY <1>4, VmAssumption
  <1> QED BY <1>3, <1>8, <1>9, <1>10 DEF FileInv

LEMMA InitBreak == ASSUME Init PROVE BreakInv
  <1> USE Sizes
  <1>1. brk = 0 /\ brk_max = NPAGE * PGSIZE
    BY DEF Init
  <1>2. 0 \in 0 .. NPAGE /\ NPAGE \in 0 .. NPAGE /\ 0 = 0 * PGSIZE
    OBVIOUS
  <1>3. PICK m \in Nat : Roundup(BRK_MIN) = m * PGSIZE /\ BRK_MIN <= m * PGSIZE
    BY RoundupOf
  <1>4. ELF \in Nat /\ ELF * PGSIZE < BRK_MIN
    BY VmAssumption
  <1>5. OldBrk = m * PGSIZE
    BY <1>1, <1>3 DEF OldBrk
  <1>6. ASSUME NEW p \in UserPage, ~Avail(p), OldBrk <= p * PGSIZE
        PROVE  p >= NPAGE - STACK
    <2>1. p # ELF
      BY <1>3, <1>4, <1>5, <1>6
    <2>2. p # KERNEL /\ p \in Page
      BY Constants
    <2>3. p \in NPAGE - STACK .. NPAGE - 1
      BY <1>6, <2>1, <2>2 DEF Init, Avail
    <2> QED BY <2>3
  <1> QED BY <1>1, <1>2, <1>6 DEF BreakInv

LEMMA InitInv == ASSUME Init PROVE IInv
  <1>1. tlb = {} /\ mode = "user" /\ acc = NoAccess
    BY DEF Init
  <1>2. TlbInv /\ RetryInv
    BY <1>1 DEF TlbInv, RetryInv, HandledFaultIsOver
  <1> QED BY <1>2, InitMem, InitFiles, InitBreak DEF IInv

LEMMA Inductive == Spec => []IInv
  <1>1. IInv /\ [Next]_vars => IInv'
    BY NextInv
  <1> QED BY <1>1, InitInv, PTL DEF Spec
-----------------------------------------------------------------------------
(* What holds in every state of every behaviour.                            *)

\* Type correctness: the counts of the regions stay within an unsigned, and the
\* page table keeps an entry that no mmap takes, for requests of every length.
THEOREM TypeCorrect == Spec => []VmTypeOK
  <1>1. IInv => VmTypeOK
    <2> SUFFICES ASSUME IInv PROVE VmTypeOK
      OBVIOUS
    <2> USE Sizes
    <2>1. /\ TableTypes /\ FilesTypeOK /\ BreakInv /\ TlbInv /\ RetryInv
          /\ Avail(VPAGES - 1) /\ leaked \in [File -> 0 .. LEAKS]
      BY DEF IInv, MemInv, FileInv, EntriesWellFormed, Avail
    <2>2. brk \in 0 .. mmap_max /\ brk_max \in 0 .. mmap_max
      BY <2>1 DEF BreakInv
    <2>3. \A e \in tlb : e.page \in Page /\ e.side \in {"i", "d"} /\ e.type \subseteq Bits
      BY <2>1 DEF TlbInv, TableTypes, Entry
    <2> QED BY <2>1, <2>2, <2>3 DEF VmTypeOK, TableTypes, Entry, VmRegion, RetryInv
  <1> QED BY <1>1, Inductive, PTL

\* The count of a region is the number of entries that point to it, so that
\* __vmr_decref frees a slot of vmrs[] exactly when the last page is gone; a slot
\* that an overlong mapping has lost is pointed to by no entry.
THEOREM RegionsCounted == Spec => []VmrCountsPages
  <1>1. IInv => VmrCountsPages
    BY DEF IInv, MemInv
  <1> QED BY <1>1, Inductive, PTL

\* Every reference of an open file is accounted for by a descriptor, a region or a
\* mapping whose count was cut to zero, and its host descriptor stays open and its
\* own.
THEOREM FilesHeld == Spec => []FilesHeldByReferences
  <1>1. IInv => FilesHeldByReferences
    BY DEF IInv, FileInv
  <1> QED BY <1>1, Inductive, PTL

\* A page that is there holds what its mapping promised or what the program
\* stored there, never what an earlier mapping left.
THEOREM DataFresh == Spec => []FreshData
  <1>1. IInv => FreshData
    <2> SUFFICES ASSUME IInv, NEW p \in UserPage, Valid(p)
                 PROVE  data[p] \in {prom[p].src, User}
      BY DEF FreshData
    <2>1. pte[p].type # {} /\ p \in OtherPage
      BY Constants DEF Valid
    <2> QED BY <2>1 DEF IInv, MemInv, PageKeepsPromise
  <1> QED BY <1>1, Inductive, PTL

\* The flushes of mmap.c are enough: no TLB entry differs from the page table.
THEOREM TranslationsCurrent == Spec => []NoStaleTranslation
  <1>1. IInv => NoStaleTranslation
    BY DEF IInv, TlbInv, NoStaleTranslation
  <1> QED BY <1>1, Inductive, PTL

\* A handled page fault is over, but for pages with W and without R: the handler's
\* bits satisfy the walker.
THEOREM FaultsEnd == Spec => []HandledFaultIsOver
  <1>1. IInv => HandledFaultIsOver
    BY DEF IInv, RetryInv
  <1> QED BY <1>1, Inductive, PTL

\* No sequence of mprotect and faults gives the program rights to write or to
\* execute that the mapping was not made with.
THEOREM RightsKept == Spec => []RightsNeverGrow
  <1>1. IInv => RightsNeverGrow
    <2> SUFFICES ASSUME IInv, NEW p \in Page, "U" \in pte[p].type
                 PROVE  pte[p].type \cap {"W", "X"} \subseteq prom[p].prot
      BY DEF RightsNeverGrow
    <2>1. p # KERNEL
      BY KernelEntry DEF IInv, MemInv
    <2>2. p \in OtherPage
      BY <2>1 DEF OtherPage
    <2>3. pte[p].type # {}
      OBVIOUS
    <2> QED BY <2>2, <2>3 DEF IInv, MemInv, PageKeepsPromise
  <1> QED BY <1>1, Inductive, PTL

\* __vm_alloc finds the lowest free room of the asked size, if there is one before
\* the end it computes, for requests of every length, those included for which the
\* end or the last page wraps.
THEOREM SearchFindsRoom == Spec => []AllocFindsRoom
  <1>1. IInv => AllocFindsRoom
    <2> SUFFICES ASSUME IInv, NEW n \in 1 .. MPAGES
                 PROVE  LET search == brk \div PGSIZE .. (NPAGE - n) % MPAGES
                            fits(a) == a + n <= MPAGES
                            room == {a \in search : fits(a) /\ \A b \in a .. a + n - 1 : Avail(Walk(b))}
                            wraps == {a + n - 1 - MPAGES : a \in {b \in search : ~fits(b) /\ Avail(Walk(b))}}
                        IN  IF room # {} THEN VmAlloc(n) = Min(room)
                            ELSE VmAlloc(n) \in wraps \cup {0}
      BY DEF AllocFindsRoom
    <2>1. brk \in 0 .. mmap_max
      BY Sizes DEF IInv, BreakInv
    <2>2. Good(VmAlloc(n), brk \div PGSIZE, n)
      BY <2>1, AllocIsGood
    <2> QED BY <2>2 DEF Good, Rooms, Wraps, End
  <1> QED BY <1>1, Inductive, PTL

\* do_brk does not replace a page the program mapped, as long as every mmap lay
\* above the program.
THEOREM MappingsSpared == Spec => BrkSparesMappings
  <1> USE Sizes
  <1> DEFINE Spares == \A p \in UserPage :
                          /\ brk_max > BRK_MIN
                          /\ brk # 0 /\ brk <= p * PGSIZE /\ p * PGSIZE < brk'
                          => Avail(p) \/ p >= NPAGE - STACK
  <1>1. ASSUME IInv, Brk PROVE Spares
    <2>1. BreakInv
      BY <1>1 DEF IInv
    <2>2. PICK b \in 0 .. NPAGE : brk = b * PGSIZE
      BY <2>1 DEF BreakInv
    <2>3. brk' = brk \/ \E addr \in 0 .. mmap_max : brk' = Roundup(BrkFor(addr))
      BY <1>1, BrkCases DEF Panic
    <2>4. CASE brk' = brk
      BY <2>2, <2>4
    <2>5. ASSUME NEW addr \in 0 .. mmap_max, brk' = Roundup(BrkFor(addr)) PROVE Spares
      <3> SUFFICES ASSUME NEW p \in UserPage, brk_max > BRK_MIN, brk # 0,
                          brk <= p * PGSIZE, p * PGSIZE < brk', ~Avail(p)
                   PROVE  p >= NPAGE - STACK
        OBVIOUS
      <3>1. PICK q \in 0 .. NPAGE : brk' = q * PGSIZE /\ q * PGSIZE <= brk_max
        BY <2>1, <2>5, BrkMoves
      <3>2. OldBrk = brk
        BY DEF OldBrk
      <3>3. brk_max <= p * PGSIZE \/ p >= NPAGE - STACK
        BY <2>1, <3>2 DEF BreakInv
      <3>4. brk_max \in 0 .. mmap_max
        BY <2>1 DEF BreakInv
      <3> QED BY <3>1, <3>3, <3>4
    <2> QED BY <2>3, <2>4, <2>5
  <1>2. ASSUME IInv, UNCHANGED brk PROVE Spares
    BY <1>2 DEF IInv, BreakInv
  <1>3. ASSUME IInv, [Next]_vars PROVE [Spares]_vars
    <2>1. CASE Brk
      BY <1>1, <1>3, <2>1
    <2>2. CASE Next /\ ~Brk
      <3>1. UNCHANGED brk
        <4>1. Panic => UNCHANGED brk
          BY DEF Panic
        <4>2. Open \/ Munmap \/ Mprotect \/ SysExit => UNCHANGED brk
          BY <4>1 DEF Open, vmVars, Munmap, Mprotect, SysExit
        <4>3. \A first, len, prot, d, off, populate :
                Mmap(first, len, prot, d, off, populate) => UNCHANGED brk
          BY <4>1 DEF Mmap
        <4>4. MmapFixed \/ MmapAnywhere => UNCHANGED brk
          BY <4>3 DEF MmapFixed, MmapAnywhere
        <4>5. \A p, k : Access(p, k) \/ FaultAgain(p, k) \/ Segfault(p, k) => UNCHANGED brk
          BY <4>1 DEF Access, FaultAgain, Segfault
        <4>6. \A p, k : FaultIn(p, k) => UNCHANGED brk
          BY <4>1 DEF FaultIn
        <4>7. Instruction => UNCHANGED brk
          BY <4>5, <4>6 DEF Instruction
        <4> QED BY <2>2, <4>2, <4>4, <4>7 DEF Next
      <3> QED BY <1>2, <1>3, <3>1
    <2> QED BY <1>3, <2>1, <2>2
  <1>4. IInv /\ [Next]_vars => [Spares]_vars
    BY <1>3
  <1> QED BY <1>4, Inductive, PTL DEF Spec, BrkSparesMappings
=============================================================================
