# Verification of hackatdac21: memory pipeline, data cache, machine layer, proxy kernel

`src/` is an OpenPiton system-on-chip whose tiles hold an Ariane (CVA6) RISC-V
core with a write-through L1 data cache, and `src/pk`, the machine layer and
proxy kernel that run on it.  This project models the parts of it in which most
of the concurrency and of the long-lived state is:

* the path of loads, stores and atomics of the core, from issue to the cache;
* the data cache behind it: read ports, write buffer, miss unit, memories;
* the machine layer of pk: host-target interface (HTIF), inter-processor
  interrupts, remote fences, shutdown;
* the proxy kernel's virtual memory and file table, under a user program whose
  accesses go through Ariane's TLBs and walker.

Paths without `src/` are relative to `src/piton/design/chip/tile/ariane/src/`.

The hardware models are register-transfer level.  A variable is a flip-flop (or
a register file), named as in the source; a `_q` register of the source is the
unprimed variable and its `_d`/`_n` input the primed one.  A combinational
signal is an operator with the name of the signal, and one step is one rising
clock edge of the whole model, so that everything the code does in one cycle
(push, pop, flush, grant, write-back, retirement) happens in one step, in the
order of the assignments of the `always_comb` block.  The nondeterminism is in
the inputs.  In the software models a step is an access to a word other harts or
the host use (machine layer), or one whole trap (proxy kernel, which runs on one
hart with interrupts off).

## 1. Inventory

### Components that are modelled

| Component | State | Operations | Interacts with |
|---|---|---|---|
| Store buffer (`store_buffer.sv`) | two rings of stores (speculative, commit) with read and write pointers, counters, valid bits | push, commit (head moves from ring to ring), grant (head leaves for the cache), flush of the speculative ring, address check | store unit, commit stage, data cache, load unit |
| Store unit, AMO buffer (`store_unit.sv`, `amo_buffer.sv`) | four-state FSM, second-stage register, one-entry AMO FIFO | translate, check for space, write one cycle later, trap, flush; hand an AMO to the cache | LSU queue, MMU, store buffer, commit stage |
| Load unit (`load_unit.sv`) | nine-state FSM, id of the load in the cache | request, send tag, abort, kill, wait for stores, return a result or an exception | LSU queue, MMU, address check, cache port |
| LSU queue (`lsu_bypass` in `load_store_unit.sv`) | two entries, pointers, counter | push, pop by load and store unit, flush, pass-through | issue stage, both units |
| MMU, data side (`mmu.sv`) | registered request, address, misaligned flag, TLB hit | translate; exception one cycle later or when a walk fails | both units, walker |
| Page table walker, data TLB (`ptw.sv`, `tlb.sv`) | five-state FSM, level, page, fetch/data flag; TLB entries | walk, descend, fail, fill, flush, SFENCE.VMA | MMU, front end, cache port |
| Scoreboard, issue register (`scoreboard.sv`, `issue_read_operands.sv`) | ring of entries, counter, pointers; ID/EX register | issue, write back, retire one or two, flush | front end, units, commit stage |
| Commit stage, flush controller (`commit_stage.sv`, `controller.sv`), single step of the CSR file (`csr_regfile.sv`) | none of their own | retire, commit a store, request an AMO, wait for the commit queue, trap, flush | everything |
| Data cache read port (`cache_subsystem/wt_dcache_ctrl.sv`) | eight-state FSM, tag, index, `rd_ack_q` | read, compare, miss, replay, kill | load unit, walker, cache memories, miss unit |
| Data cache write buffer (`cache_subsystem/wt_dcache_wbuffer.sv`) | entries with dirty, valid and in-flight bytes and the ways that hold their line; transaction table; answers | merge a store, look tags up, send, take an answer, update the cached copy, evict, void what it knows on a refill or invalidation | store unit, miss unit, memories |
| Data cache miss unit (`cache_subsystem/wt_dcache_missunit.sv`) | seven-state FSM, one miss register (MSHR), collision flags, enable | arbitrate, allocate, replay, stall on collisions, drain, atomics, enable through a flush, invalidate, refill | ports, write buffer, memories, the memory behind |
| Data cache memories (`cache_subsystem/wt_dcache_mem.sv`, `wt_dcache.sv`) | tags and data, registered read-out | arbitrate reads and writes, compare, overlay with the write buffer | ports, write buffer, miss unit |
| HTIF (`src/pk/machine/htif.c`, `src/pk/pk/frontend.c`) | two mailboxes, one-character buffer, lock; system call buffer and its lock | getchar, putchar, system call, power-off | every hart, the host |
| IPIs and calls (`src/pk/machine/mtrap.c`, `mentry.S`) | per hart: line, pending events | post, ring, wait for the receivers while answering others, restore, take, fetch, handle; clear, shutdown | every hart, HTIF |
| pk file table (`src/pk/pk/file.c`) | entries with reference counts, descriptors, the host's descriptors | open, reference, dereference (closes on the host) | virtual memory, host |
| pk virtual memory (`src/pk/pk/mmap.c`, `syscall.c`, `handlers.c`) | page table, regions, break; TLBs | mmap, munmap, mprotect, brk, page faults, exit | user program, file table, walker |

### What is hard about it

* **Decisions a cycle before their use.**  Space in the store buffer, the
  physical address, the exception, the ready flag of the LSU queue and the tags
  the write buffer has looked up are registered; commits, flushes, grants,
  refills and invalidations come in between.
* **Unnamed hand-overs.**  A commit moves whatever is at the head of the
  speculative queue; an answer of the cache belongs to whatever `load_data_q`
  says; a flush restarts transaction ids at zero while old answers are on
  their way.
* **Many events in one cycle.**  A flush coincides with a push, a grant, an
  acknowledge, a cache answer or a second retirement.
* **A word in many places.**  The last store to a byte is in the buffer, in a
  transaction, in memory or in a way, and transactions overtake each other.
* **Abandoned requests.**  Loads are killed and aborted, walks are flushed, and
  the cache still answers.
* **Waiting on each other.**  A load waits for a store at its page offset, the
  store for its turn to retire.  Harts wait for each other's interrupts with
  their own interrupts off, for two locks and for the host.
* **Flags that stand for events.**  An interrupt line is cleared by three parties;
  a mailbox is read as empty in one step and written in another.
* **Lengths without a bound.**  A mapping may be longer than the address space; its
  end, the end of the search for room and its count of pages wrap.
* **Long sequences of legal calls.**  Reference counts of regions and files are
  carried through any mixture of overlapping mappings, and cached translations
  through any change of the table.

The list, at the lines where it bites, is `hazards` in `PROJECT.json`, each
hazard with the properties that would catch it.

### What makes each component correct

* Store buffer: pointers, counters and valid bits agree; the rings are two FIFO
  queues; a flush drops the uncommitted stores and only those.
* Store unit: what has passed the space check has a slot a cycle later.
* Commit stage: it commits the store of the instruction it retires, never commits
  and flushes together, and retires a fence when memory has every older store.
* Load unit and cache port: a load returns the youngest older store; no answer
  is lost, doubled or delivered to another load.
* LSU queue: no request is lost or doubled.
* MMU and traps: what must trap does not retire and leaves no store behind.
* Walker: an entry it uses is the one it asked for; every walk ends.
* Data cache: reads return the last store byte by byte; the last store survives;
  a line is in one way; an atomic finds every older store in memory.
* HTIF: no character, command or result is lost, doubled or given to another.
* IPIs: no event is lost; a remote fence holds when its call returns; nobody waits
  for ever; a shutdown reaches the host.
* Virtual memory: counts are exact, whatever length is asked for; no stale
  translation, no stale data, no rights beyond those of the mapping; a handled
  fault is over.

### Components that are not modelled

`components` in `PROJECT.json` lists all of them with the reason.  In short: the
L1.5 adapter (the next step of the plan; the memory behind the data cache is
free to answer in any order instead); WFI and the rest of the CSR file; decoder,
ALU, FPU, multiplier and register files, which are data paths; debug module,
PLIC, CLINT, AXI and common-cells libraries, which are vendored; the peripherals
(AES, SHA, RSA, ...), data paths behind register wrappers; OpenPiton's own
caches, network, chipset and the other cores, separate systems.  Most C code of
the repository is not control logic of this system: SoftFloat, register and
instruction encodings, boot images, and the vendored simulator and assembler
tools.  What is left of it, `src/pk/machine` and `src/pk/pk`, is modelled but for
the drivers, the boot code and the emulation of single instructions.

## 2. Modules

    StoreQueue            abstract specification: two FIFO queues
      ^ implemented by
    StoreBuffer           registers of store_buffer.sv, no next-state relation
      ^ extended by
    StoreUnit             store_unit.sv + amo_buffer.sv; SUSpec
      ^ extended by              ^ extended by
    StoreUnitProofs       LSU  <--- LoadUnit, DCtrl, LsuBypass, Walker
      ^                    ^ extended by
      |                   Core   scoreboard, issue, commit, controller; Spec
      |                    ^ extended by
      |                   MCCore (programs)  <-  MCCoreLive (fairness)
      |
    CoreProofs (also extends Core)  <-  CoreOrderProofs

    WalkPort  <--- Walker, DCtrl    the walker with its own cache port; Spec
      ^ extended by
    MCWalkPort (fairness), WalkPortProofs

    CacheTypes  <-  WBuffer, MissUnit, DCacheMem  <-  DCache  <--- DCtrl (twice)
                                                        ^ extended by
                                                      DCacheProofs

    Harts  <-  Htif, Ipi  <-  Sbi  <-  SbiProofs  <-  HtifProofs
    PkFiles  <-  PkVm  <-  MCPkVm
                       <-  PkVmProofs

(`<-` extends, `<---` instantiates.)  How they follow the code:

* **StoreBuffer**: `core_if` and `store_if` are the two `always_comb` blocks,
  `page_offset_matches_o` the address checker.  `Wrap` is the overflow of a
  register that is exactly as wide as it needs to be; counters wrap at twice
  the depth.
* **StoreUnit**: `store_control` is the FSM, `SUStep` one clock edge.  `SUSpec`
  closes it with arbitrary inputs under `CommitContract`, what the store unit
  relies on from the commit stage.  `StoreUnitInPipeline` (section 4) proves that
  the commit stage of `Core` keeps it.
* **LoadUnit**, **DCtrl**, **LsuBypass**, **Walker**: FSM (`state_d`), outputs
  and registers of the file they are named after.  The inputs of a cycle are
  fields of a record.
* **LSU**: the wiring of `load_store_unit.sv` and the registered data side of
  the MMU.  `mmu_exception` is one signal for both units, as in the code.
  `StallNC` is `stall_nc`, with the physical address of the previous cycle.
* **Core**: `scoreboard` is `issue_fifo` with its counters, `commit_ack0`,
  `commit_ack1`, `commit_lsu`, `exception_taken` the commit stage, `flush` the
  controller's `flush_ex_o`.  `mem` is memory as the cache ports present it and
  `arch` a history variable, memory as the retired program defines it.
* **WalkPort**: `Walker` with the port `DCtrl` and the registers between them
  (`tag_valid_q`, `data_rvalid_q`, the answer).  An answer carries the index
  and the tag it was read with, and the walker sees an entry of *that* page,
  whoever asked for it.
* **WBuffer**: `entry_d` is `p_buffer` for one entry, `tx_stat_d` is `p_tx_stat`;
  a tag read passes through `check_q` and `check_q1`, the two cycles it takes.
* **MissUnit**: `state_d`, `load_req`, `store_req`, `atomic_req`, `miss_replay`
  are the outputs of `p_fsm`; the three collision signals have their names.
* **DCacheMem**: one set, `rd_q` the read-out; the memory does not reset.
* **DCache**: `Cycle` wires the three and two instances of `DCtrl` as
  `wt_dcache.sv` does; `Atomic` and `WriteCsr` are the core's other requests.
* **Harts**, **Htif**, **Ipi**, **Sbi**: `pc` says where a hart is.  Each shared
  access of `htif.c`, `send_ipi`, `send_ipi_many` and the interrupt entry of
  `mentry.S` is an action; `Sbi` adds the calls and the host.
* **PkFiles**, **PkVm**: one action per system call and one for each outcome of an
  access (`Access`, `FaultIn`, `FaultAgain`, `Segfault`); `Allowed` is what walker
  and TLB check, `Grants` what the kernel checks.  Sums of addresses wrap at
  `WORD`, the count of a region at `UINT`; `Walk` is the index that `__walk` makes
  of an address.  `VmAlloc` is the search of `__vm_alloc` round by round, and
  `Update` the replacement in `tlb.sv`, with any victim.

### Abstractions

*Core.*  An address is a page and an offset (bits 11:3); data, byte enables and
size are one value, so two stores overlap entirely or not at all.  Translation
is the identity on mapped pages: the properties are about who gets a
translation and when, not about its bits.  Which AMO it is does not matter; it
writes its operand.  The TLB's replacement policy is a free choice of victim.
Register operands and the hazards on them only delay issue; the front end may
issue or not in any cycle.  A `trap` instruction stands for everything that
traps before execution, `csr` for what flushes without waiting, `fence` for
FENCE and FENCE.I.  WFI is left out: `halt_i` is low.  Address translation is off
or on for a whole run; in the write-through configuration FENCE does not flush
the data cache.

*Data cache.*  All lines are of one set and a line is one word, so that every
pair of accesses can conflict.  A value is abstracted to whether it is the last
one stored: each place holds the set of bytes for which it is, and a store that
is granted removes its bytes everywhere but in the write buffer.  The arbiters
and the replacement are free choices (an entry on offer stays on offer);
transaction ids are interchangeable.  `flush_i` is never raised in this
configuration (`controller.sv:85`, `:103`, `:111`), so the only flush is that of
reset and enabling.  The back-off of LR is a delay.  Registers that no state
reads are reset.  `tag_valid` follows a grant in the next cycle.

*Machine layer.*  The HTIF calls are open to every hart, which is more than
today's callers do: the locks are written for it.  `__check_fromhost` is one
step, since the host leaves `fromhost` alone while it is not zero.  The two
remote fences are one event.  Harts that are disabled are left out: they get no
event.  Memory is sequentially consistent between the code's fences.

*Proxy kernel.*  One trap is one step, its loops over pages in closed form.  A
page-table page that is missing is a zero entry.  The pool the tables come from
is not counted: a call that maps pages may always find it empty, which stops the
machine (`kassert` in `__page_alloc`).  Virtual page *p* always has the same frame,
as in the code, and the bytes of a frame are abstracted to whose data they are.
The kernel's own accesses to user buffers are not modelled.  The ELF loader and
`pk_vm_init` are the initial state.

An address is a byte of a `uintptr_t`, so a request may start at any page and have
any length a `size_t` holds; only the range checks of the code stop it.  The page
table has `VPAGES` entries, and an address above is looked up modulo them.  One
page, `KERNEL`, stands for the range in which the kernel lives: a mapping over it
takes the kernel's code away, and one that needs tables up to the end of the
address space exceeds the pool; both stop the machine (`Mappable`).  A region whose
count is cut to zero is free, whatever its fields say, and is shown as `NoRegion`.
`leaked` is a history variable: the file references taken for such a region, which
nobody gives back.  `LEAKS` bounds them, as memory bounds the count of a file.

### Environment

Definitions marked external in the map.  For `Core` and `WalkPort`:
`CacheAnswers`, `WalkAnswers`, `Answers`, `WBufferEmpty`, `FlushTiming`,
`memory`: any answer the protocol allows, at any time, with the newest data.
That the cache answers with the newest data is what `DCache` shows
(`ReadsReturnLastStore`).  For `DCache`: the memory takes and answers requests
when it likes, in any order, and invalidates any way at any time; a load reads
it when it is taken and a store is performed when it is answered, as early and
as late as can be; the line of an atomic is invalidated before it is answered,
as the L1.5 cache does.  For `Sbi`: the host, which empties `tohost`, fills
`fromhost` when that is empty, answers system calls, types characters.  For
`PkVm`: the host refuses or grants an open.

Definitions named `..._Mutant` are deliberately wrong variants used to test the
properties (`mutants` in `PROJECT.json`: each property must fail with its
variant in place).  No specification uses them.

## 3. Runs

Passing runs (`tlc -config X.cfg M`):

| Run | Properties | What it shows | Distinct states |
|---|---|---|---|
| `store_unit` | `TypeOK`, `RingsConsistent`, `SecondStageHasRoom`, `ImplementsStoreQueue` | the store unit under any inputs the contract allows | 11 392 |
| `core_order` | `CoreTypeOK`, `LoadsSeeOlderStores`, `NothingLost` | loads and stores to one address and CSR flushes, translation on, one TLB entry, two-level walks | 48 766 |
| `core_commit` | `SpeculativeQueueFollowsProgram`, `CommittedStoresReachMemory`, `FencesFindStoresInMemory`, `CommitStageKeepsContract` | stores of two values, AMO, SFENCE.VMA, trap: what retires is what was executed, and reaches memory once, in order and before a fence retires | 88 129 |
| `core_fault` | `FaultNeverRetires` | a page the walker cannot map, a page mapped but forbidden, misaligned accesses, walks of the front end | 71 088 |
| `core_live` | `EveryInstructionLeaves` | progress, with a store and a load of a non-idempotent, translated page | 22 292 |
| `walk_port` | `AnswerIsOwn`, `IdleWalkerOwesNothing`, `WalkEnds` | three-level walks for data and fetch, flushes, progress | 6 188 |
| `dcache` | `DCacheTypeOK`, `ReadsReturnLastStore`, `CheckedEntryKnowsItsWays`, `LineInOneWay`, `LastStoreSurvives`, `AtomicSeesAllStores` | the whole data cache: reads of both ports, stores, atomics, enabling, refills, invalidations, answers in any order | 66 734 |
| `pk_vm` | `VmTypeOK`, `VmrCountsPages`, `FilesHeldByReferences`, `FreshData`, `NoStaleTranslation`, `HandledFaultIsOver`, `RightsNeverGrow`, `AllocFindsRoom`, `BrkSparesMappings` | any sequence of open, mmap, munmap, mprotect, brk and accesses, with mappings from one page to longer than the address space | 85 535 |
| `sbi` | `SbiTypeOK`, `NoEventLost`, `RemoteFenceHolds`, `FromConsole`, `ResultIsOwn`, `NoInputLost`, `NoOutputLost`, `EveryCallReturns`, `ShutdownReachesHost` | two harts calling at the same time, the host at its own pace | 248 057 |

Runs that show a disagreement between the code and its own comments or
assertions (section 5): `exception_own`, `commit_flush`, `walk_flush`.

### Bounds

* `DEPTH_SPEC = DEPTH_COMMIT = 2` (code: 4 and 4 or 8).  Two is the smallest
  depth with a pointer; every coincidence of full, empty, wrap and a store in
  the second stage occurs.  The theorems of section 4 cover all depths.
* `NR_SB_ENTRIES = 4`, so three instructions in flight (code: 8, seven).  The
  interlocks are between two instructions with at most one between them, and
  transaction ids are reused after a few cycles, which makes the stale-answer
  cases *more* frequent than in the code.
* `LEVELS` is 1 to 3, `TLB_ENTRIES = 1`, so that a fill evicts.
* Each run has its own small instruction set (`MCCore.tla`), chosen for the
  question: one address where order matters, so that every pair conflicts, two
  values where the identity of a store matters, three kinds of faulting access
  where traps matter.  The program is otherwise any sequence, of any length:
  there is no step bound.
* `FLUSH_GAP = 4` cycles lie between two flushes in `WalkPort`: after a flush
  the next instruction has to be fetched, issued, executed and retired.
  `FlushInWait` says whether a flush may come while the walker still waits for
  the answer of a walk flushed before; the passing run excludes it, since
  that case is the finding of `walk_flush`.
* `dcache`: two lines, two bytes, two ways, two entries and two transactions,
  `MAX_OPS = 3`: three of what the core and the memory begin (reads, stores,
  atomics, enabling, invalidations), each of which takes many cycles and many
  answers.  A store to a byte in flight, a read of a line in flight, two misses
  of one line and a refill between a tag check and the update each need two or
  three.  It also passes with all byte enables (116 524 states) and with four
  operations on one byte (251 690 states, three minutes).  The theorems of
  section 4 cover every number of lines, ways, entries, transactions and
  operations.
* `pk_vm`: four pages of two bytes below `mmap_max`, one of text and one of stack,
  a page table of nine entries, a word of 18 pages and an `unsigned` of 16 values;
  two regions, three files, two descriptors.  A request has one byte, three (two
  pages), 30 (15 pages) or 32 (16 pages), so that regions are split, replaced,
  exhausted and used up.  With 15 and with 16 pages the end of the search wraps; if
  the pages above the break are taken, the last page wraps, too, and is returned,
  below the break.  The end of such a mapping wraps and no page is mapped: 15 pages
  lose their slot, and 16 have a count that is cut to zero after the file was
  referenced.  `LEAKS = 1`: after one such reference the next one is not taken.
  `AllocFindsRoom` asks for every number of pages the word has, which includes those
  for which room is found behind `mmap_max`.  Page 4 is the kernel's, and page 11,
  where a request may start, is one that the table takes for page 2.  mmap asks for
  a readable page, and mprotect for a readable or a writable one; each TLB has one
  entry, so that a new translation evicts.  The number of steps is not bounded.  The theorems of section 4 cover all sizes of
  memory, page, table, word and count, all lengths and any number of leaks.
* `sbi`: two harts, three calls in all, two characters; with two harts every hart
  is sender and receiver at once, and the third call meets the first two at any
  point.  The theorems of section 4 cover any number of harts, calls and
  characters.
* Symmetry (`Line`) is used only in `dcache`, where no operator chooses a line;
  elsewhere the values of the reset state break it.

Deadlock checking is on except in `pk_vm` and `sbi`, where the machine may halt and
the calls are bounded.

### Fairness

`MCCoreLive` and `MCWalkPort` add `clk`, which toggles with every step, so a
cycle in which no register changes is still a step, and state fairness on
situations that only the environment can end: a store or AMO offered to the
cache is taken; a load offered is granted; a read that is replayed or misses is
served; the write buffer drains.  The code justifies it by its round-robin
arbiters and because the conflicting write or miss completes; nothing is asked
of the front end, and nothing of the units under test.  `MCCoreLive` also
assumes that a walk ends; `WalkEnds` is that statement, checked in `walk_port`
from the fairness of the cache alone.

`Sbi` asks for weak fairness of every hart's next step (a hart in machine mode
runs on, and an interrupt that is pending is taken) and of the host's two polls.
It asks for nobody to call or to type.  The locks are spin locks without a
queue; since the calls are bounded, starvation by endless calls of another
hart is not covered.

## 4. Proofs

Every safety property that a passing run checks is also a theorem, proved for every
value of the constants that satisfies the named assumptions and the hypotheses the
theorem states.  What is left to TLC alone is listed at the end.

### Store unit

`StoreUnitProofs` proves, for every depth of the queues and all sets of pages,
offsets and data,

| Theorem | Statement |
|---|---|
| `TypeCorrect` | `SUSpec => []TypeOK` |
| `StoreBufferConsistent` | `SUSpec => []RingsConsistent` |
| `NoOverflow` | `SUSpec => []SecondStageHasRoom` |
| `Refinement` | `SUSpec => ImplementsStoreQueue` |

The inductive invariant is `IInv == TypeOK /\ RingsConsistent /\
SecondStageHasRoom`.  None of the last two is inductive alone.  A push keeps the
ring consistent only if there is a free slot, which is `SecondStageHasRoom`; and
that a slot is free in the next cycle follows from `ready_o`, which looks at the
counter, together with the consistency of counter and pointers.  The argument
has one lemma for each event on a ring (`RingPush`, `RingPop`), one for a
step of each ring (`SpecRingStep`, `CommitRingStep`), each with its cases of
push, commit, grant and flush, and one for the space check (`RoomStep`), whose
interesting case is `ready_o` raised by `commit_i` while the queue is full: the
commit frees the slot in the same cycle.

The refinement reads each ring as the sequence from its read pointer on.  A push
appends to that sequence and a pop takes its head (`ContentsPush`,
`ContentsPop`); a cycle may do both to both queues and flush, and `StepRefines`
shows it to be the one step of `StoreQueue` with the same push, commit, grant and
flush.

Assumptions: `DepthAssumption` (both depths at least two), `StoreAssumption`
(the sets are not empty).  `PowerOfTwoAssumption` records what makes `Wrap` the
right model of the pointers.  The contract `CommitContract` is part of
`SUNext`.  The theorems on the pipeline discharge it, and run `commit_flush` shows
the one situation, single stepping, where the code breaks it.

### Memory pipeline

`CoreProofs` and `CoreOrderProofs` prove, for every number of scoreboard entries,
depth of the queues, set of addresses and data, page table, cacheable and
non-idempotent region and timing of the caches,

| Theorem | Statement |
|---|---|
| `CoreTypeCorrect` | `Spec => []CoreTypeOK` |

and, under the hypothesis `~SingleStep`,

| Theorem | Statement |
|---|---|
| `PipelineCorrect` | `Spec => []PipelineInv` |
| `CommitContractKept` | `Spec => []CommitStageKeepsContract` |
| `StoreUnitInPipeline` | `Spec => SUSpec` |
| `StoreQueueInPipeline` | `Spec => ImplementsStoreQueue` |
| `CommittedStoresKept` | `Spec => []CommittedStoresReachMemory` |
| `FencesWaitForStores` | `Spec => []FencesFindStoresInMemory` |
| `LoadsInOrder` | `Spec => []LoadsSeeOlderStores` |
| `FaultsNeverRetire` | `Spec => []FaultNeverRetires` |
| `NothingIsLost` | `Spec => []NothingLost` |
| `StoresFollowProgram` (with `NoFaults`) | `Spec => []SpeculativeQueueFollowsProgram` |

`~SingleStep` is needed: with `dcsr.step` set the contract is broken
(`commit_flush`).  The program is arbitrary: accesses that fault or are misaligned,
instructions that trap before execution, fences, CSR writes, AMOs, flushes at any
time, TLB misses, walks of the front end and stalls are all included.  Only
`StoresFollowProgram` also assumes `NoFaults` (no access of the program raises an
exception), and has to: between an exception and the flush it causes, the queue may
hold stores of entries that the exception has marked, which will not retire.
What is true of the queue then is `QueueDoomed`, below, and it is enough for the
contract.

`PipelineInv` is a disjunction of two modes, `Running` and `Trapping`, beside the
types, the store unit's own invariant, `MmuOK` and `CommittedStoresReachMemory`,
which hold in both.

**Running**, while no exception of an access has reached a unit, follows an
instruction through the registers.  Its parts, in the order in which they need each
other:

* `ScoreboardRing`: the counter and the pointers agree with the entries that are
  in use, modulo the size of the scoreboard.  `FifoOK` says the same of the LSU
  queue, whose ready flag is a cycle old: what is issued finds a place.
* `OwnWork`: what a register of the pipeline holds under a transaction id is the
  instruction of that entry, which still waits for it.  This is what a flush could
  break, since it restarts the ids at zero while the cache still answers: after a
  flush the load unit is in `WAIT_FLUSH` for the one cycle in which the scoreboard
  is empty, kills the read under way and hands over nothing (`LoadUnitOK`, which
  also says which states of load unit and port go together).
* `InOrder`, `DoneInOrder`: result register, cache port, second stage of the store
  unit, queue and issue register hold instructions in program order, and no store
  is done before an older one.  So no id is in two places.
* `AmoOK`: the AMO buffer holds the AMO at the commit pointer, with its operand.
* `SpeculativeQueueFollowsProgram` is inductive with these: a store enters the
  queue at the end in the cycle in which it is marked done, and leaves it at the
  head in the cycle in which it retires.
* `AllFound` is what the address check of the store buffer sees: every older store
  that is not in memory is in one of the two queues or in the second stage, whose
  offset the MMU register holds (`MmuOK`).  `LoadsClear` says that a load in the
  cache or with a result has no older store at its page offset, neither in flight
  nor in the commit queue; it is established by `page_offset_matches_o` when the
  load is requested, and no older store can come later because stores pass the
  queue in order (`InOrder`).  It also says that the result is what memory holds at
  the load's address, and since no older store is on its way there, that this
  stays so.
* `RequestOK` ties the MMU to the request it works for: the walk, the TLB hit and
  the state of the store unit belong to the front of the LSU queue.  `NoTrapYet`
  says that no access that must trap has got past the MMU.

**Trapping** holds from the first exception of an access until the flush of the
trap.  The MMU reports a cycle after the request, and both units look at
`ex_i` whatever they are doing, so requests disappear, results are marked that are
not the culprit's (`exception_own`), the LSU queue is popped when it is empty, and
the identification of every result with its instruction is lost.  What remains is
stated for the entries before the first that must trap (`Sound`):

* `Doomed`: there is such an entry, and every request that is still to be served
  comes after it; `StoresDoomed` says so of the second stage of the store unit.
* `FifoDoomed`: how far the counter of the LSU queue may run away.
* `ReadsDoomed`, `ReturnsDoomed`, `FoundDoomed`: the one sound load that the cache
  may still be working for is the one in its register, has been checked against
  the older stores and will have the value that memory holds.  `DoneDoomed`,
  `AmoDoomed` say what the finished sound entries have: the value, the operand; and
  that an entry that must trap and is done is marked.
* `QueueDoomed`: the speculative queue begins with the stores that no mark stops
  (`Live`: sound, and no older entry marked but by a trap before execution), in
  program order.  What lies behind them is discarded by the flush.

The first exception leads from `Running` to `Trapping` (`TrapComes`): `MmuOK` and
`RequestOK` say that it belongs to the front of the queue, everything older is
done or in the cache, everything younger is still behind it.  `Trapping` is kept
(`TrapStep`) until the marked entry reaches the commit pointer or another flush
comes, and every flush leads to `Running`.

The theorems follow from either mode in the same way:

* `CommitStageKeepsContract`: a store at the commit pointer that is done and not
  marked is at the head of the speculative queue.  With the contract the store
  unit's own invariant (`IInv` of `StoreUnitProofs`) and its refinement hold inside
  the pipeline: every step of `Core` is a step of `SUNext` (`StoreUnitCycle`).
* `CommittedStoresReachMemory` then follows from four facts about the youngest
  store to an address in a sequence, of which `YoungestPush` (retirement) and
  `YoungestPop` (grant) are the steps.
* `FencesFindStoresInMemory`: with the commit queue empty, which is all a fence and
  an AMO wait for, `CommittedStoresReachMemory` says that memory is `arch`.
* `LoadsSeeOlderStores`: the result of a load is what memory holds at its address
  (`LoadsClear`, `DoneDoomed`); with `CommittedStoresReachMemory` it is `arch` at
  that address.
* `FaultNeverRetires`: an access that must trap has no result (`NoTrapYet`) or a
  marked one (`DoneDoomed`), although the exception it is marked with may be another
  instruction's.  The delicate step is a load whose request is granted in the
  cycle before the exception: its tag is never sent (`ReadsDoomed`).
* `NothingLost` speaks of the entries before the first that must trap: `OwnWork`,
  `InOrder` and `AllFound` give each its one place, and in `Trapping` only the
  cache and its result register are left (`FoundDoomed`).

The step of a mode (`RunStep`, `TrapStep`) has one lemma for each part.  `Cycle` is
first cut into the steps of the units (`Steps`), so that each lemma sees only its
own wires.  Facts about distances on the ring of the scoreboard (`CoreProofs`) are
stated once and serve all parts.  Assumptions: `CoreAssumption`, `LSUAssumption`,
those of the store unit, and nothing else; the numbers of entries and ports are
arbitrary.

### Data cache

`DCacheProofs` proves, for every number of lines, ways, write buffer entries,
transactions and operations, every block of bytes a store may write and every
order in which the memory answers,

| Theorem | Statement |
|---|---|
| `TypeCorrect` | `Spec => []DCacheTypeOK` |
| `ReadsAreLast` | `Spec => []ReadsReturnLastStore` |
| `ChecksAreCurrent` | `Spec => []CheckedEntryKnowsItsWays` |
| `WaysDiffer` | `Spec => []LineInOneWay` |
| `StoresSurvive` | `Spec => []LastStoreSurvives` |
| `AtomicsAfterStores` | `Spec => []AtomicSeesAllStores` |
| `TransactionsMatch` | `Spec => []TransactionsMatchEntries` |

The last one is a fact about the write buffer that `LastStoreSurvives` rests on; it is
proved and has no run of its own.

The invariant has four parts, which need each other:

* `BufferInv`, the write buffer.  A line has one entry (`OneEntryPerLine`), an
  entry has one transaction, which covers the bytes it blocks (`OneTransaction`),
  an entry on offer is dirty, and the answers in the FIFO belong to different
  live transactions (`AnswersOK`).  With `MAX_TX` transactions the FIFO therefore
  never holds more (`FewAnswers`, by counting).
* `MemoryInv`, the other side of the transactions.  Every store in flight has its
  record and, unless the byte was stored again, the last value (`StoresOK`); what
  has been answered is in memory (`AnsweredInMemory`); a byte whose last value is
  not in memory is in the buffer (`Survives`).  This is the argument for
  `LastStoreSurvives`: an entry gives up a byte only when the answer that took
  its value to memory is evicted, and a store that comes in between sets `dirty`
  again.
* `CacheInv`, the memories.  A way is fresh byte by byte, or the buffer has the
  byte (`WaysFresh`, and `ReadoutFresh` for the read-out of the last cycle, which
  is a cycle old when it is used); a tag check under way has read what the ways
  hold now, or has been voided (`ChecksOK`, `ReadoutTags`).
  `CheckedEntryKnowsItsWays` and `LineInOneWay` are inductive only with these.
* `MissInv`, the miss unit and the ports.  The miss in flight returns the last
  value or the buffer has it, its line has no store in flight, and no way holds
  it (`MshrOK`); a miss that waits for its grant has been compared with the
  tags since the last fill, or will be replayed (`MissesOK`); a load or a store
  waits only for what is under way (`LoadWait`, `StoreWait`).

`ReadsReturnLastStore` then follows at the three places an answer comes from (hit,
buffer overlay, refill).  Each part has one lemma per register group, and
`Cycle` is cut into wires first (`WiresAre`), so that each lemma sees only the
signals it is about.  Assumptions: `CacheAssumption` (at most eight bytes, a
finite set of ways that is not empty, at least one entry and one transaction) and
`DCacheAssumption`.  Both describe the code's parameters; neither bounds them.

### Walker and its port

`WalkPortProofs` proves, for every page table, number of levels and timing of the
cache,

| Theorem | Statement |
|---|---|
| `NothingOwed` | `~FlushInWait => (Spec => []IdleWalkerOwesNothing)` |
| `AnswersAreOwn` | `~FlushInWait => (Spec => []AnswerIsOwn)` |

The proviso is the situation of run `walk_flush`, in which both fail.  The
invariant says that a walker which waits is owed exactly one answer, by the port
or by the register behind it, and that nobody else is owed any (`OneAnswer`); that
the tag comes in the one cycle in which the port is in `READ` (`TagFollows`); and
that a read under way has the walk's address (`OwnAddress`).

### Inter-processor interrupts

`SbiProofs` proves, for every number of harts and of calls and whatever the HTIF
and the host do meanwhile,

| Theorem | Statement |
|---|---|
| `EventsAreNotLost` | `Spec => []NoEventLost` |
| `RemoteFencesHold` | `Spec => []RemoteFenceHolds` |

`RemoteFenceHolds` is far from inductive: the sender concludes from a line that
is down, which is a different thing from a fence that was executed.  The
inductive invariant says what the line stands for:

* `AsideInLoop`, `SenderHasTarget`: a line is put aside only in the waiting loop,
  and a sender that posts has a receiver left;
* `FenceNotForgotten`: a fence that is owed is posted, or fetched by the handler;
* `FenceAnnounced`: its hart will act on it (line up, put aside, or handler
  running), or the sender is about to raise the line;
* `AnsweredFenceComesFirst`: once the sender no longer waits for that hart, the
  hart executes the fence before it runs its supervisor again.

There is one lemma per action of `Ipi`, and one (`QuietInv`) for all steps that
leave the protocol alone, through which the HTIF enters (`HtifMoves`).  The only
assumption is `HartsAssumption`, at least one hart.

### Host-target interface

`HtifProofs` proves, for every number of harts, calls and characters,

| Theorem | Statement |
|---|---|
| `SbiTypeCorrect` | `Spec => []SbiTypeOK` |
| `AnswersFromConsole` | `Spec => []FromConsole` |
| `ResultsAreOwn` | `Spec => []ResultIsOwn` |
| `OutputKept` | `Spec => []NoOutputLost` |
| `InputKept` | `Spec => []NoInputLost` |

`SbiTypeOK` contains the mutual exclusion of `htif_lock`.  The difficulty is that a
mailbox is tested in one step and written in another, that `__check_fromhost` is
called by whoever waits, for whatever arrives, and that power-off ignores the
lock.  The invariant therefore counts: a system call is in one place between hart
and host (`OneSyscall`), the system call buffer belongs to the hart inside
`frontend_syscall` (`MagicExclusive`), and there is one request for a character
in the whole system, whether it is the buffer that holds one, a character on its
way, a read the host owes, a read in `tohost` or a hart about to ask (`OneRead`);
the character in it is the last one typed (`CharIsLast`).  `SlotIsFree` says that
nobody writes `tohost` between another hart's test and store.  The parts about
lost commands and characters are claimed only until a shutdown, which overwrites
both mailboxes on purpose.  Assumptions: `HartsAssumption`, `SbiAssumption`.

### Virtual memory and files of the proxy kernel

`PkVmProofs` proves, for every size of page, memory, page table, region table, file
table, descriptor table, word and count, and for every program, whatever lengths it
asks for,

| Theorem | Statement |
|---|---|
| `TypeCorrect` | `Spec => []VmTypeOK` |
| `RegionsCounted` | `Spec => []VmrCountsPages` |
| `FilesHeld` | `Spec => []FilesHeldByReferences` |
| `DataFresh` | `Spec => []FreshData` |
| `TranslationsCurrent` | `Spec => []NoStaleTranslation` |
| `FaultsEnd` | `Spec => []HandledFaultIsOver` |
| `RightsKept` | `Spec => []RightsNeverGrow` |
| `SearchFindsRoom` | `Spec => []AllocFindsRoom` |
| `MappingsSpared` | `Spec => BrkSparesMappings` (an action property) |

* `MemInv` relates page table, regions and frames: a page table entry is pending
  or has the bits of some protection (`EntriesWellFormed`), counts are exact, and
  the region of a pending page still says what the mapping of that page promised
  (`RegionKeepsPromise`), as does a page that was read in (`PageKeepsPromise`).
  `FreshData` and `RightsNeverGrow` follow from the promises; what makes them
  survive is that a region entry is reused only when its count is zero, which is
  `VmrCountsPages`.  The counts are sums over sets of pages that change by whole
  ranges; the lemmas on `DecrefVmrs` carry them.
* A request has either as many pages as its count says or none.  `PagesAre` and
  `PagesOfRequest` show that the loop of `__do_mmap` visits the `Npage(len)` pages
  from the first one, or none when the sum of address and length wraps;
  `CountedPages` and `RegionCounts` that a count which maps pages that exist is not
  cut, since an `unsigned` has more values than the page table entries.  Hence the
  two cases of `VmrCountsPages`, of which the lost slot is kept by the fact that
  nothing refers to it.
* `FileInv` counts the holders of a file, including the regions and the leaked
  references, in the same way.
* `BreakInv`: no mapping lies between the break and `brk_max`, as long as
  `brk_max` is above the program's end.  It is what `MappingsSpared` needs.
* `TlbInv` and `RetryInv`: a cached translation is the one in the table, and the
  access to be repeated is one that walker and TLB let pass.
* `AllocFindsRoom` is about a recursive function, the skipping search of
  `__vm_alloc`.  `Good` says what a right answer from an address on is, in terms of
  the rooms (`Rooms`) and of the last pages that wrap (`Wraps`) from there; one round
  gives a right answer if all later ones do (`RoundIsGood`).  The theorem follows
  from the function's defining equation by a least counterexample: the greatest
  address from which the search goes wrong.

Assumptions: `FilesAssumption` and `VmAssumption`.  The latter says that program,
stack and break lie below `mmap_max` in this order, as the ELF loader leaves them;
that the kernel's page lies at or above `mmap_max` and below the last page of the
table; that the word is a multiple of the address range of the page table (2^64 and
2^39 bytes) and a count has at least as many values as the table has entries (2^32
and 2^27); and that addresses, offsets and protections are of their types.  The length of
a request is any that is not zero and fits into a `size_t`.

### Only model-checked

* Liveness: `EveryInstructionLeaves`, `WalkEnds`, `EveryCallReturns`,
  `ShutdownReachesHost`.  The proof system has no rule for fairness.

## 5. Findings

Each is a run that TLC ends with a counterexample, in which the code does not do
what a comment or an assertion of its own says.

1. **`exception_own`, `load_unit.sv:76`.**  `ex_o` is `ex_i` in every cycle.  An
   older load answered in the cycle in which the MMU reports the fault of a
   younger one is written back with that fault; the comment at line 279 says
   that non-excepting loads have priority.
2. **`commit_flush`, `csr_regfile.sv:812`.**  With `dcsr.step` set a store is
   committed in the cycle of the flush that enters debug mode.  The assertion
   at `store_buffer.sv:258` excludes that; the write pointer is then reset to the
   old read pointer and the ring is off by one.
3. **`walk_flush`, `ptw.sv:329`.**  A flush in `WAIT_RVALID` sends the walker to
   `IDLE` with its read outstanding, against the comment at line 323; the
   next walk can take the old answer (`AnswerIsOwn` fails there too).

Observations without a run of their own, in the core:

* `load_unit.sv:274` raises `valid_o` for an exception even in the cycle in which
  the cache answers a read that is being aborted, against the comment at line 268
  ("not aborting the request"), and with the stale id of `load_data_q`.  A
  misaligned load that misses the TLB is granted, aborted and reported in this
  way, and an AMO that has that id and is still in the store unit is written back
  with the exception.  `ExceptionIsOwn` fails on such a program, too.
* `load_unit.sv:84`: the guard for non-idempotent regions looks at the physical
  address of the previous cycle, so a speculative load of such a page may go to
  memory.  It matters where a region is configured (`tb/ariane_soc_pkg.sv:77`
  does, the OpenPiton wrapper does not).
* `load_unit.sv:82` stalls for *cacheable* addresses where the comment above it
  says non-cacheable, and only while neither buffer is empty (`~(a | b)`), where
  it speaks of waiting for both.
* `commit_stage.sv:218` lets a second instruction retire with an AMO that
  flushes; the repository's README lists it.
* An exception of a load that is granted in the same cycle leaves the load unit
  in `IDLE` and the port in `READ`, waiting for a tag.  The port grants no request
  in that state, so the kill after the flush of the trap ends it.
* A trap that pops an empty LSU queue makes `status_cnt` of `lsu_bypass` wrap;
  the flush that follows the trap repairs it.

in the data cache:

* `wt_dcache_missunit.sv:405` accepts a read miss in the cycle of `load_ack`, but
  `mask_reads` is still up in that cycle: the case does not occur.
* The valid bits a port hands to the miss unit may have been read for another
  request; only the choice of the victim depends on them.

in pk:

* `send_ipi_many` says (`mtrap.c:423`) that it waits until all events have been
  handled; it waits until the lines are down, which is earlier.
  `RemoteFenceHolds` is what remains true, and is enough.  A hart that sends to
  one that has halted waits for ever.
* `prot_to_type` makes a page that is mapped with `PROT_WRITE` alone writable and
  not readable (`mmap.c:148`), which the walker refuses (`ptw.sv:250`): its faults
  are handled and repeated for ever.  `HandledFaultIsOver` excepts this case.
* Nothing bounds the length of a mapping without `MAP_FIXED` (`mmap.c:243`).  For more
  pages than lie below `mmap_max` the end of the search wraps (`mmap.c:133`), and the
  mapping is placed behind `mmap_max` instead of refused.  The fault handler refuses
  each of its pages (`mmap.c:180`): with `MAP_POPULATE` the assertion at line 263 fails
  in the same call, without it the program is ended at its first access to what mmap
  gave it.  `AllocFindsRoom` says where such a mapping goes.
* A mapping so long that its last page wraps is placed at that page, which may be
  below the break and taken (`mmap.c:138`); its own end wraps, too, so that nothing
  is mapped.  Its region keeps a count that nobody takes back, and `brk_max` falls
  with the address.  `Lost` in `VmrCountsPages` is this case.
* A mapping of 2^52 pages has a count of zero (`mmap.c:246`): the file it names has
  been referenced for a region that is free, and is never closed.  `leaked` in
  `FilesHeldByReferences` is this case.
* Before the first `brk` the search of `__vm_alloc` starts at page zero, which it
  also uses as the sign of failure.
* `mprotect` on a page that was not touched changes the rights of its whole
  region; `RightsNeverGrow` holds all the same.
* `brk_max` does not know the stack, and a `MAP_FIXED` below the program lowers it
  under the break; `BrkSparesMappings` says what holds otherwise.
* Reading a mapping beyond the end of its file ends in a `kassert`, and so does a
  failing extension of the heap (`mmap.c:316`).

## 6. Plan

Done: the core's memory pipeline; the data cache; the machine layer; the proxy
kernel's memory and files; theorems for all their safety properties; the refinement
of `StoreQueue`, for the store unit alone and inside the pipeline.

Next, in this order:

1. `L15Adapter` (`wt_l15_adapter.sv`) between `DCache` and the memory: ordering of
   returns and invalidations for both L1 caches.
2. `DCache` as the environment of `Core`: that every request is served, under the
   fairness `MCCoreLive` assumes.
