-------------------------------- MODULE Core --------------------------------
(***************************************************************************)
(* The memory side of the Ariane pipeline, from issue to retirement: the   *)
(* scoreboard (scoreboard.sv), the issue register (issue_read_operands.sv),*)
(* the commit stage (commit_stage.sv) and the flush logic (controller.sv)  *)
(* around the load/store unit of LSU.tla.                                  *)
(*                                                                         *)
(* Instructions are loads, stores, AMOs, fences and instructions that trap *)
(* before execution ("trap": interrupts, illegal instructions).  The front *)
(* end issues any of them in any order.  A "fence" stands for FENCE and    *)
(* FENCE.I, which like "sfence" (SFENCE.VMA) wait for the commit queue and *)
(* flush the pipeline, a "csr" for CSR writes and returns from traps that  *)
(* flush without waiting.  A "csr" that faults in the CSR file flushes as  *)
(* well, with the same effect on this state.  Left out is WFI, which halts *)
(* the commit stage: halt_i is low.                                        *)
(*                                                                         *)
(* Environment: the rest of the data cache grants stores and answers the   *)
(* load port at any time.  `mem' is memory as the cache presents it; a     *)
(* store is part of it from its grant on.  `arch' is memory as the program *)
(* order defines it: every store up to the last retired one is in it.      *)
(***************************************************************************)
EXTENDS LSU, Sequences

CONSTANTS Instr,            \* instructions the front end may issue
          NR_COMMIT_PORTS,  \* 1 or 2
          FetchMisses,      \* the front end may ask the walker, too
          SingleStep        \* dcsr.step is set

\* Instructions of the CSR unit: all of them flush.
FlushOp == {"fence", "sfence", "csr"}

ASSUME CoreAssumption ==
    /\ Instr \subseteq [op : {"load", "store", "amo", "trap"} \cup FlushOp,
                        req : Store, misaligned : BOOLEAN]
    /\ FetchMisses \in BOOLEAN /\ SingleStep \in BOOLEAN

VARIABLES mem_sb,            \* mem_q of scoreboard.sv
          issue_cnt_q, issue_pointer_q, commit_pointer_q,
          issue_q,           \* ID/EX register: fu_data_o and the valid flags
          mem, arch

sbVarsCore == <<mem_sb, issue_cnt_q, issue_pointer_q, commit_pointer_q, issue_q>>
coreVars == <<lsuVars, sbVarsCore, mem, arch>>

Next1_Mutant(p) == p + 1
Next1(p) == (p + 1) % NR_SB_ENTRIES

NoInstr == [op |-> "none", req |-> zero, misaligned |-> FALSE]
EmptyEntry == [issued |-> FALSE, valid |-> FALSE, ex |-> FALSE,
               result |-> zero.data, ins |-> NoInstr]

is_lsu(ins) == ins.op \in {"load", "store", "amo"}

-----------------------------------------------------------------------------
(* Commit stage *)

c0 == mem_sb[commit_pointer_q]
c1 == mem_sb[Next1(commit_pointer_q)]

retires0 == c0.valid /\ ~c0.ex

commit_lsu_Mutant == retires0 /\ c0.ins.op = "store"
commit_lsu == retires0 /\ c0.ins.op = "store" /\ commit_ready_o

amo_valid_commit == retires0 /\ c0.ins.op = "amo"

commit_ack0_Mutant(amo_ack) ==
    /\ retires0
    /\ c0.ins.op = "store" => commit_ready_o
    /\ c0.ins.op = "fence" => no_st_pending_o
    /\ c0.ins.op = "amo" => amo_ack

commit_ack0(amo_ack) ==
    /\ retires0
    /\ c0.ins.op = "store" => commit_ready_o
    /\ c0.ins.op \in {"fence", "sfence"} => no_st_pending_o
    /\ c0.ins.op = "amo" => amo_ack

\* The second port retires nothing that needs the LSU or the CSR file.
commit_ack1(amo_ack) ==
    /\ NR_COMMIT_PORTS > 1
    /\ commit_ack0(amo_ack)
    /\ c1.valid /\ ~c1.ex
    /\ c0.ins.op \notin FlushOp
    /\ ~SingleStep
    /\ c1.ins.op = "load"

\* exception_o.valid
exception_taken == c0.valid /\ c0.ex

\* flush_ex_o of the controller.  Retiring an instruction while dcsr.step is
\* set enters debug mode (set_debug_pc), which flushes as well.
flush(amo_ack) ==
    \/ exception_taken
    \/ commit_ack0(amo_ack) /\ (c0.ins.op \in FlushOp \cup {"amo"} \/ SingleStep)

-----------------------------------------------------------------------------
(* Scoreboard and issue *)

\* An instruction is issued when the scoreboard has room and, if it needs
\* the LSU, when that is ready.
can_issue(ins) ==
    /\ issue_cnt_q # NR_SB_ENTRIES - 1
    /\ is_lsu(ins) => LB!lsu_ready_o

\* A write-back reaches an entry only if the entry is still issued.
completed(e, data, ex) == [e EXCEPT !.valid = TRUE, !.result = data, !.ex = e.ex \/ ex]

write_back(sb, valid, id, data, ex) ==
    IF valid /\ mem_sb[id].issued
      THEN [sb EXCEPT ![id] = completed(@, data, ex)]
      ELSE sb

\* The ID/EX register: an instruction that has trapped already is not handed
\* to a functional unit.
id_ex(en, ins) ==
    issue_q' = IF en /\ ins.op # "trap"
                 THEN [valid |-> is_lsu(ins), op |-> ins.op, req |-> ins.req,
                       misaligned |-> ins.misaligned, trans_id |-> issue_pointer_q]
                 ELSE NoRequest

retire(sb, ack, id) == IF ack THEN [sb EXCEPT ![id] = EmptyEntry] ELSE sb

scoreboard(ins, x) ==
    LET ack0 == commit_ack0(x.amo_ack)
        ack1 == commit_ack1(x.amo_ack)
        fl == x.flush
        en == ins # NoInstr /\ ~fl
        issued == IF en
                    THEN [mem_sb EXCEPT ![issue_pointer_q] =
                            [issued |-> TRUE, valid |-> ins.op = "trap",
                             ex |-> ins.op = "trap", result |-> zero.data, ins |-> ins]]
                    ELSE mem_sb
        loaded == write_back(issued, load_pipe_q.valid, load_pipe_q.trans_id,
                             load_pipe_q.data, load_pipe_q.ex)
        stored == write_back(loaded, st_done(st_in(x)), st_trans_id_q,
                             zero.data, mmu_exception)
        flu_done == write_back(stored, issue_q.op \in FlushOp, issue_q.trans_id,
                             zero.data, FALSE)
        retired == retire(retire(flu_done, ack0, commit_pointer_q), ack1,
                          Next1(commit_pointer_q))
        n == (IF ack0 THEN 1 ELSE 0) + (IF ack1 THEN 1 ELSE 0)
    IN  /\ mem_sb' = IF fl THEN [i \in TransId |-> EmptyEntry] ELSE retired
        /\ issue_cnt_q' = IF fl THEN 0
                          ELSE (issue_cnt_q - n + (IF en THEN 1 ELSE 0)) % NR_SB_ENTRIES
        /\ issue_pointer_q' = IF fl THEN 0
                              ELSE IF en THEN Next1(issue_pointer_q) ELSE issue_pointer_q
        /\ commit_pointer_q' = IF fl THEN 0 ELSE (commit_pointer_q + n) % NR_SB_ENTRIES
        /\ id_ex(en, ins)

-----------------------------------------------------------------------------
(* Memory *)

AddrOf(req) == [page |-> req.page, off |-> req.off]

Write(m, b, req) == IF b THEN [m EXCEPT ![AddrOf(req)] = req.data] ELSE m

memory(x) ==
    /\ mem' = Write(Write(mem, data_req /\ x.gnt, data_out), x.amo_ack, amo_data)
    /\ arch' = Write(arch, commit_lsu \/ x.amo_ack, c0.ins.req)

\* What the memories, the arbiter and the miss unit of the cache may answer
\* to the load port; signals the controller ignores in a state are low.
Quiet == [rd_ack |-> FALSE, wr_cl_vld |-> FALSE, hit |-> FALSE,
          miss_ack |-> FALSE, miss_replay |-> FALSE, miss_rtrn |-> FALSE]

CacheAnswers ==
    CASE dc_state_q \in {"IDLE", "REPLAY_REQ"} ->
           {Quiet, [Quiet EXCEPT !.rd_ack = TRUE]}
      [] dc_state_q \in {"READ", "REPLAY_READ"} ->
           {Quiet, [Quiet EXCEPT !.wr_cl_vld = TRUE], [Quiet EXCEPT !.hit = TRUE],
            [Quiet EXCEPT !.hit = TRUE, !.rd_ack = TRUE]}
      [] dc_state_q \in {"MISS_REQ", "KILL_MISS_ACK"} ->
           {Quiet, [Quiet EXCEPT !.miss_ack = TRUE], [Quiet EXCEPT !.miss_replay = TRUE]}
      [] dc_state_q \in {"MISS_WAIT", "KILL_MISS"} ->
           {Quiet, [Quiet EXCEPT !.miss_rtrn = TRUE]}

-----------------------------------------------------------------------------

Init ==
    /\ LSUInit
    /\ mem_sb = [i \in TransId |-> EmptyEntry]
    /\ issue_cnt_q = 0 /\ issue_pointer_q = 0 /\ commit_pointer_q = 0
    /\ issue_q = NoRequest
    /\ mem = [a \in Addr |-> zero.data]
    /\ arch = mem

\* What the walker's port of the data cache, the page tables and the front
\* end may answer to the walker.
Idle == [gnt |-> FALSE, rvalid |-> FALSE, pte |-> "leaf", victim |-> zero.page,
         itlb_miss |-> FALSE, itlb_page |-> zero.page]

EntryRead(e, v) == [Idle EXCEPT !.rvalid = TRUE, !.pte = e, !.victim = v]

Walking(states) == Translate /\ ptw_state_q \in states

WalkAnswers ==
    {Idle}
      \cup (IF Walking({"IDLE"}) THEN {[Idle EXCEPT !.itlb_miss = FetchMisses]} ELSE {})
      \cup (IF Walking({"WAIT_GRANT"}) THEN {[Idle EXCEPT !.gnt = TRUE]} ELSE {})
      \cup (IF Walking({"PTE_LOOKUP", "WAIT_RVALID"})
              THEN {EntryRead(e, v) :
                      e \in PTW!Entries(ptw_page_q, ptw_lvl_q, is_instr_ptw_q),
                      v \in IF dtlb = {} THEN {zero.page} ELSE dtlb}
              ELSE {})

\* The write buffer of the cache is empty or not; nobody asks in other cycles.
WBufferEmpty ==
    IF ld_state_q = "WAIT_WB_EMPTY" \/ lsu_q.addr.page \in Cacheable
      THEN BOOLEAN ELSE {TRUE}

\* The inputs of the load/store unit in a cycle.
lsu_in(gnt, amo_ack, wbuffer_empty, d, w) ==
    [req |-> issue_q, commit |-> commit_lsu, amo_commit |-> amo_valid_commit,
     commit_tran_id |-> commit_pointer_q, flush |-> flush(amo_ack),
     flush_tlb |-> commit_ack0(amo_ack) /\ c0.ins.op = "sfence",
     gnt |-> gnt, amo_ack |-> amo_ack, wbuffer_empty |-> wbuffer_empty,
     rdata |-> mem, d |-> d, w |-> w]

\* One clock cycle: ins is what the front end offers and the scoreboard
\* takes, the other parameters are the answers of the environment.
Cycle(ins, gnt, amo_ack, wbuffer_empty, d, w) ==
    LET x == lsu_in(gnt, amo_ack, wbuffer_empty, d, w)
    IN  /\ ins # NoInstr => can_issue(ins)
        /\ gnt => data_req
        /\ amo_ack => amo_req(amo_valid_commit)
        /\ LSUStep(x)
        /\ scoreboard(ins, x)
        /\ memory(x)

Next ==
    \E ins \in Instr \cup {NoInstr}, gnt, amo_ack \in BOOLEAN,
       wbuffer_empty \in WBufferEmpty, d \in CacheAnswers, w \in WalkAnswers :
         Cycle(ins, gnt, amo_ack, wbuffer_empty, d, w)

Spec == Init /\ [][Next]_coreVars

-----------------------------------------------------------------------------
(* Properties *)

\* The type invariant.
CoreTypeOK ==
    /\ TypeOK /\ LU!TypeOK /\ DC!TypeOK /\ PTW!TypeOK
    /\ status_cnt_q \in 0..3
    /\ issue_cnt_q \in TransId /\ issue_pointer_q \in TransId /\ commit_pointer_q \in TransId
    /\ \A i \in TransId : mem_sb[i].ins \in Instr \cup {NoInstr}
    /\ mem \in [Addr -> Data] /\ arch \in [Addr -> Data]

Older(i) == {j \in TransId : (j - commit_pointer_q) % NR_SB_ENTRIES
                               < (i - commit_pointer_q) % NR_SB_ENTRIES}

\* The data of the last store to address a in a sequence of stores.
Youngest(stores, a, default) ==
    LET ks == {k \in DOMAIN stores : AddrOf(stores[k]) = a}
    IN  IF ks = {} THEN default
        ELSE stores[CHOOSE k \in ks : \A l \in ks : l <= k].data

\* The access of an instruction raises an exception.
WillTrap(ins) ==
    is_lsu(ins) /\ (ins.misaligned \/ (Translate /\ ins.req.page \in Unmapped \cup Forbidden))

DoneStore(e) == e.valid /\ ~e.ex /\ e.ins.op = "store"

\* The speculative queue holds exactly the executed stores that have not
\* retired, in program order.  The commit stage names no store when it raises
\* commit_lsu_o, so this is what makes the store it commits its own.
SpeculativeQueueFollowsProgram ==
    LET done == {i \in TransId : DoneStore(mem_sb[i])}
        queue == RingContents(speculative_queue_q, speculative_read_pointer_q,
                              speculative_status_cnt_q, DEPTH_SPEC)
    IN  \E id \in [DOMAIN queue -> done] :
            /\ \A i \in done : \E k \in DOMAIN queue : id[k] = i
            /\ \A k, l \in DOMAIN queue : k < l => id[k] \in Older(id[l])
            /\ \A k \in DOMAIN queue : queue[k] = mem_sb[id[k]].ins.req

\* Memory plus the commit queue is memory as the program defines it, whatever
\* is flushed.
CommittedStoresReachMemory ==
    LET committed == RingContents(commit_queue_q, commit_read_pointer_q,
                                     commit_status_cnt_q, DEPTH_COMMIT)
    IN  arch = [a \in Addr |-> Youngest(committed, a, mem[a])]

\* A fence that retires, and an AMO on its way to memory, find every older store
\* there and nothing younger: the page table entries a program writes before an
\* SFENCE.VMA are in memory when that flushes the TLBs.
FencesFindStoresInMemory ==
    /\ (\E amo_ack \in BOOLEAN : commit_ack0(amo_ack)) /\ c0.ins.op \in {"fence", "sfence"}
         => mem = arch
    /\ amo_req(amo_valid_commit) => mem = arch

\* A load that has its result, and that no older instruction will flush, has
\* the value of the youngest older store to its address: it never overtakes
\* one, neither in the queues nor in the second stage of the store unit.
LoadsSeeOlderStores ==
    \A i \in TransId :
        LET e == mem_sb[i]
            a == AddrOf(e.ins.req)
        IN  /\ e.valid /\ ~e.ex /\ e.ins.op = "load"
            /\ \A j \in Older(i) : /\ mem_sb[j].ins.op \in {"load", "store"}
                                    /\ ~WillTrap(mem_sb[j].ins)
            => /\ e.result = arch[a]
               /\ \A j \in Older(i) : mem_sb[j].ins.op = "store"
                                        => AddrOf(mem_sb[j].ins.req) # a

\* Where transaction i is while it executes.
Places(i) ==
    {pl \in {"issue", "queue0", "queue1", "store", "cache", "result"} :
        CASE pl = "issue" -> issue_q.valid /\ issue_q.trans_id = i
          [] pl = "queue0" -> status_cnt_q > 0 /\ mem_q[read_pointer_q].valid
                              /\ mem_q[read_pointer_q].trans_id = i
          [] pl = "queue1" -> status_cnt_q > 1 /\ mem_q[1 - read_pointer_q].valid
                              /\ mem_q[1 - read_pointer_q].trans_id = i
          [] pl = "store" -> state_q = "VALID_STORE" /\ st_trans_id_q = i
          [] pl = "cache" -> /\ load_data_q = i
                             /\ \/ dc_state_q = "READ" /\ ld_state_q = "SEND_TAG"
                                \/ dc_state_q \in {"REPLAY_REQ", "REPLAY_READ",
                                                   "MISS_REQ", "MISS_WAIT"}
          [] pl = "result" -> load_pipe_q.valid /\ load_pipe_q.trans_id = i}

\* Every issued load, store or AMO that has no result yet is in exactly one
\* place: the queue in front of the LSU drops and doubles none, although it
\* signals ready one cycle late, and an answer of the cache goes to the load
\* that asked.  Instructions behind a trapping one may be dropped.
NothingLost ==
    \A i \in TransId :
        LET e == mem_sb[i]
        IN  /\ e.issued /\ ~e.valid /\ is_lsu(e.ins)
            /\ \A j \in Older(i) \cup {i} : ~WillTrap(mem_sb[j].ins)
            => \E pl \in Places(i) : Places(i) = {pl}

\* The contract StoreUnit.tla assumes of the commit stage, in every cycle.
CommitStageKeepsContract ==
    \A amo_ack \in BOOLEAN :
        (amo_ack => amo_req(amo_valid_commit))
          => CommitContract([commit |-> commit_lsu, flush |-> flush(amo_ack),
                                amo_commit |-> amo_valid_commit, amo_ack |-> amo_ack])

\* An access that must trap never retires, and a store that must trap never
\* enters the queues, although the exception comes a cycle after the request
\* and by way of another unit's request.
FaultNeverRetires ==
    /\ WillTrap(c0.ins) => ~commit_ack0(TRUE)
    /\ WillTrap(c1.ins) => ~commit_ack1(TRUE)
    /\ Translate => \A i \in SpecIndex :
          speculative_queue_q[i].valid
            => speculative_queue_q[i].req.page \notin Unmapped \cup Forbidden

\* An exception the commit stage takes is the instruction's own: the load unit
\* lets "non-excepting load and stores" go first when an exception and an
\* answer of the cache meet.
ExceptionIsOwn == exception_taken => c0.ins.op = "trap" \/ WillTrap(c0.ins)

\* Assertion commit_and_flush of store_buffer.sv: "commit is never set when
\* we are flushing".
CommitNeverWithFlush ==
    \A amo_ack \in BOOLEAN :
        (amo_ack => amo_req(amo_valid_commit)) => ~(commit_lsu /\ flush(amo_ack))
=============================================================================
