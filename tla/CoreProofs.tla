----------------------------- MODULE CoreProofs -----------------------------
(***************************************************************************)
(* Proofs about the pipeline of Core.tla, for every size of the scoreboard *)
(* and of the queues, every page table and every set of instructions.      *)
(***************************************************************************)
EXTENDS Core, StoreUnitProofs, FiniteSetTheorems

-----------------------------------------------------------------------------
(* Types *)

Op == {"none", "load", "store", "amo", "trap"} \cup FlushOp
LsuRequest == [valid : BOOLEAN, op : Op, req : Store, misaligned : BOOLEAN,
               trans_id : TransId]
SbEntry == [issued : BOOLEAN, valid : BOOLEAN, ex : BOOLEAN, result : Data,
            ins : Instr \cup {NoInstr}]

LsuTypes ==
    /\ TypeOK /\ LU!TypeOK /\ DC!TypeOK
    /\ st_trans_id_q \in TransId
    /\ mem_q \in [0..1 -> LsuRequest]
    /\ read_pointer_q \in 0..1 /\ write_pointer_q \in 0..1 /\ status_cnt_q \in 0..3
    /\ lsu_q \in [req : BOOLEAN, addr : Addr, misaligned : BOOLEAN, hit : BOOLEAN]
    /\ load_pipe_q \in [valid : BOOLEAN, trans_id : TransId, data : Data, ex : BOOLEAN]

WalkTypes == PTW!TypeOK /\ IsFiniteSet(dtlb)

SbTypes ==
    /\ mem_sb \in [TransId -> SbEntry]
    /\ issue_cnt_q \in TransId /\ issue_pointer_q \in TransId /\ commit_pointer_q \in TransId
    /\ issue_q \in LsuRequest
    /\ mem \in [Addr -> Data] /\ arch \in [Addr -> Data]

CoreTypes == LsuTypes /\ WalkTypes /\ SbTypes

-----------------------------------------------------------------------------
(* Where the instructions are *)

\* The distance of an entry from the oldest one.
Pos(i) == Wrap(i - commit_pointer_q, NR_SB_ENTRIES)

\* The scoreboard is a ring: the issued entries follow the commit pointer.
ScoreboardRing ==
    /\ issue_pointer_q = Wrap(commit_pointer_q + issue_cnt_q, NR_SB_ENTRIES)
    /\ \A i \in TransId : /\ mem_sb[i].issued <=> Pos(i) < issue_cnt_q
                          /\ ~mem_sb[i].issued => mem_sb[i] = EmptyEntry
                          /\ mem_sb[i].issued => mem_sb[i].ins \in Instr

\* The FIFO in front of the LSU holds at most two requests, counting the one
\* that arrives: the one the units see, and the one behind it.
Front == IF status_cnt_q = 0 THEN issue_q ELSE mem_q[read_pointer_q]
Second == IF status_cnt_q = 1 THEN issue_q ELSE mem_q[1 - read_pointer_q]
HasSecond == status_cnt_q = 2 \/ (status_cnt_q = 1 /\ issue_q.valid)

FifoOK ==
    /\ status_cnt_q \in 0..2
    /\ write_pointer_q = IF status_cnt_q = 1 THEN 1 - read_pointer_q ELSE read_pointer_q
    /\ status_cnt_q = 2 => ~issue_q.valid
    /\ mem_q[read_pointer_q].valid <=> status_cnt_q > 0
    /\ mem_q[1 - read_pointer_q].valid <=> status_cnt_q = 2

\* Entry i is issued and has no result yet.
Waits(i) == mem_sb[i].issued /\ ~mem_sb[i].valid

\* Request r is the access of the instruction it names.
OwnRequest(r) == /\ is_lsu(r)
                 /\ mem_sb[r.trans_id].ins.op = r.op
                 /\ mem_sb[r.trans_id].ins.req = r.req
                 /\ mem_sb[r.trans_id].ins.misaligned = r.misaligned

WaitsFor(r) == Waits(r.trans_id) /\ OwnRequest(r)

\* The cache works on the load load_data_q.
Reads == \/ dc_state_q = "READ" /\ ld_state_q = "SEND_TAG"
         \/ /\ dc_state_q \in {"REPLAY_REQ", "REPLAY_READ", "MISS_REQ", "MISS_WAIT"}
            /\ ld_state_q # "WAIT_FLUSH"

\* The load unit has handed over a result, and no flush came in between.
Returns == load_pipe_q.valid /\ ld_state_q # "WAIT_FLUSH"

Stores == state_q = "VALID_STORE"

\* Whatever the LSU works on is an instruction that waits for its result.
OwnWork ==
    /\ Front.valid => WaitsFor(Front)
    /\ HasSecond => WaitsFor(Second)
    /\ issue_q.op \in FlushOp => /\ Waits(issue_q.trans_id)
                                 /\ mem_sb[issue_q.trans_id].ins.op = issue_q.op
    /\ Stores => /\ Waits(st_trans_id_q)
                 /\ mem_sb[st_trans_id_q].ins.op = IF st_q.amo THEN "amo" ELSE "store"
                 /\ mem_sb[st_trans_id_q].ins.req = st_q.req
    /\ Reads => Waits(load_data_q) /\ mem_sb[load_data_q].ins.op = "load"
    /\ Returns => /\ Waits(load_pipe_q.trans_id) /\ ~load_pipe_q.ex
                  /\ mem_sb[load_pipe_q.trans_id].ins.op = "load"

\* The LSU works in program order.
InOrder ==
    /\ HasSecond => Pos(Front.trans_id) < Pos(Second.trans_id)
    /\ Front.valid => /\ Stores => Pos(st_trans_id_q) < Pos(Front.trans_id)
                      /\ Reads => Pos(load_data_q) < Pos(Front.trans_id)
                      /\ Returns => Pos(load_pipe_q.trans_id) < Pos(Front.trans_id)
    /\ Returns /\ Reads => Pos(load_pipe_q.trans_id) < Pos(load_data_q)

DoneInOrder ==
    \A i \in TransId : DoneStore(mem_sb[i]) =>
        /\ Stores => Pos(i) < Pos(st_trans_id_q)
        /\ Front.valid => Pos(i) < Pos(Front.trans_id)

\* The load unit and the controller of the cache's load port agree.
Aborts == ld_state_q \in {"ABORT_TRANSACTION", "ABORT_TRANSACTION_NC"}
PortOK ==
    /\ ld_state_q \notin {"IDLE", "SEND_TAG", "WAIT_FLUSH"}
         => Front.valid /\ Front.op = "load"
    /\ Aborts \/ ld_state_q = "SEND_TAG" => dc_state_q = "READ"
    /\ ld_state_q \in {"WAIT_TRANSLATION", "WAIT_WB_EMPTY"} => dc_state_q = "IDLE"

\* The port was granted to a load, but the load unit, which left for an
\* exception in that cycle, sends no tag.
Limbo == dc_state_q = "READ" /\ ~Aborts /\ ld_state_q \notin {"SEND_TAG", "WAIT_FLUSH"}

LoadUnitOK ==
    /\ PortOK /\ ~Limbo
    /\ ld_state_q = "WAIT_FLUSH" => issue_cnt_q = 0

\* An executed AMO is in the AMO buffer, alone.
DoneAmo(e) == e.valid /\ e.ins.op = "amo"
AmoOK == \A i \in TransId : DoneAmo(mem_sb[i]) =>
            /\ amo_valid /\ amo_data = mem_sb[i].ins.req
            /\ \A j \in TransId : DoneAmo(mem_sb[j]) => j = i

AllFound ==
    \A i \in TransId : Waits(i) /\ is_lsu(mem_sb[i].ins) =>
        \/ Front.valid /\ Front.trans_id = i
        \/ HasSecond /\ Second.trans_id = i
        \/ Stores /\ st_trans_id_q = i
        \/ Reads /\ load_data_q = i
        \/ Returns /\ load_pipe_q.trans_id = i

-----------------------------------------------------------------------------
(* Loads *)

\* No older store lies at the page offset of load i.
Clear(i) ==
    /\ \A j \in TransId : mem_sb[j].ins.op = "store" /\ Pos(j) < Pos(i)
                            => mem_sb[j].ins.req.off # mem_sb[i].ins.req.off
    /\ \A k \in CommitIndex : commit_queue_q[k].valid
                            => commit_queue_q[k].req.off # mem_sb[i].ins.req.off

LoadsClear ==
    /\ ld_state_q \notin {"IDLE", "SEND_TAG", "WAIT_FLUSH", "WAIT_PAGE_OFFSET"}
         => Clear(Front.trans_id)
    /\ Reads => /\ Clear(load_data_q)
                /\ address_idx_q = mem_sb[load_data_q].ins.req.off
                /\ (IF dc_state_q = "READ" THEN lsu_q.addr.page ELSE address_tag_q)
                     = mem_sb[load_data_q].ins.req.page
    /\ Returns => /\ Clear(load_pipe_q.trans_id)
                  /\ load_pipe_q.data = mem[AddrOf(mem_sb[load_pipe_q.trans_id].ins.req)]
    /\ \A i \in TransId : mem_sb[i].valid /\ mem_sb[i].ins.op = "load"
         => Clear(i) /\ mem_sb[i].result = mem[AddrOf(mem_sb[i].ins.req)]

-----------------------------------------------------------------------------
(* Exceptions *)

\* The exception of the MMU reaches no unit: after a flush there is none to
\* take it.
Calm == mmu_exception => ld_state_q = "WAIT_FLUSH" /\ ~Front.valid /\ state_q = "IDLE"

\* What the MMU answers, whether or not an exception is on its way: a page
\* that hits is mapped, a walk fails for an unmapped page only, and a store
\* that must trap does not get past the second stage.
MmuOK ==
    /\ lsu_q.misaligned => lsu_q.req
    /\ Stores => lsu_q.req /\ lsu_q.hit /\ lsu_q.addr = AddrOf(st_q.req)
    /\ ld_state_q = "SEND_TAG" => lsu_q.req /\ lsu_q.hit
    /\ Translate =>
         /\ dtlb \cap Unmapped = {}
         /\ lsu_q.req /\ lsu_q.hit => lsu_q.addr.page \notin Unmapped
         /\ PTW!data_error => ptw_page_q \in Unmapped
         /\ \A k \in SpecIndex : speculative_queue_q[k].valid =>
                speculative_queue_q[k].req.page \notin Unmapped \cup Forbidden

\* The MMU answers for the access of ins.
Asked(ins) == lsu_q.addr = AddrOf(ins.req) /\ lsu_q.misaligned = ins.misaligned

\* Until there is an exception, the unit that gets the answer of the MMU is
\* the one that asked, and a walk is for the request in front.
RequestOK ==
    /\ Stores => Asked(mem_sb[st_trans_id_q].ins)
    /\ ld_state_q = "SEND_TAG" => Asked(mem_sb[load_data_q].ins)
    /\ lsu_q.req /\ ~Stores /\ ld_state_q \notin {"SEND_TAG", "WAIT_FLUSH"}
         => Front.valid /\ Asked(Front)
    /\ state_q \in {"WAIT_TRANSLATION", "WAIT_STORE_READY"} => Front.valid /\ is_store(Front)
    /\ Translate /\ ~is_instr_ptw_q /\ ptw_state_q \in {"WAIT_GRANT", "PTE_LOOKUP", "PROPAGATE_ERROR"}
         => Front.valid /\ Front.req.page = ptw_page_q /\ ptw_page_q \notin dtlb

\* No access that must trap has got past the MMU.
NoTrapYet ==
    /\ \A i \in TransId : /\ WillTrap(mem_sb[i].ins) => ~mem_sb[i].valid
                          /\ mem_sb[i].ex => mem_sb[i].ins.op = "trap"
    /\ Reads /\ dc_state_q # "READ" => ~WillTrap(mem_sb[load_data_q].ins)
    /\ Returns => ~WillTrap(mem_sb[load_pipe_q.trans_id].ins)

\* The pipeline while no exception of an access has reached a unit.
Running ==
    /\ ScoreboardRing /\ FifoOK /\ OwnWork /\ InOrder /\ DoneInOrder /\ LoadUnitOK
    /\ AmoOK /\ AllFound /\ LoadsClear /\ RequestOK /\ NoTrapYet
    /\ SpeculativeQueueFollowsProgram

-----------------------------------------------------------------------------
(* From the first exception of an access until the flush.  The exception    *)
(* comes a cycle after the request, and every unit with a request then      *)
(* takes it, so that requests are lost, results are marked that are not     *)
(* the culprit's, and the FIFO may be asked for more than it holds.  What   *)
(* is left of the order of the program concerns the entries before the      *)
(* first one that must trap.                                                *)

\* No access up to entry i must trap.
Sound(i) == \A j \in TransId : Pos(j) <= Pos(i) => ~WillTrap(mem_sb[j].ins)

\* None of them is marked either, except those that trap before execution.
Live(i) ==
    /\ Sound(i)
    /\ \A j \in TransId : Pos(j) <= Pos(i) /\ mem_sb[j].ex => mem_sb[j].ins.op = "trap"

\* An access must trap, and all requests still to be served come after it.
Doomed ==
    /\ \E j \in TransId : WillTrap(mem_sb[j].ins)
    /\ \A r \in {issue_q, mem_q[0], mem_q[1]} : r.valid =>
          /\ mem_sb[r.trans_id].issued /\ ~Sound(r.trans_id)
          /\ OwnRequest(r)
    /\ issue_q.op \in FlushOp => /\ mem_sb[issue_q.trans_id].issued
                                 /\ mem_sb[issue_q.trans_id].ins.op = issue_q.op

\* The FIFO may run below empty, or keep a request it does not show; then
\* the store unit is idle and asks for no more.
FifoDoomed ==
    /\ write_pointer_q = (read_pointer_q + status_cnt_q) % 2
    /\ issue_q.valid => status_cnt_q # 2
    /\ status_cnt_q = 3 => ~mem_q[read_pointer_q].valid /\ state_q = "IDLE"
    /\ status_cnt_q = 0 /\ mem_q[1 - read_pointer_q].valid => state_q = "IDLE"

StoresDoomed ==
    Stores => /\ mem_sb[st_trans_id_q].issued /\ ~Sound(st_trans_id_q)
              /\ mem_sb[st_trans_id_q].ins.op \in {"store", "amo"}
              /\ WillTrap(mem_sb[st_trans_id_q].ins) => mmu_exception

\* The cache may still work for a load before the first that must trap.
ReadsDoomed ==
    Reads => /\ mem_sb[load_data_q].issued /\ mem_sb[load_data_q].ins.op = "load"
             /\ WillTrap(mem_sb[load_data_q].ins) => dc_state_q = "READ" /\ mmu_exception
             /\ Sound(load_data_q) =>
                  /\ dc_state_q # "READ"
                  /\ mem_sb[load_data_q].valid => mem_sb[load_data_q].ex
                  /\ Returns => load_pipe_q.trans_id # load_data_q
                  /\ Clear(load_data_q)
                  /\ address_idx_q = mem_sb[load_data_q].ins.req.off
                  /\ address_tag_q = mem_sb[load_data_q].ins.req.page

\* The result of load i is what memory holds, and stays so.
Delivers(i, d) == Clear(i) /\ d = mem[AddrOf(mem_sb[i].ins.req)]

ReturnsDoomed ==
    Returns /\ ~load_pipe_q.ex =>
        LET i == load_pipe_q.trans_id
        IN  /\ mem_sb[i].issued /\ mem_sb[i].ins.op = "load" /\ ~WillTrap(mem_sb[i].ins)
            /\ Sound(i) => Delivers(i, load_pipe_q.data)

\* Results: every access that must trap and has one is marked.
DoneDoomed ==
    \A i \in TransId :
        /\ WillTrap(mem_sb[i].ins) /\ mem_sb[i].valid => mem_sb[i].ex
        /\ /\ mem_sb[i].valid /\ ~mem_sb[i].ex /\ mem_sb[i].ins.op = "load" /\ Sound(i)
             => Delivers(i, mem_sb[i].result)

FoundDoomed ==
    \A i \in TransId : Sound(i) /\ Waits(i) /\ is_lsu(mem_sb[i].ins) =>
        \/ Reads /\ load_data_q = i
        \/ Returns /\ load_pipe_q.trans_id = i

SoundAmo(i) == mem_sb[i].valid /\ ~mem_sb[i].ex /\ mem_sb[i].ins.op = "amo" /\ Sound(i)
AmoDoomed ==
    \A i \in TransId : SoundAmo(i) =>
        /\ amo_valid /\ amo_data = mem_sb[i].ins.req
        /\ \A j \in TransId : SoundAmo(j) => j = i

\* The speculative queue begins with the stores that no mark stops.
LiveStore(i) == DoneStore(mem_sb[i]) /\ Live(i)
QueueDoomed ==
    LET queue == RingContents(speculative_queue_q, speculative_read_pointer_q,
                              speculative_status_cnt_q, DEPTH_SPEC)
    IN  \E id \in [DOMAIN queue -> TransId] :
            /\ \A i \in TransId : LiveStore(i) => \E k \in DOMAIN queue : id[k] = i
            /\ \A k, l \in DOMAIN queue : k < l /\ LiveStore(id[l])
                 => LiveStore(id[k]) /\ Pos(id[k]) < Pos(id[l])
            /\ \A k \in DOMAIN queue : LiveStore(id[k]) => queue[k] = mem_sb[id[k]].ins.req

Trapping ==
    /\ ScoreboardRing /\ Doomed /\ PortOK /\ ld_state_q # "WAIT_FLUSH"
    /\ FifoDoomed /\ StoresDoomed /\ ReadsDoomed /\ ReturnsDoomed
    /\ DoneDoomed /\ FoundDoomed /\ AmoDoomed /\ QueueDoomed

-----------------------------------------------------------------------------
(* Type correctness *)

LEMMA ModWrap ==
    ASSUME NEW n \in Nat, n >= 2, NEW x \in Int, 0 <= x, x < 2 * n
    PROVE  x % n = Wrap(x, n)
  BY DEF Wrap

LEMMA ZeroType == zero \in Store
  <1>1. (CHOOSE p \in Page : TRUE) \in Page
    BY StoreAssumption
  <1>2. (CHOOSE o \in Offset : TRUE) \in Offset
    BY StoreAssumption
  <1>3. (CHOOSE d \in Data : TRUE) \in Data
    BY StoreAssumption
  <1> QED BY <1>1, <1>2, <1>3 DEF zero, Store

LEMMA ZeroFields ==
    /\ zero.page \in Page /\ zero.off \in Offset /\ zero.data \in Data
  BY ZeroType DEF Store

LEMMA TransIdType == TransId \subseteq Int /\ 0 \in TransId
  BY LSUAssumption DEF TransId

LEMMA ConstantTypes ==
    /\ NoRequest \in LsuRequest
    /\ NoInstr \in [op : Op, req : Store, misaligned : BOOLEAN]
    /\ EmptyEntry \in SbEntry
    /\ Instr \subseteq [op : Op, req : Store, misaligned : BOOLEAN]
  <1>1. NoRequest \in LsuRequest
    BY ZeroType, TransIdType DEF NoRequest, LsuRequest, Op
  <1>2. NoInstr \in [op : Op, req : Store, misaligned : BOOLEAN]
    BY ZeroType DEF NoInstr, Op
  <1>3. EmptyEntry \in SbEntry
    BY ZeroFields DEF EmptyEntry, SbEntry
  <1>4. Instr \subseteq [op : Op, req : Store, misaligned : BOOLEAN]
    BY CoreAssumption DEF Op
  <1> QED BY <1>1, <1>2, <1>3, <1>4

LEMMA LuTypeStep ==
    ASSUME LU!TypeOK, NEW in, in.trans_id \in TransId, LU!LUStep(in)
    PROVE  LU!TypeOK'
  <1>1. LU!state_d(in) \in LU!State
    BY DEF LU!TypeOK, LU!State, LU!state_d, LU!requested
  <1> QED BY <1>1 DEF LU!TypeOK, LU!LUStep

LEMMA DcTypeStep ==
    ASSUME DC!TypeOK, NEW in, in.tag \in Page, in.idx \in Offset,
           in.rd_ack \in BOOLEAN, DC!DCStep(in)
    PROVE  DC!TypeOK'
  <1>1. DC!state_d(in) \in DC!State
    BY DEF DC!TypeOK, DC!State, DC!state_d, DC!reading
  <1>2. DC!rd_tag_o(in) \in Page
    BY DEF DC!TypeOK, DC!rd_tag_o
  <1> QED BY <1>1, <1>2 DEF DC!TypeOK, DC!DCStep

LEMMA LbTypeStep ==
    ASSUME NEW r \in LsuRequest, NEW pop_ld, NEW pop_st, NEW fl,
           mem_q \in [0..1 -> LsuRequest], read_pointer_q \in 0..1,
           write_pointer_q \in 0..1, status_cnt_q \in 0..3,
           LB!LBStep(r, pop_ld, pop_st, fl)
    PROVE  /\ mem_q' \in [0..1 -> LsuRequest] /\ read_pointer_q' \in 0..1
           /\ write_pointer_q' \in 0..1 /\ status_cnt_q' \in 0..3
  <1>1. \A q \in [0..1 -> LsuRequest], i \in 0..1 :
            [q EXCEPT ![i].valid = FALSE] \in [0..1 -> LsuRequest]
    BY DEF LsuRequest
  <1>2. \A q \in [0..1 -> LsuRequest], i \in 0..1 :
            [q EXCEPT ![i] = r] \in [0..1 -> LsuRequest]
    OBVIOUS
  <1>3. [i \in 0..1 |-> NoRequest] \in [0..1 -> LsuRequest]
    BY ConstantTypes
  <1>4. mem_q' \in [0..1 -> LsuRequest]
    BY <1>1, <1>2, <1>3 DEF LB!LBStep
  <1>5. read_pointer_q' \in 0..1 /\ write_pointer_q' \in 0..1 /\ status_cnt_q' \in 0..3
    BY DEF LB!LBStep
  <1> QED BY <1>4, <1>5

\* The inputs x of the LSU in a cycle, and the cycle they belong to.
Inputs(x) ==
    /\ x.req = issue_q /\ x.commit = commit_lsu /\ x.amo_commit = amo_valid_commit
    /\ x.commit_tran_id = commit_pointer_q /\ x.flush = flush(x.amo_ack)
    /\ x.flush_tlb = (commit_ack0(x.amo_ack) /\ c0.ins.op = "sfence")
    /\ x.rdata = mem
    /\ x.gnt \in BOOLEAN /\ x.amo_ack \in BOOLEAN /\ x.wbuffer_empty \in BOOLEAN
    /\ x.d \in CacheAnswers /\ x.w \in WalkAnswers
    /\ x.gnt => data_req
    /\ x.amo_ack => amo_req(amo_valid_commit)

Steps(ins, x) == /\ ins # NoInstr => can_issue(ins)
                 /\ LSUStep(x)
                 /\ scoreboard(ins, x)
                 /\ memory(x)

LEMMA NextIsCycle ==
    ASSUME Next
    PROVE  \E ins \in Instr \cup {NoInstr} : \E x : Inputs(x) /\ Steps(ins, x)
  <1>1. PICK ins \in Instr \cup {NoInstr}, gnt \in BOOLEAN, amo_ack \in BOOLEAN,
             wbuffer_empty \in WBufferEmpty, d \in CacheAnswers, w \in WalkAnswers :
               Cycle(ins, gnt, amo_ack, wbuffer_empty, d, w)
    BY DEF Next
  <1> DEFINE x == lsu_in(gnt, amo_ack, wbuffer_empty, d, w)
  <1>2. wbuffer_empty \in BOOLEAN
    BY DEF WBufferEmpty
  <1>3. Steps(ins, x) /\ (gnt => data_req) /\ (amo_ack => amo_req(amo_valid_commit))
    BY <1>1 DEF Cycle, Steps
  <1>4. Inputs(x)
    BY <1>2, <1>3 DEF lsu_in, Inputs
  <1> QED BY <1>3, <1>4

\* What the units see at the head of the FIFO.
LEMMA FrontType ==
    ASSUME CoreTypes, NEW x, x.req = issue_q
    PROVE  lsu_ctrl(x) = Front /\ Front \in LsuRequest
  <1>1. lsu_ctrl(x) = Front
    BY DEF lsu_ctrl, LB!lsu_ctrl_o, LB!empty, Front
  <1>2. Front \in LsuRequest
    BY DEF CoreTypes, LsuTypes, SbTypes, Front
  <1> QED BY <1>1, <1>2

LEMMA StoreUnitInput ==
    ASSUME CoreTypes, NEW x, Inputs(x)
    PROVE  /\ st_in(x) \in Input
           /\ st_in(x).valid = (Front.valid /\ is_store(Front))
           /\ st_in(x).ctrl = [req |-> Front.req, amo |-> Front.op = "amo"]
           /\ st_in(x).ex = mmu_exception /\ st_in(x).hit = dtlb_hit(x)
           /\ st_in(x).commit = commit_lsu /\ st_in(x).amo_commit = amo_valid_commit
           /\ st_in(x).flush = flush(x.amo_ack) /\ st_in(x).gnt = x.gnt
           /\ st_in(x).amo_ack = x.amo_ack
  <1>1. lsu_ctrl(x) = Front /\ Front \in LsuRequest
    BY FrontType DEF Inputs
  <1>2. /\ commit_lsu \in BOOLEAN /\ amo_valid_commit \in BOOLEAN
        /\ flush(x.amo_ack) \in BOOLEAN /\ mmu_exception \in BOOLEAN
        /\ dtlb_hit(x) \in BOOLEAN /\ (Front.valid /\ is_store(Front)) \in BOOLEAN
        /\ (Front.op = "amo") \in BOOLEAN
    BY DEF commit_lsu, amo_valid_commit, flush, mmu_exception, dtlb_hit, PTW!data_error
  <1>3. Front.req \in Store
    BY <1>1 DEF LsuRequest
  <1>4. st_in(x) = [valid |-> Front.valid /\ is_store(Front),
                    ctrl |-> [req |-> Front.req, amo |-> Front.op = "amo"],
                    hit |-> dtlb_hit(x), ex |-> mmu_exception,
                    commit |-> commit_lsu, amo_commit |-> amo_valid_commit,
                    flush |-> flush(x.amo_ack), gnt |-> x.gnt, amo_ack |-> x.amo_ack]
    BY <1>1 DEF st_in, Inputs
  <1>5. x.gnt \in BOOLEAN /\ x.amo_ack \in BOOLEAN
    BY DEF Inputs
  <1>6. [req |-> Front.req, amo |-> Front.op = "amo"] \in Request
    BY <1>2, <1>3 DEF Request
  <1> QED BY <1>2, <1>4, <1>5, <1>6 DEF Input

LEMMA CacheAnswerType ==
    ASSUME CoreTypes, NEW d \in CacheAnswers
    PROVE  /\ d.rd_ack \in BOOLEAN /\ d.wr_cl_vld \in BOOLEAN /\ d.hit \in BOOLEAN
           /\ d.miss_ack \in BOOLEAN /\ d.miss_replay \in BOOLEAN /\ d.miss_rtrn \in BOOLEAN
  <1> DEFINE R == [rd_ack : BOOLEAN, wr_cl_vld : BOOLEAN, hit : BOOLEAN,
                   miss_ack : BOOLEAN, miss_replay : BOOLEAN, miss_rtrn : BOOLEAN]
  <1>1. /\ Quiet \in R
        /\ [Quiet EXCEPT !.rd_ack = TRUE] \in R /\ [Quiet EXCEPT !.wr_cl_vld = TRUE] \in R
        /\ [Quiet EXCEPT !.hit = TRUE] \in R
        /\ [Quiet EXCEPT !.hit = TRUE, !.rd_ack = TRUE] \in R
        /\ [Quiet EXCEPT !.miss_ack = TRUE] \in R /\ [Quiet EXCEPT !.miss_replay = TRUE] \in R
        /\ [Quiet EXCEPT !.miss_rtrn = TRUE] \in R
    BY DEF Quiet
  <1>2. dc_state_q \in DC!State
    BY DEF CoreTypes, LsuTypes, DC!TypeOK
  <1>3. \/ d = Quiet \/ d = [Quiet EXCEPT !.rd_ack = TRUE]
        \/ d = [Quiet EXCEPT !.wr_cl_vld = TRUE] \/ d = [Quiet EXCEPT !.hit = TRUE]
        \/ d = [Quiet EXCEPT !.hit = TRUE, !.rd_ack = TRUE]
        \/ d = [Quiet EXCEPT !.miss_ack = TRUE] \/ d = [Quiet EXCEPT !.miss_replay = TRUE]
        \/ d = [Quiet EXCEPT !.miss_rtrn = TRUE]
    <2> USE DEF CacheAnswers
    <2>1. CASE dc_state_q \in {"IDLE", "REPLAY_REQ"}
      BY <2>1
    <2>2. CASE dc_state_q \in {"READ", "REPLAY_READ"}
      BY <2>2
    <2>3. CASE dc_state_q \in {"MISS_REQ", "KILL_MISS_ACK"}
      BY <2>3
    <2>4. CASE dc_state_q \in {"MISS_WAIT", "KILL_MISS"}
      BY <2>4
    <2> QED BY <1>2, <2>1, <2>2, <2>3, <2>4 DEF DC!State
  <1>4. d \in R
    BY <1>1, <1>3, Zenon
  <1> QED BY <1>4

\* The inputs of the load unit.
ld(x) == ld_in(x, DC!data_gnt(dc_in(x)), DC!data_rvalid(dc_in(x)))

LEMMA LoadUnitInput ==
    ASSUME CoreTypes, NEW x, Inputs(x)
    PROVE  /\ ld(x).valid = (Front.valid /\ Front.op = "load")
           /\ ld(x).trans_id = Front.trans_id
           /\ ld(x).matches = page_offset_matches(x) /\ ld(x).hit = dtlb_hit(x)
           /\ ld(x).ex = mmu_exception /\ ld(x).stall_nc = StallNC(x)
           /\ ld(x).wbuffer_empty = x.wbuffer_empty /\ ld(x).flush = flush(x.amo_ack)
           /\ ld(x).gnt = DC!data_gnt(dc_in(x)) /\ ld(x).rvalid = DC!data_rvalid(dc_in(x))
           /\ LU!data_req(ld_req_in(x)) = LU!data_req(ld(x))
           /\ LU!translation_req_o(ld_req_in(x)) = LU!translation_req_o(ld(x))
  <1>1. lsu_ctrl(x) = Front
    BY FrontType DEF Inputs
  <1>2. ld_req_in(x).valid = ld(x).valid /\ ld_req_in(x).matches = ld(x).matches
    BY DEF ld_req_in, ld_in, ld
  <1>3. LU!data_req(ld_req_in(x)) = LU!data_req(ld(x))
    BY <1>2 DEF LU!data_req, LU!takes
  <1>4. LU!translation_req_o(ld_req_in(x)) = LU!translation_req_o(ld(x))
    BY <1>2 DEF LU!translation_req_o, LU!takes
  <1>5. /\ ld(x).valid = (Front.valid /\ Front.op = "load")
        /\ ld(x).trans_id = Front.trans_id
        /\ ld(x).matches = page_offset_matches(x) /\ ld(x).hit = dtlb_hit(x)
        /\ ld(x).ex = mmu_exception /\ ld(x).stall_nc = StallNC(x)
        /\ ld(x).wbuffer_empty = x.wbuffer_empty /\ ld(x).flush = flush(x.amo_ack)
        /\ ld(x).gnt = DC!data_gnt(dc_in(x)) /\ ld(x).rvalid = DC!data_rvalid(dc_in(x))
    BY <1>1 DEF ld, ld_in, is_load, Inputs
  <1> QED BY <1>3, <1>4, <1>5

LEMMA CacheInput ==
    ASSUME CoreTypes, NEW x, Inputs(x)
    PROVE  LET dc == dc_in(x)
           IN  /\ dc.data_req = LU!data_req(ld(x)) /\ dc.idx = Front.req.off
               /\ dc.tag_valid = LU!tag_valid /\ dc.tag = lsu_q.addr.page
               /\ dc.kill = LU!kill_req(mmu_exception)
               /\ dc.rd_ack = x.d.rd_ack /\ dc.wr_cl_vld = x.d.wr_cl_vld
               /\ dc.hit = x.d.hit /\ dc.miss_ack = x.d.miss_ack
               /\ dc.miss_replay = x.d.miss_replay /\ dc.miss_rtrn = x.d.miss_rtrn
               /\ dc.idx \in Offset /\ dc.tag \in Page /\ dc.rd_ack \in BOOLEAN
  <1> DEFINE dc == dc_in(x)
  <1>1. lsu_ctrl(x) = Front /\ Front \in LsuRequest
    BY FrontType DEF Inputs
  <1>2. LU!data_req(ld_req_in(x)) = LU!data_req(ld(x))
    BY LoadUnitInput
  <1>3. dc = [data_req |-> LU!data_req(ld(x)), idx |-> Front.req.off,
              tag_valid |-> LU!tag_valid, tag |-> lsu_q.addr.page,
              kill |-> LU!kill_req(mmu_exception),
              rd_ack |-> x.d.rd_ack, wr_cl_vld |-> x.d.wr_cl_vld, hit |-> x.d.hit,
              miss_ack |-> x.d.miss_ack, miss_replay |-> x.d.miss_replay,
              miss_rtrn |-> x.d.miss_rtrn]
    BY <1>1, <1>2 DEF dc_in
  <1>4. Front.req.off \in Offset
    BY <1>1 DEF LsuRequest, Store
  <1>5. lsu_q.addr.page \in Page
    BY DEF CoreTypes, LsuTypes, Addr
  <1>6. x.d.rd_ack \in BOOLEAN
    BY CacheAnswerType DEF Inputs
  <1> HIDE DEF dc
  <1> QED BY <1>3, <1>4, <1>5, <1>6 DEF dc

\* The parts of a cycle of the LSU.
LEMMA LsuParts ==
    ASSUME CoreTypes, NEW x, Inputs(x), LSUStep(x)
    PROVE  LET dc == dc_in(x)
           IN  /\ SUStep(st_in(x)) /\ st_trans_id_q' = Front.trans_id
               /\ LU!LUStep(ld(x)) /\ DC!DCStep(dc)
               /\ LB!LBStep(issue_q, LU!pop_ld_o(ld(x)), pop_st_o(st_in(x)), flush(x.amo_ack))
               /\ PTW!WStep(walk_in(x, translation_req(x)))
               /\ lsu_q' = [req |-> translation_req(x),
                            addr |-> [page |-> Front.req.page, off |-> Front.req.off],
                            misaligned |-> Front.misaligned /\ translation_req(x),
                            hit |-> dtlb_hit(x)]
               /\ load_pipe_q' =
                     IF LU!valid_o(ld(x))
                       THEN [valid |-> TRUE, trans_id |-> LU!trans_id_o(ld(x)),
                             data |-> mem[rd_addr(dc)], ex |-> LU!ex_o(ld(x))]
                       ELSE NoResult
               /\ x.d.rd_ack => DC!rd_req_o(dc)
  <1>1. lsu_ctrl(x) = Front
    BY FrontType DEF Inputs
  <1> QED BY <1>1 DEF LSUStep, data_interface, misaligned_ex, ld, Inputs

LEMMA LsuTypeStep ==
    ASSUME CoreTypes, NEW x, Inputs(x), LSUStep(x)
    PROVE  LsuTypes'
  <1> DEFINE dc == dc_in(x)
  <1>1. TypeOK'
    <2>1. TypeOK /\ SUStep(st_in(x)) /\ st_in(x) \in Input
      BY LsuParts, StoreUnitInput DEF CoreTypes, LsuTypes
    <2> QED BY <2>1, TypeStep
  <1>2. Front \in LsuRequest
    BY FrontType DEF Inputs
  <1>3. LU!TypeOK'
    <2>1. LU!TypeOK /\ LU!LUStep(ld(x)) /\ ld(x).trans_id \in TransId
      BY <1>2, LsuParts, LoadUnitInput DEF CoreTypes, LsuTypes, LsuRequest
    <2> QED BY <2>1, LuTypeStep
  <1>4. DC!TypeOK'
    <2>1. DC!TypeOK /\ DC!DCStep(dc) /\ dc.tag \in Page /\ dc.idx \in Offset /\ dc.rd_ack \in BOOLEAN
      BY LsuParts, CacheInput DEF CoreTypes, LsuTypes
    <2> QED BY <2>1, DcTypeStep
  <1>5. st_trans_id_q' \in TransId
    BY <1>2, LsuParts DEF LsuRequest
  <1>6. /\ mem_q' \in [0..1 -> LsuRequest] /\ read_pointer_q' \in 0..1
        /\ write_pointer_q' \in 0..1 /\ status_cnt_q' \in 0..3
    <2>1. /\ issue_q \in LsuRequest
          /\ mem_q \in [0..1 -> LsuRequest] /\ read_pointer_q \in 0..1
          /\ write_pointer_q \in 0..1 /\ status_cnt_q \in 0..3
          /\ LB!LBStep(issue_q, LU!pop_ld_o(ld(x)), pop_st_o(st_in(x)), flush(x.amo_ack))
      BY LsuParts DEF CoreTypes, LsuTypes, SbTypes
    <2> QED BY <2>1, LbTypeStep
  <1>7. lsu_q' \in [req : BOOLEAN, addr : Addr, misaligned : BOOLEAN, hit : BOOLEAN]
    <2>1. translation_req(x) \in BOOLEAN /\ dtlb_hit(x) \in BOOLEAN
      BY DEF translation_req, dtlb_hit
    <2>2. [page |-> Front.req.page, off |-> Front.req.off] \in Addr
      BY <1>2 DEF LsuRequest, Store, Addr
    <2>3. lsu_q' = [req |-> translation_req(x),
                    addr |-> [page |-> Front.req.page, off |-> Front.req.off],
                    misaligned |-> Front.misaligned /\ translation_req(x),
                    hit |-> dtlb_hit(x)]
      BY LsuParts
    <2> QED BY <2>1, <2>2, <2>3
  <1>8. load_pipe_q' \in [valid : BOOLEAN, trans_id : TransId, data : Data, ex : BOOLEAN]
    <2>1. NoResult \in [valid : BOOLEAN, trans_id : TransId, data : Data, ex : BOOLEAN]
      BY ZeroFields, TransIdType DEF NoResult
    <2>2. LU!trans_id_o(ld(x)) \in TransId
      BY <1>2, LoadUnitInput
         DEF LU!trans_id_o, CoreTypes, LsuTypes, LU!TypeOK, LsuRequest
    <2>3. mmu_exception \in BOOLEAN
      BY DEF mmu_exception, CoreTypes, LsuTypes, PTW!data_error
    <2>4. LU!ex_o(ld(x)) \in BOOLEAN
      BY <2>3, LoadUnitInput DEF LU!ex_o
    <2>5. rd_addr(dc) \in Addr
      <3>1. DC!rd_tag_o(dc) \in Page /\ address_idx_q \in Offset
        BY CacheInput DEF DC!rd_tag_o, CoreTypes, LsuTypes, DC!TypeOK
      <3> QED BY <3>1 DEF rd_addr, Addr
    <2>6. mem[rd_addr(dc)] \in Data
      BY <2>5 DEF CoreTypes, SbTypes
    <2>7. load_pipe_q' = IF LU!valid_o(ld(x))
                           THEN [valid |-> TRUE, trans_id |-> LU!trans_id_o(ld(x)),
                                 data |-> mem[rd_addr(dc)], ex |-> LU!ex_o(ld(x))]
                           ELSE NoResult
      BY LsuParts
    <2> QED BY <2>1, <2>2, <2>4, <2>6, <2>7
  <1> QED BY <1>1, <1>3, <1>4, <1>5, <1>6, <1>7, <1>8 DEF LsuTypes

\* The walker's instance of FiniteSets is FiniteSets.
LEMMA WalkerCardinality == PTW!Cardinality(dtlb) = Cardinality(dtlb)
  BY DEF PTW!Cardinality, Cardinality

\* An answer to the walker: entries come from the page table, and the victim is
\* in the TLB.
LEMMA WalkAnswerType ==
    ASSUME NEW w \in WalkAnswers
    PROVE  /\ w.itlb_page = zero.page
           /\ w.rvalid => /\ ptw_state_q \in {"PTE_LOOKUP", "WAIT_RVALID"}
                          /\ w.pte \in PTW!Entries(ptw_page_q, ptw_lvl_q, is_instr_ptw_q)
                          /\ w.victim \in IF dtlb = {} THEN {zero.page} ELSE dtlb
  <1>1. CASE w \in {Idle, [Idle EXCEPT !.itlb_miss = FetchMisses], [Idle EXCEPT !.gnt = TRUE]}
    BY <1>1 DEF Idle
  <1>2. CASE /\ ptw_state_q \in {"PTE_LOOKUP", "WAIT_RVALID"}
             /\ \E e \in PTW!Entries(ptw_page_q, ptw_lvl_q, is_instr_ptw_q),
                   v \in IF dtlb = {} THEN {zero.page} ELSE dtlb : w = EntryRead(e, v)
    <2>1. PICK e \in PTW!Entries(ptw_page_q, ptw_lvl_q, is_instr_ptw_q),
               v \in IF dtlb = {} THEN {zero.page} ELSE dtlb : w = EntryRead(e, v)
      BY <1>2
    <2>2. w.itlb_page = zero.page /\ w.pte = e /\ w.victim = v
      BY <2>1 DEF EntryRead, Idle
    <2> QED BY <1>2, <2>2
  <1> QED BY <1>1, <1>2 DEF WalkAnswers, Walking

LEMMA WalkTypeStep ==
    ASSUME CoreTypes, NEW x, Inputs(x), LSUStep(x)
    PROVE  WalkTypes'
  <1> DEFINE in == walk_in(x, translation_req(x))
  <1>1. /\ in.page \in Page /\ in.itlb_page \in Page /\ in.rvalid = x.w.rvalid
        /\ in.pte = x.w.pte /\ in.victim = x.w.victim
    <2>1. lsu_ctrl(x) = Front /\ Front \in LsuRequest
      BY FrontType DEF Inputs
    <2>2. Front.req.page \in Page
      BY <2>1 DEF LsuRequest, Store
    <2>3. x.w.itlb_page \in Page
      BY ZeroFields, WalkAnswerType DEF Inputs
    <2> QED BY <2>1, <2>2, <2>3 DEF walk_in
  <1>2. x.w.rvalid => x.w.victim \in (IF dtlb = {} THEN {zero.page} ELSE dtlb)
    BY WalkAnswerType DEF Inputs
  <1>3. /\ ptw_state_q \in {"IDLE", "WAIT_GRANT", "PTE_LOOKUP", "WAIT_RVALID", "PROPAGATE_ERROR"}
        /\ ptw_lvl_q \in 1 .. LEVELS /\ ptw_page_q \in Page /\ is_instr_ptw_q \in BOOLEAN
        /\ dtlb \subseteq Page /\ IsFiniteSet(dtlb) /\ Cardinality(dtlb) <= TLB_ENTRIES
    BY WalkerCardinality DEF CoreTypes, WalkTypes, PTW!TypeOK
  <1>4. PTW!WStep(in)
    BY LsuParts
  <1> HIDE DEF in
  <1>5. ptw_state_q' \in {"IDLE", "WAIT_GRANT", "PTE_LOOKUP", "WAIT_RVALID", "PROPAGATE_ERROR"}
    BY <1>3, <1>4 DEF PTW!WStep, PTW!state_d
  <1>6. ptw_lvl_q' \in 1 .. LEVELS
    BY <1>3, <1>4, LSUAssumption DEF PTW!WStep, PTW!descends
  <1>7. ptw_page_q' \in Page /\ is_instr_ptw_q' \in BOOLEAN
    BY <1>1, <1>3, <1>4 DEF PTW!WStep, PTW!starts
  <1>8. dtlb' \subseteq Page /\ IsFiniteSet(dtlb') /\ Cardinality(dtlb') <= TLB_ENTRIES
    <2>1. CASE dtlb' = {}
      BY <2>1, FS_EmptySet, LSUAssumption
    <2>2. CASE dtlb' = dtlb
      BY <2>2, <1>3
    <2>3. CASE Cardinality(dtlb) < TLB_ENTRIES /\ dtlb' = {ptw_page_q} \cup dtlb
      <3>1. dtlb' = dtlb \cup {ptw_page_q}
        BY <2>3
      <3>2. /\ IsFiniteSet(dtlb \cup {ptw_page_q}) /\ Cardinality(dtlb) \in Nat
            /\ Cardinality(dtlb \cup {ptw_page_q})
                 = IF ptw_page_q \in dtlb THEN Cardinality(dtlb) ELSE Cardinality(dtlb) + 1
        BY <1>3, FS_AddElement, FS_CardinalityType
      <3>3. Cardinality(dtlb') <= TLB_ENTRIES
        BY <2>3, <3>1, <3>2, LSUAssumption
      <3> QED BY <1>3, <3>1, <3>2, <3>3
    <2>4. CASE /\ ~(Cardinality(dtlb) < TLB_ENTRIES) /\ in.rvalid
               /\ dtlb' = {ptw_page_q} \cup (dtlb \ {in.victim})
      <3>1. Cardinality(dtlb) \in Nat /\ Cardinality(dtlb) = TLB_ENTRIES
        BY <1>3, <2>4, FS_CardinalityType, LSUAssumption
      <3>2. dtlb # {}
        BY <3>1, FS_EmptySet, LSUAssumption
      <3>3. in.victim \in dtlb
        BY <1>1, <1>2, <2>4, <3>2
      <3> DEFINE rest == dtlb \ {in.victim}
      <3>4. IsFiniteSet(rest) /\ Cardinality(rest) = Cardinality(dtlb) - 1
        BY <1>3, <3>3, FS_RemoveElement
      <3> HIDE DEF rest
      <3>5. dtlb' = rest \cup {ptw_page_q}
        BY <2>4 DEF rest
      <3>6. /\ IsFiniteSet(rest \cup {ptw_page_q})
            /\ Cardinality(rest \cup {ptw_page_q})
                 = IF ptw_page_q \in rest THEN Cardinality(rest) ELSE Cardinality(rest) + 1
        BY <3>4, FS_AddElement
      <3>7. Cardinality(dtlb') <= TLB_ENTRIES
        BY <3>1, <3>4, <3>5, <3>6, LSUAssumption
      <3>8. rest \subseteq Page
        BY <1>3 DEF rest
      <3> QED BY <1>3, <3>5, <3>6, <3>7, <3>8
    <2>5. \/ dtlb' = {} \/ dtlb' = dtlb
          \/ PTW!Cardinality(dtlb) < TLB_ENTRIES /\ dtlb' = {ptw_page_q} \cup dtlb
          \/ /\ ~(PTW!Cardinality(dtlb) < TLB_ENTRIES) /\ in.rvalid
             /\ dtlb' = {ptw_page_q} \cup (dtlb \ {in.victim})
      BY <1>4 DEF PTW!WStep, PTW!update_flush, PTW!dtlb_update, PTW!looked_up
    <2> QED BY <2>1, <2>2, <2>3, <2>4, <2>5, WalkerCardinality
  <1>9. PTW!Cardinality(dtlb)' = Cardinality(dtlb')
    BY DEF PTW!Cardinality, Cardinality
  <1> QED BY <1>5, <1>6, <1>7, <1>8, <1>9 DEF WalkTypes, PTW!TypeOK

LEMMA ModRange ==
    ASSUME NEW k \in Int
    PROVE  k % NR_SB_ENTRIES \in TransId
  BY LSUAssumption DEF TransId

LEMMA WriteBackType ==
    ASSUME NEW sb \in [TransId -> SbEntry], NEW valid, NEW id \in TransId,
           NEW data \in Data, NEW ex \in BOOLEAN
    PROVE  write_back(sb, valid, id, data, ex) \in [TransId -> SbEntry]
  <1>1. \A e \in SbEntry : completed(e, data, ex) \in SbEntry
    BY DEF SbEntry, completed
  <1> QED BY <1>1 DEF write_back

\* The entry of an instruction that is issued.
NewEntry(ins) == [issued |-> TRUE, valid |-> ins.op = "trap",
                  ex |-> ins.op = "trap", result |-> zero.data, ins |-> ins]

LEMMA NewEntryType ==
    ASSUME NEW ins \in Instr
    PROVE  NewEntry(ins) \in SbEntry
  BY ZeroFields DEF NewEntry, SbEntry

LEMMA SbTypeStep ==
    ASSUME CoreTypes, NEW ins \in Instr \cup {NoInstr}, NEW x, Inputs(x), Steps(ins, x)
    PROVE  SbTypes'
  <1>1. mem_sb' \in [TransId -> SbEntry]
    <2> DEFINE en == ins # NoInstr /\ ~x.flush
               issued == IF en THEN [mem_sb EXCEPT ![issue_pointer_q] = NewEntry(ins)]
                               ELSE mem_sb
               loaded == write_back(issued, load_pipe_q.valid, load_pipe_q.trans_id,
                                    load_pipe_q.data, load_pipe_q.ex)
               stored == write_back(loaded, st_done(st_in(x)), st_trans_id_q,
                                    zero.data, mmu_exception)
               flu_done == write_back(stored, issue_q.op \in FlushOp, issue_q.trans_id,
                                      zero.data, FALSE)
               once == retire(flu_done, commit_ack0(x.amo_ack), commit_pointer_q)
               twice == retire(once, commit_ack1(x.amo_ack), Next1(commit_pointer_q))
    <2>1. mem_sb' = IF x.flush THEN [i \in TransId |-> EmptyEntry] ELSE twice
      BY DEF Steps, scoreboard, NewEntry
    <2>2. issued \in [TransId -> SbEntry]
      BY NewEntryType DEF CoreTypes, SbTypes
    <2> HIDE DEF issued
    <2>3. loaded \in [TransId -> SbEntry]
      BY <2>2, WriteBackType DEF CoreTypes, LsuTypes
    <2> HIDE DEF loaded
    <2>4. mmu_exception \in BOOLEAN /\ zero.data \in Data /\ st_trans_id_q \in TransId
      BY ZeroFields DEF mmu_exception, CoreTypes, LsuTypes, PTW!data_error
    <2>5. stored \in [TransId -> SbEntry]
      BY <2>3, <2>4, WriteBackType
    <2> HIDE DEF stored
    <2>6. flu_done \in [TransId -> SbEntry]
      BY <2>4, <2>5, WriteBackType DEF CoreTypes, SbTypes, LsuRequest
    <2> HIDE DEF flu_done
    <2>7. once \in [TransId -> SbEntry]
      BY <2>6, ConstantTypes DEF retire
    <2> HIDE DEF once
    <2>8. twice \in [TransId -> SbEntry]
      BY <2>7, ConstantTypes DEF retire
    <2> HIDE DEF twice
    <2> QED BY <2>1, <2>8, ConstantTypes
  <1>2. issue_cnt_q \in Int /\ issue_pointer_q \in Int /\ commit_pointer_q \in Int
    BY TransIdType DEF CoreTypes, SbTypes
  <1>3. issue_cnt_q' \in TransId /\ issue_pointer_q' \in TransId /\ commit_pointer_q' \in TransId
    <2> DEFINE n == (IF commit_ack0(x.amo_ack) THEN 1 ELSE 0)
                      + (IF commit_ack1(x.amo_ack) THEN 1 ELSE 0)
               e == IF ins # NoInstr /\ ~x.flush THEN 1 ELSE 0
    <2>1. n \in Int /\ e \in Int
      OBVIOUS
    <2>2. /\ issue_cnt_q' \in {0, (issue_cnt_q - n + e) % NR_SB_ENTRIES}
          /\ issue_pointer_q' \in {0, (issue_pointer_q + 1) % NR_SB_ENTRIES, issue_pointer_q}
          /\ commit_pointer_q' \in {0, (commit_pointer_q + n) % NR_SB_ENTRIES}
      BY DEF Steps, scoreboard, Next1
    <2> HIDE DEF n, e
    <2>3. /\ (issue_cnt_q - n + e) % NR_SB_ENTRIES \in TransId
          /\ (issue_pointer_q + 1) % NR_SB_ENTRIES \in TransId
          /\ (commit_pointer_q + n) % NR_SB_ENTRIES \in TransId
      BY <1>2, <2>1, ModRange
    <2> QED BY <2>2, <2>3, TransIdType DEF CoreTypes, SbTypes
  <1>4. issue_q' \in LsuRequest
    <2>1. CASE issue_q' = NoRequest
      BY <2>1, ConstantTypes
    <2>2. CASE /\ ins \in Instr
               /\ issue_q' = [valid |-> is_lsu(ins), op |-> ins.op, req |-> ins.req,
                              misaligned |-> ins.misaligned, trans_id |-> issue_pointer_q]
      <3>1. ins \in [op : Op, req : Store, misaligned : BOOLEAN] /\ is_lsu(ins) \in BOOLEAN
        BY <2>2, ConstantTypes DEF is_lsu
      <3>2. issue_pointer_q \in TransId
        BY DEF CoreTypes, SbTypes
      <3> QED BY <2>2, <3>1, <3>2 DEF LsuRequest
    <2> QED BY <2>1, <2>2 DEF Steps, scoreboard, id_ex
  <1>5. mem' \in [Addr -> Data] /\ arch' \in [Addr -> Data]
    <2>1. \A m \in [Addr -> Data], req \in Store : \A b : Write(m, b, req) \in [Addr -> Data]
      BY DEF Write, Store, Addr, AddrOf
    <2>2. data_out \in Store /\ amo_data \in Store
      BY DEF CoreTypes, LsuTypes, TypeOK, data_out, Entry, CommitIndex
    <2>3. c0.ins.req \in Store
      <3>1. c0 \in SbEntry
        BY DEF c0, CoreTypes, SbTypes
      <3>2. c0.ins \in [op : Op, req : Store, misaligned : BOOLEAN]
        BY <3>1, ConstantTypes DEF SbEntry
      <3> QED BY <3>2
    <2>4. /\ mem' = Write(Write(mem, data_req /\ x.gnt, data_out), x.amo_ack, amo_data)
          /\ arch' = Write(arch, commit_lsu \/ x.amo_ack, c0.ins.req)
      BY DEF Steps, memory
    <2>5. mem \in [Addr -> Data] /\ arch \in [Addr -> Data]
      BY DEF CoreTypes, SbTypes
    <2> QED BY <2>1, <2>2, <2>3, <2>4, <2>5
  <1> QED BY <1>1, <1>3, <1>4, <1>5 DEF SbTypes

LEMMA TypesInit == Init => CoreTypes
  <1> SUFFICES ASSUME Init PROVE CoreTypes
    OBVIOUS
  <1>1. LsuTypes
    <2>1. TypeOK
      BY InitOK DEF Init, LSUInit, IInv
    <2>2. /\ zero.page \in Page /\ zero.off \in Offset /\ zero.data \in Data /\ 0 \in TransId
          /\ NoRequest \in LsuRequest
      BY ZeroFields, TransIdType, ConstantTypes
    <2>3. LU!TypeOK /\ DC!TypeOK
      BY <2>2 DEF Init, LSUInit, LU!LUInit, DC!DCInit, LU!TypeOK, DC!TypeOK, LU!State, DC!State
    <2>4. /\ st_trans_id_q \in TransId
          /\ mem_q \in [0..1 -> LsuRequest]
          /\ read_pointer_q \in 0..1 /\ write_pointer_q \in 0..1 /\ status_cnt_q \in 0..3
      BY <2>2 DEF Init, LSUInit, LB!LBInit
    <2>5. /\ lsu_q \in [req : BOOLEAN, addr : Addr, misaligned : BOOLEAN, hit : BOOLEAN]
          /\ load_pipe_q \in [valid : BOOLEAN, trans_id : TransId, data : Data, ex : BOOLEAN]
      BY <2>2 DEF Init, LSUInit, NoResult, Addr
    <2> QED BY <2>1, <2>3, <2>4, <2>5 DEF LsuTypes
  <1>2. WalkTypes
    <2>1. PTW!Cardinality(dtlb) = 0 /\ IsFiniteSet(dtlb)
      BY FS_EmptySet, WalkerCardinality DEF Init, LSUInit, PTW!WInit
    <2>2. 1 \in 1 .. LEVELS /\ 0 <= TLB_ENTRIES
      BY LSUAssumption
    <2> QED BY <2>1, <2>2, ZeroFields DEF Init, LSUInit, PTW!WInit, WalkTypes, PTW!TypeOK
  <1>3. SbTypes
    BY ConstantTypes, TransIdType, ZeroFields DEF Init, SbTypes
  <1> QED BY <1>1, <1>2, <1>3 DEF CoreTypes

LEMMA TypesStep ==
    ASSUME CoreTypes, [Next]_coreVars
    PROVE  CoreTypes'
  <1>1. CASE UNCHANGED coreVars
    <2>1. UNCHANGED <<vars, st_trans_id_q, LU!vars, DC!vars, LB!vars, PTW!vars, lsu_q,
                      load_pipe_q, sbVarsCore, mem, arch>>
      BY <1>1 DEF coreVars, lsuVars
    <2>2. LsuTypes'
      BY <2>1 DEF vars, sbVars, suVars, specVars, commitVars, LU!vars, DC!vars, LB!vars,
                  CoreTypes, LsuTypes, TypeOK, LU!TypeOK, DC!TypeOK
    <2>3. WalkTypes'
      <3>1. UNCHANGED <<ptw_state_q, ptw_lvl_q, ptw_page_q, is_instr_ptw_q, dtlb>>
        BY <2>1 DEF PTW!vars
      <3>2. PTW!Cardinality(dtlb)' = PTW!Cardinality(dtlb)
        BY <3>1 DEF PTW!Cardinality
      <3>3. IsFiniteSet(dtlb)'
        BY <3>1 DEF CoreTypes, WalkTypes
      <3> QED BY <3>1, <3>2, <3>3 DEF CoreTypes, WalkTypes, PTW!TypeOK
    <2>4. SbTypes'
      BY <2>1 DEF sbVarsCore, CoreTypes, SbTypes
    <2> QED BY <2>2, <2>3, <2>4 DEF CoreTypes
  <1>2. CASE Next
    <2>1. PICK ins \in Instr \cup {NoInstr} : \E x : Inputs(x) /\ Steps(ins, x)
      BY <1>2, NextIsCycle
    <2>2. PICK x : Inputs(x) /\ Steps(ins, x)
      BY <2>1
    <2>3. LSUStep(x)
      BY <2>2 DEF Steps
    <2> QED BY <2>2, <2>3, LsuTypeStep, WalkTypeStep, SbTypeStep DEF CoreTypes
  <1> QED BY <1>1, <1>2

\* The type invariant of the pipeline holds for every size of the scoreboard,
\* the queues, the page table and the TLB, and for every program: no counter or
\* pointer leaves its range, and the TLB never holds more entries than it has.
THEOREM CoreTypeCorrect == Spec => []CoreTypeOK
  <1>1. CoreTypes => CoreTypeOK
    BY DEF CoreTypes, LsuTypes, WalkTypes, SbTypes, SbEntry, CoreTypeOK
  <1> QED BY <1>1, TypesInit, TypesStep, PTL DEF Spec

-----------------------------------------------------------------------------
(* Cycles in which no unit takes an exception *)

LEMMA CalmFacts ==
    ASSUME Calm
    PROVE  \/ mmu_exception = FALSE
           \/ ld_state_q = "WAIT_FLUSH" /\ ~Front.valid /\ state_q = "IDLE"
  BY DEF Calm, mmu_exception

-----------------------------------------------------------------------------
(* The load unit and its port of the data cache *)

Pops(x) == LU!pop_ld_o(ld(x))
Answers(x) == LU!valid_o(ld(x))

\* A cycle of the load unit without an exception.
LEMMA LoadUnitStep ==
    ASSUME CoreTypes, Calm, NEW x, Inputs(x), LSUStep(x), ~flush(x.amo_ack)
    PROVE  LET req == LU!data_req(ld(x))
               gnt == DC!data_gnt(dc_in(x))
               takes == Front.valid /\ Front.op = "load" /\ ld_state_q \in {"IDLE", "SEND_TAG"}
           IN  /\ req = ((takes /\ ~page_offset_matches(x)) \/ ld_state_q = "WAIT_GNT")
               /\ Pops(x) = (req /\ gnt /\ dtlb_hit(x) /\ ~StallNC(x))
               /\ Answers(x) = /\ ~Aborts /\ ld_state_q \notin {"WAIT_TRANSLATION", "WAIT_FLUSH"}
                               /\ DC!data_rvalid(dc_in(x))
               /\ load_data_q' = IF Pops(x) THEN Front.trans_id ELSE load_data_q
               /\ load_pipe_q' = IF Answers(x)
                                   THEN [valid |-> TRUE, trans_id |-> load_data_q,
                                         data |-> mem[rd_addr(dc_in(x))], ex |-> FALSE]
                                   ELSE NoResult
               /\ req => ld_state_q' = IF ~gnt THEN "WAIT_GNT"
                                       ELSE IF ~dtlb_hit(x) THEN "ABORT_TRANSACTION"
                                       ELSE IF StallNC(x) THEN "ABORT_TRANSACTION_NC"
                                       ELSE "SEND_TAG"
               /\ ~req /\ takes => ld_state_q' = "WAIT_PAGE_OFFSET"
               /\ ~req /\ ~takes =>
                    CASE ld_state_q = "WAIT_PAGE_OFFSET" ->
                           ld_state_q' = IF page_offset_matches(x) THEN "WAIT_PAGE_OFFSET"
                                                                   ELSE "WAIT_GNT"
                      [] ld_state_q = "ABORT_TRANSACTION" -> ld_state_q' = "WAIT_TRANSLATION"
                      [] ld_state_q = "ABORT_TRANSACTION_NC" -> ld_state_q' = "WAIT_WB_EMPTY"
                      [] ld_state_q = "WAIT_WB_EMPTY" ->
                           ld_state_q' \in {"WAIT_TRANSLATION", "WAIT_WB_EMPTY"}
                      [] ld_state_q = "WAIT_TRANSLATION" ->
                           ld_state_q' \in {"WAIT_GNT", "WAIT_TRANSLATION"}
                      [] OTHER -> ld_state_q' = "IDLE"
  <1> DEFINE in == ld(x)
  <1>1. in.ex = FALSE \/ (ld_state_q = "WAIT_FLUSH" /\ ~Front.valid)
    BY CalmFacts, LoadUnitInput
  <1>2. /\ in.valid = (Front.valid /\ Front.op = "load")
        /\ in.trans_id = Front.trans_id
        /\ in.matches = page_offset_matches(x) /\ in.hit = dtlb_hit(x)
        /\ in.stall_nc = StallNC(x)
        /\ in.flush = FALSE
        /\ in.gnt = DC!data_gnt(dc_in(x)) /\ in.rvalid = DC!data_rvalid(dc_in(x))
    <2>1. flush(x.amo_ack) = FALSE
      BY DEF flush
    <2> QED BY <2>1, LoadUnitInput
  <1>3. /\ LU!LUStep(in)
        /\ load_pipe_q' = IF LU!valid_o(in)
                            THEN [valid |-> TRUE, trans_id |-> LU!trans_id_o(in),
                                  data |-> mem[rd_addr(dc_in(x))], ex |-> LU!ex_o(in)]
                            ELSE NoResult
    BY LsuParts
  <1>4. Pops(x) = LU!pop_ld_o(in) /\ Answers(x) = LU!valid_o(in)
    BY DEF Pops, Answers
  <1> HIDE DEF in
  <1>5. LU!traps(in) = FALSE /\ LU!traps_now(in) = FALSE
    BY <1>1, <1>2 DEF LU!traps, LU!traps_now
  <1>6. LU!takes(in) = (Front.valid /\ Front.op = "load" /\ ld_state_q \in {"IDLE", "SEND_TAG"})
    BY <1>2 DEF LU!takes
  <1>7. LU!data_req(in) = ((LU!takes(in) /\ ~page_offset_matches(x)) \/ ld_state_q = "WAIT_GNT")
    BY <1>2 DEF LU!data_req
  <1>8. LU!pop_ld_o(in) = (LU!data_req(in) /\ DC!data_gnt(dc_in(x)) /\ dtlb_hit(x) /\ ~StallNC(x))
    BY <1>2, <1>5 DEF LU!pop_ld_o, LU!granted
  <1>9. LU!valid_o(in) = /\ ~Aborts /\ ld_state_q \notin {"WAIT_TRANSLATION", "WAIT_FLUSH"}
                         /\ DC!data_rvalid(dc_in(x))
    BY <1>1, <1>2, <1>5 DEF LU!valid_o, LU!kill_req, Aborts
  <1>10. load_data_q' = IF LU!pop_ld_o(in) THEN Front.trans_id ELSE load_data_q
    BY <1>1, <1>2, <1>3, <1>7, <1>8, <1>6 DEF LU!LUStep
  <1>11. load_pipe_q' = IF LU!valid_o(in)
                          THEN [valid |-> TRUE, trans_id |-> load_data_q,
                                data |-> mem[rd_addr(dc_in(x))], ex |-> FALSE]
                          ELSE NoResult
    BY <1>1, <1>2, <1>3, <1>5, <1>9 DEF LU!trans_id_o, LU!ex_o
  <1>12. LU!data_req(in) => ld_state_q' = IF ~DC!data_gnt(dc_in(x)) THEN "WAIT_GNT"
                                          ELSE IF ~dtlb_hit(x) THEN "ABORT_TRANSACTION"
                                          ELSE IF StallNC(x) THEN "ABORT_TRANSACTION_NC"
                                          ELSE "SEND_TAG"
    BY <1>2, <1>3, <1>5 DEF LU!LUStep, LU!state_d, LU!requested
  <1>13. ~LU!data_req(in) /\ LU!takes(in) => ld_state_q' = "WAIT_PAGE_OFFSET"
    BY <1>2, <1>3, <1>5 DEF LU!LUStep, LU!state_d
  <1>14. ~LU!data_req(in) /\ ~LU!takes(in) =>
            CASE ld_state_q = "WAIT_PAGE_OFFSET" ->
                   ld_state_q' = IF page_offset_matches(x) THEN "WAIT_PAGE_OFFSET"
                                                           ELSE "WAIT_GNT"
              [] ld_state_q = "ABORT_TRANSACTION" -> ld_state_q' = "WAIT_TRANSLATION"
              [] ld_state_q = "ABORT_TRANSACTION_NC" -> ld_state_q' = "WAIT_WB_EMPTY"
              [] ld_state_q = "WAIT_WB_EMPTY" ->
                   ld_state_q' \in {"WAIT_TRANSLATION", "WAIT_WB_EMPTY"}
              [] ld_state_q = "WAIT_TRANSLATION" ->
                   ld_state_q' \in {"WAIT_GNT", "WAIT_TRANSLATION"}
              [] OTHER -> ld_state_q' = "IDLE"
    BY <1>2, <1>3, <1>5 DEF LU!LUStep, LU!state_d
  <1> QED BY <1>4, <1>6, <1>7, <1>8, <1>9, <1>10, <1>11, <1>12, <1>13, <1>14 DEF in

Busy == {"READ", "REPLAY_READ", "REPLAY_REQ", "MISS_REQ", "MISS_WAIT"}
Killed == {"KILL_MISS", "KILL_MISS_ACK"}
Kills == Aborts \/ ld_state_q = "WAIT_FLUSH" \/ (ld_state_q = "SEND_TAG" /\ mmu_exception)

\* The page of the read the port works on.
ReadPage == IF dc_state_q = "READ" THEN lsu_q.addr.page ELSE address_tag_q

\* A cycle of the port: it grants when it is idle or has just answered, and
\* goes on with a read until it has answered or is told to give up.
LEMMA LoadPortStep ==
    ASSUME CoreTypes, PortOK, NEW x, Inputs(x), LSUStep(x)
    PROVE  LET gnt == DC!data_gnt(dc_in(x))
               rv == DC!data_rvalid(dc_in(x))
           IN  /\ gnt => /\ LU!data_req(ld(x)) /\ ~Kills
                         /\ dc_state_q' = "READ" /\ address_idx_q' = Front.req.off
                         /\ dc_state_q = "IDLE" \/ (dc_state_q \in Busy /\ rv)
               /\ ~gnt => address_idx_q' = address_idx_q
               /\ ~gnt /\ ~Limbo => dc_state_q' # "READ"
               /\ dc_state_q = "IDLE" \/ dc_state_q \in Killed
                    => ~rv /\ dc_state_q' \in {"IDLE", "READ"} \cup Killed
               /\ dc_state_q = "IDLE" => dc_state_q' \in {"IDLE", "READ"}
               /\ Limbo => ~gnt /\ ~rv /\ dc_state_q' = "READ"
               /\ Kills => dc_state_q' = "IDLE" \/ dc_state_q' \in Killed
               /\ Kills /\ dc_state_q = "READ" => dc_state_q' = "IDLE" /\ rv
               /\ ~Kills /\ dc_state_q \in Busy /\ ~Limbo
                    => IF rv THEN /\ dc_state_q' \in {"IDLE", "READ"}
                                  /\ rd_addr(dc_in(x)) = [page |-> ReadPage, off |-> address_idx_q]
                             ELSE dc_state_q' \in Busy /\ address_tag_q' = ReadPage
  <1> DEFINE dc == dc_in(x)
  <1>1. /\ dc.data_req = LU!data_req(ld(x)) /\ dc.idx = Front.req.off
        /\ dc.tag_valid = (Aborts \/ ld_state_q \in {"SEND_TAG", "WAIT_FLUSH"})
        /\ dc.tag = lsu_q.addr.page
        /\ dc.kill = Kills
    <2>1. LU!kill_req(mmu_exception) = Kills
      BY DEF LU!kill_req, Kills, Aborts
    <2>2. LU!tag_valid = (Aborts \/ ld_state_q \in {"SEND_TAG", "WAIT_FLUSH"})
      BY DEF LU!tag_valid, Aborts
    <2> QED BY <2>1, <2>2, CacheInput
  <1>2. DC!DCStep(dc)
    BY LsuParts
  <1>3. LU!data_req(ld(x)) => ld_state_q \in {"IDLE", "SEND_TAG", "WAIT_GNT"}
    BY DEF LU!data_req, LU!takes
  <1>4. LU!data_req(ld(x)) /\ Kills => dc_state_q = "READ"
    BY <1>3 DEF Kills, Aborts, PortOK
  <1>5. /\ Limbo => ~Kills /\ ~dc.tag_valid /\ dc_state_q = "READ"
        /\ dc_state_q = "READ" /\ ~Limbo => dc.tag_valid
        /\ Kills => dc.tag_valid
    BY <1>1 DEF Limbo, Kills, Aborts
  <1>6. dc_state_q \in DC!State
    BY DEF CoreTypes, LsuTypes, DC!TypeOK
  <1>7. rd_addr(dc) = [page |-> DC!rd_tag_o(dc), off |-> address_idx_q]
    BY DEF rd_addr
  <1>8. /\ dc.tag_valid \in BOOLEAN /\ dc.kill \in BOOLEAN /\ dc.data_req \in BOOLEAN
        /\ dc.data_req = LU!data_req(ld(x)) /\ dc.kill = Kills
        /\ dc.idx = Front.req.off /\ dc.tag = lsu_q.addr.page
    BY <1>1 DEF Kills, Aborts, LU!data_req, LU!takes
  <1> HIDE DEF dc
  <1> USE <1>2, <1>4, <1>5, <1>6, <1>8
  <1>9. dc_state_q' = DC!state_d(dc) /\ address_tag_q' = DC!rd_tag_o(dc)
        /\ address_idx_q' = IF DC!data_gnt(dc) THEN dc.idx ELSE address_idx_q
    BY DEF DC!DCStep
  <1>10. DC!compares(dc) = (dc_state_q \in {"READ", "REPLAY_READ"} /\ ~Kills /\ ~Limbo)
    BY DEF DC!compares, DC!reading
  <1>11. DC!rd_tag_o(dc) = IF dc_state_q = "READ" /\ ~Kills /\ ~Limbo
                             THEN lsu_q.addr.page ELSE address_tag_q
    BY <1>10 DEF DC!rd_tag_o
  <1>12. DC!data_gnt(dc) => /\ LU!data_req(ld(x)) /\ ~Kills /\ ~Limbo
                            /\ dc_state_q' = "READ" /\ address_idx_q' = Front.req.off
                            /\ dc_state_q = "IDLE" \/ (dc_state_q \in Busy /\ DC!data_rvalid(dc))
    BY <1>9, <1>10 DEF DC!data_gnt, DC!hits, DC!data_rvalid, DC!state_d, DC!reading, Busy
  <1>13. /\ ~DC!data_gnt(dc) => address_idx_q' = address_idx_q
         /\ ~DC!data_gnt(dc) /\ ~Limbo => dc_state_q' # "READ"
    BY <1>9, <1>10 DEF DC!state_d, DC!reading, DC!State
  <1>14. dc_state_q = "IDLE" \/ dc_state_q \in Killed
            => ~DC!data_rvalid(dc) /\ dc_state_q' \in {"IDLE", "READ"} \cup Killed
    BY <1>9, <1>10 DEF DC!state_d, DC!reading, DC!data_rvalid, DC!hits, Killed
  <1>15. dc_state_q = "IDLE" => dc_state_q' \in {"IDLE", "READ"}
    BY <1>9 DEF DC!state_d, DC!reading
  <1>16. Kills => dc_state_q' = "IDLE" \/ dc_state_q' \in Killed
    BY <1>9, <1>12 DEF DC!state_d, DC!reading, DC!State, Killed
  <1>17. Kills /\ dc_state_q = "READ" => dc_state_q' = "IDLE" /\ DC!data_rvalid(dc)
    BY <1>9 DEF DC!state_d, DC!reading, DC!data_rvalid
  <1>18. ~Kills /\ dc_state_q \in Busy /\ ~Limbo /\ DC!data_rvalid(dc)
            => /\ dc_state_q' \in {"IDLE", "READ"}
               /\ rd_addr(dc) = [page |-> ReadPage, off |-> address_idx_q]
    BY <1>7, <1>9, <1>10, <1>11
       DEF DC!state_d, DC!reading, DC!data_rvalid, DC!hits, DC!void, Busy, ReadPage
  <1>19. ~Kills /\ dc_state_q \in Busy /\ ~Limbo /\ ~DC!data_rvalid(dc)
            => dc_state_q' \in Busy /\ address_tag_q' = ReadPage
    BY <1>9, <1>10, <1>11
       DEF DC!state_d, DC!reading, DC!data_rvalid, DC!hits, Busy, ReadPage
  <1>20. Limbo => ~DC!data_rvalid(dc) /\ dc_state_q' = "READ"
    BY <1>9, <1>10 DEF DC!state_d, DC!reading, DC!data_rvalid, DC!hits
  <1> QED BY <1>12, <1>13, <1>14, <1>15, <1>16, <1>17, <1>18, <1>19, <1>20 DEF dc

\* What the load unit and its port do together in a cycle without a flush.  A
\* load that leaves the FIFO is one the cache works on, and the cache goes on
\* with it until it answers; only then may the next one follow.
LEMMA LoadStep ==
    ASSUME CoreTypes, Calm, PortOK, NEW x, Inputs(x), LSUStep(x), ~flush(x.amo_ack)
    PROVE  /\ Pops(x) => Front.valid /\ Front.op = "load" /\ dc_state_q' = "READ"
           /\ Answers(x) => Reads
           /\ Pops(x) => Reads' /\ (Reads => Answers(x))
           /\ Reads /\ ~Answers(x) => Reads' /\ dc_state_q' # "READ"
           /\ Reads' => Pops(x) \/ (Reads /\ ~Answers(x))
           /\ ld_state_q' # "WAIT_FLUSH"
  <1> DEFINE gnt == DC!data_gnt(dc_in(x))
             rv == DC!data_rvalid(dc_in(x))
             req == LU!data_req(ld(x))
  <1>1. ld_state_q \in LU!State /\ dc_state_q \in DC!State
    BY DEF CoreTypes, LsuTypes, LU!TypeOK, DC!TypeOK
  <1>2. /\ Pops(x) = (req /\ gnt /\ dtlb_hit(x) /\ ~StallNC(x))
        /\ Answers(x) = (~Kills /\ ld_state_q # "WAIT_TRANSLATION" /\ rv)
        /\ ld_state_q' # "WAIT_FLUSH"
        /\ Pops(x) => ld_state_q' = "SEND_TAG"
        /\ ld_state_q' = "SEND_TAG" => Pops(x)
        /\ req => (Front.valid /\ Front.op = "load") \/ ld_state_q = "WAIT_GNT"
    <2>1. Kills = (Aborts \/ ld_state_q = "WAIT_FLUSH")
      BY CalmFacts DEF Kills
    <2> QED BY <1>1, <2>1, LoadUnitStep DEF Aborts, LU!State
  <1>3. /\ gnt => /\ ~Kills /\ ~Limbo /\ dc_state_q' = "READ"
                  /\ dc_state_q = "IDLE" \/ (dc_state_q \in Busy /\ rv)
        /\ ~gnt /\ ~Limbo => dc_state_q' # "READ"
        /\ dc_state_q = "IDLE" \/ dc_state_q \in Killed
             => ~rv /\ dc_state_q' \in {"IDLE", "READ"} \cup Killed
        /\ Limbo => ~rv
        /\ Kills => dc_state_q' = "IDLE" \/ dc_state_q' \in Killed
        /\ ~Kills /\ dc_state_q \in Busy /\ ~Limbo
             => IF rv THEN dc_state_q' \in {"IDLE", "READ"} ELSE dc_state_q' \in Busy
    BY LoadPortStep
  <1>4. dc_state_q \in Busy \/ dc_state_q = "IDLE" \/ dc_state_q \in Killed
    BY <1>1 DEF DC!State, Busy, Killed
  <1>5. Reads = (dc_state_q \in Busy /\ ~Kills /\ ~Limbo)
    <2>1. dc_state_q = "READ" /\ ~Limbo => Kills \/ ld_state_q = "SEND_TAG"
      BY DEF Limbo, Kills
    <2>2. Aborts => dc_state_q = "READ"
      BY DEF PortOK
    <2>3. ld_state_q = "SEND_TAG" => ~Kills /\ ~Limbo
      BY CalmFacts DEF Kills, Aborts, Limbo
    <2>4. dc_state_q \in Busy <=>
            dc_state_q = "READ" \/ dc_state_q \in {"REPLAY_REQ", "REPLAY_READ", "MISS_REQ", "MISS_WAIT"}
      BY DEF Busy
    <2>5. Limbo => dc_state_q = "READ"
      BY DEF Limbo
    <2>6. ld_state_q = "SEND_TAG" => dc_state_q = "READ"
      BY DEF PortOK
    <2>7. Kills => Aborts \/ ld_state_q = "WAIT_FLUSH"
      BY CalmFacts DEF Kills
    <2> QED BY <2>1, <2>2, <2>3, <2>4, <2>5, <2>6, <2>7 DEF Reads, Kills
  <1>6. Reads' <=> \/ dc_state_q' = "READ" /\ ld_state_q' = "SEND_TAG"
                   \/ dc_state_q' \in Busy /\ dc_state_q' # "READ"
    BY <1>2 DEF Reads, Busy
  <1>7. Reads => ld_state_q # "WAIT_TRANSLATION"
    BY DEF PortOK, Reads
  <1>8. ld_state_q = "WAIT_GNT" => Front.valid /\ Front.op = "load"
    BY DEF PortOK
  <1>9. Answers(x) => Reads
    BY <1>2, <1>3, <1>4, <1>5
  <1>10. Pops(x) => Reads' /\ (Reads => Answers(x))
    <2> SUFFICES ASSUME Pops(x) PROVE Reads' /\ (Reads => Answers(x))
      OBVIOUS
    <2>1. gnt /\ ld_state_q' = "SEND_TAG"
      BY <1>2
    <2>2. Reads'
      BY <1>3, <1>6, <2>1
    <2>3. ASSUME Reads PROVE Answers(x)
      <3>1. dc_state_q \in Busy /\ ~Kills /\ ld_state_q # "WAIT_TRANSLATION"
        BY <1>5, <1>7, <2>3
      <3>2. dc_state_q # "IDLE"
        BY <3>1 DEF Busy
      <3> QED BY <1>2, <1>3, <2>1, <3>1, <3>2
    <2> QED BY <2>2, <2>3
  <1>11. Reads /\ ~Answers(x) => Reads' /\ dc_state_q' # "READ"
    <2> SUFFICES ASSUME Reads, ~Answers(x) PROVE Reads' /\ dc_state_q' # "READ"
      OBVIOUS
    <2>1. dc_state_q \in Busy /\ ~Kills /\ ~Limbo /\ ~rv
      BY <1>2, <1>5, <1>7
    <2>2. dc_state_q' \in Busy
      BY <1>3, <2>1
    <2>3. dc_state_q # "IDLE"
      BY <2>1 DEF Busy
    <2>4. dc_state_q' # "READ"
      BY <1>3, <2>1, <2>3
    <2> QED BY <1>6, <2>2, <2>4
  <1>12. Reads' => Pops(x) \/ (Reads /\ ~Answers(x))
    <2> SUFFICES ASSUME Reads', ~Pops(x) PROVE Reads /\ ~Answers(x)
      OBVIOUS
    <2>1. dc_state_q' \in Busy /\ dc_state_q' # "READ"
      BY <1>2, <1>6
    <2>2. dc_state_q' # "IDLE" /\ dc_state_q' \notin Killed
      BY <2>1 DEF Busy, Killed
    <2>3. ~Kills /\ ~Limbo
      BY <1>3, <2>1, <2>2, LoadPortStep
    <2>4. dc_state_q \in Busy
      BY <1>3, <1>4, <2>1, <2>2
    <2>5. ~rv
      BY <1>3, <2>1, <2>2, <2>3, <2>4
    <2> QED BY <1>2, <1>5, <2>3, <2>4, <2>5
  <1>13. Pops(x) => dc_state_q' = "READ"
    BY <1>2, <1>3
  <1> QED BY <1>2, <1>8, <1>9, <1>10, <1>11, <1>12, <1>13

-----------------------------------------------------------------------------
(* The store unit and the FIFO *)

PopsStore(x) == pop_st_o(st_in(x))

\* A cycle of the store unit; it takes an exception unless it is idle.
Raised == mmu_exception /\ state_q # "IDLE"

LEMMA StoreUnitStep ==
    ASSUME CoreTypes, NEW x, Inputs(x), LSUStep(x)
    PROVE  LET start == starts(st_in(x)) /\ st_in(x).hit /\ st_ready(st_in(x))
           IN  /\ PopsStore(x) = (Raised \/ start)
               /\ starts(st_in(x)) => Front.valid /\ is_store(Front)
               /\ st_done(st_in(x)) = (Raised \/ Stores)
               /\ store_buffer_valid(st_in(x))
                    = (Stores /\ ~flush(x.amo_ack) /\ ~mmu_exception /\ ~st_q.amo)
               /\ amo_buffer_valid(st_in(x))
                    = (Stores /\ ~flush(x.amo_ack) /\ ~mmu_exception /\ st_q.amo)
               /\ Stores' = (start /\ ~Raised /\ ~flush(x.amo_ack))
               /\ flush(x.amo_ack) \/ Raised => state_q' = "IDLE"
               /\ state_q' # "IDLE" => starts(st_in(x)) \/ state_q \in {"WAIT_TRANSLATION", "WAIT_STORE_READY"}
               /\ st_q' = [req |-> Front.req, amo |-> Front.op = "amo"]
               /\ st_trans_id_q' = Front.trans_id
  <1> DEFINE start == starts(st_in(x)) /\ st_in(x).hit /\ st_ready(st_in(x))
  <1>1. /\ st_in(x).valid = (Front.valid /\ is_store(Front))
        /\ st_in(x).ctrl = [req |-> Front.req, amo |-> Front.op = "amo"]
        /\ st_in(x).ex = mmu_exception /\ st_in(x).flush = flush(x.amo_ack)
    BY StoreUnitInput
  <1>2. exception(st_in(x)) = Raised
    BY <1>1 DEF exception, Raised
  <1>3. PopsStore(x) = (Raised \/ start)
    BY <1>2 DEF PopsStore, pop_st_o
  <1>4. SUStep(st_in(x)) /\ st_trans_id_q' = Front.trans_id
    BY LsuParts
  <1>5. st_done(st_in(x)) = (Raised \/ Stores)
    BY <1>2 DEF st_done, Stores
  <1>6. Stores => Raised = mmu_exception
    BY DEF Stores, Raised, mmu_exception
  <1>7. /\ store_buffer_valid(st_in(x))
             = (Stores /\ ~flush(x.amo_ack) /\ ~mmu_exception /\ ~st_q.amo)
        /\ amo_buffer_valid(st_in(x))
             = (Stores /\ ~flush(x.amo_ack) /\ ~mmu_exception /\ st_q.amo)
    BY <1>1, <1>2, <1>6
       DEF store_buffer_valid, amo_buffer_valid, st_valid, st_valid_without_flush, Stores
  <1>8. /\ Stores' = (start /\ ~Raised /\ ~flush(x.amo_ack))
        /\ flush(x.amo_ack) \/ Raised => state_q' = "IDLE"
        /\ state_q' # "IDLE" => starts(st_in(x)) \/ state_q \in {"WAIT_TRANSLATION", "WAIT_STORE_READY"}
    BY <1>1, <1>2, <1>4 DEF SUStep, store_control, Stores
  <1>9. starts(st_in(x)) => Front.valid /\ is_store(Front)
    BY <1>1 DEF starts
  <1>10. st_q' = [req |-> Front.req, amo |-> Front.op = "amo"]
    BY <1>1, <1>4 DEF SUStep
  <1> QED BY <1>3, <1>4, <1>5, <1>7, <1>8, <1>9, <1>10

\* A cycle of the store unit without an exception.
LEMMA StoreStep ==
    ASSUME CoreTypes, Calm, NEW x, Inputs(x), LSUStep(x)
    PROVE  /\ PopsStore(x) => Front.valid /\ Front.op \in {"store", "amo"}
           /\ st_done(st_in(x)) = Stores
           /\ store_buffer_valid(st_in(x)) = (Stores /\ ~flush(x.amo_ack) /\ ~st_q.amo)
           /\ amo_buffer_valid(st_in(x)) = (Stores /\ ~flush(x.amo_ack) /\ st_q.amo)
           /\ Stores' = (PopsStore(x) /\ ~flush(x.amo_ack))
           /\ st_q' = [req |-> Front.req, amo |-> Front.op = "amo"]
           /\ st_trans_id_q' = Front.trans_id
  <1>1. Raised = FALSE /\ (Stores => mmu_exception = FALSE)
    BY CalmFacts DEF Raised, Stores
  <1>2. starts(st_in(x)) => Front.valid /\ Front.op \in {"store", "amo"}
    BY StoreUnitStep DEF is_store
  <1>3. mmu_exception \in BOOLEAN
    BY DEF mmu_exception
  <1>4. /\ PopsStore(x) = (starts(st_in(x)) /\ st_in(x).hit /\ st_ready(st_in(x)))
        /\ st_done(st_in(x)) = Stores
        /\ Stores' = (starts(st_in(x)) /\ st_in(x).hit /\ st_ready(st_in(x)) /\ ~flush(x.amo_ack))
    BY <1>1, StoreUnitStep DEF Stores, starts, st_ready
  <1> QED BY <1>1, <1>2, <1>3, <1>4, StoreUnitStep

\* A cycle of the FIFO without a flush, in which at most the front request is
\* taken.  A new request arrives only while it is empty.
LEMMA FifoStep ==
    ASSUME CoreTypes, FifoOK, NEW pl \in BOOLEAN, NEW ps \in BOOLEAN, ~(pl /\ ps),
           pl \/ ps => Front.valid,
           LB!LBStep(issue_q, pl, ps, FALSE),
           issue_q'.valid => status_cnt_q = 0
    PROVE  /\ FifoOK'
           /\ ~(pl \/ ps) /\ Front.valid
                => /\ Front' = Front
                   /\ HasSecond => HasSecond' /\ Second' = Second
                   /\ HasSecond' => HasSecond \/ (issue_q'.valid /\ Second' = issue_q')
           /\ ~(pl \/ ps) /\ ~Front.valid => ~HasSecond' /\ Front' = issue_q'
           /\ pl \/ ps => /\ ~HasSecond'
                          /\ HasSecond => Front' = Second
                          /\ ~HasSecond => Front' = issue_q'
           /\ issue_q'.valid => \/ Front' = issue_q'
                                \/ HasSecond' /\ Second' = issue_q'
  <1>1. /\ mem_q \in [0..1 -> LsuRequest] /\ read_pointer_q \in 0..1
        /\ status_cnt_q \in {0, 1, 2}
        /\ write_pointer_q = IF status_cnt_q = 1 THEN 1 - read_pointer_q ELSE read_pointer_q
        /\ issue_q.valid \in BOOLEAN
    BY DEF CoreTypes, LsuTypes, SbTypes, FifoOK, LsuRequest
  <1> DEFINE pops == IF pl \/ ps THEN 1 ELSE 0
             push == IF issue_q.valid THEN 1 ELSE 0
             written == IF issue_q.valid THEN [mem_q EXCEPT ![write_pointer_q] = issue_q] ELSE mem_q
  <1>2. /\ mem_q' = IF pops = 1 THEN [written EXCEPT ![read_pointer_q].valid = FALSE] ELSE written
        /\ read_pointer_q' = (read_pointer_q + pops) % 2
        /\ write_pointer_q' = (write_pointer_q + push) % 2
        /\ status_cnt_q' = (status_cnt_q + push - pops) % 4
    BY DEF LB!LBStep
  <1>3. \A k \in 0..1 : k # read_pointer_q \/ ~(pl \/ ps) => mem_q'[k] = written[k]
    BY <1>1, <1>2
  <1>4. \A k \in 0..1 : written[k] = IF issue_q.valid /\ k = write_pointer_q THEN issue_q ELSE mem_q[k]
    BY <1>1
  <1>8. /\ \A k \in 0..1 : mem_q'[k].valid = IF (pl \/ ps) /\ k = read_pointer_q THEN FALSE
                                            ELSE IF issue_q.valid /\ k = write_pointer_q THEN TRUE
                                            ELSE mem_q[k].valid
        /\ mem_q[read_pointer_q].valid <=> status_cnt_q > 0
        /\ mem_q[1 - read_pointer_q].valid <=> status_cnt_q = 2
    <2>1. \A k \in 0..1 : (pl \/ ps) /\ k = read_pointer_q => mem_q'[k].valid = FALSE
      <3>1. written \in [0..1 -> LsuRequest]
        BY <1>1 DEF CoreTypes, SbTypes
      <3>2. pl \/ ps => mem_q'[read_pointer_q] = [written[read_pointer_q] EXCEPT !.valid = FALSE]
        BY <1>1, <1>2, <3>1
      <3> QED BY <1>1, <3>1, <3>2 DEF LsuRequest
    <2> QED BY <1>1, <1>3, <1>4, <2>1 DEF FifoOK
  <1>9. /\ pl \/ ps => status_cnt_q > 0 \/ issue_q.valid
        /\ status_cnt_q > 0 => ~issue_q'.valid
        /\ status_cnt_q = 2 => ~issue_q.valid
    BY DEF FifoOK, Front
  <1>10. FifoOK'
    <2>1. /\ status_cnt_q' \in 0..2 /\ read_pointer_q' \in 0..1
          /\ write_pointer_q' = IF status_cnt_q' = 1 THEN 1 - read_pointer_q' ELSE read_pointer_q'
          /\ status_cnt_q' = 2 => status_cnt_q > 0
      BY <1>1, <1>2, <1>9
    <2>2. /\ mem_q'[read_pointer_q'].valid <=> status_cnt_q' > 0
          /\ mem_q'[1 - read_pointer_q'].valid <=> status_cnt_q' = 2
      <3>1. /\ pl \/ ps => /\ read_pointer_q' = 1 - read_pointer_q
                           /\ status_cnt_q' = status_cnt_q + push - 1
            /\ ~(pl \/ ps) => /\ read_pointer_q' = read_pointer_q
                              /\ status_cnt_q' = status_cnt_q + push
        <4> HIDE DEF written
        <4>1. push \in 0..1 /\ (pl \/ ps => status_cnt_q + push >= 1) /\ (status_cnt_q = 2 => push = 0)
          BY <1>1, <1>9
        <4>2. CASE pl \/ ps
          <5>1. pops = 1
            BY <4>2
          <5> HIDE DEF pops, push
          <5> QED BY <1>1, <1>2, <4>1, <4>2, <5>1
        <4>3. CASE ~(pl \/ ps)
          <5>1. pops = 0
            BY <4>3
          <5> HIDE DEF pops, push
          <5> QED BY <1>1, <1>2, <4>1, <4>3, <5>1
        <4> QED BY <4>2, <4>3
      <3>2. /\ mem_q'[read_pointer_q].valid =
                 (IF pl \/ ps THEN FALSE
                  ELSE IF issue_q.valid /\ status_cnt_q # 1 THEN TRUE ELSE status_cnt_q > 0)
            /\ mem_q'[1 - read_pointer_q].valid =
                 (IF issue_q.valid /\ status_cnt_q = 1 THEN TRUE ELSE status_cnt_q = 2)
        <4>1. read_pointer_q # 1 - read_pointer_q /\ 1 - read_pointer_q \in 0..1
          BY <1>1
        <4>2. mem_q[read_pointer_q].valid \in BOOLEAN /\ mem_q[1 - read_pointer_q].valid \in BOOLEAN
          BY <1>1, <4>1 DEF LsuRequest
        <4> HIDE DEF written
        <4>3. /\ mem_q[read_pointer_q].valid = (status_cnt_q > 0)
              /\ mem_q[1 - read_pointer_q].valid = (status_cnt_q = 2)
              /\ write_pointer_q = read_pointer_q <=> status_cnt_q # 1
              /\ write_pointer_q = 1 - read_pointer_q <=> status_cnt_q = 1
          BY <1>1, <1>8, <4>1, <4>2
        <4>4. mem_q'[read_pointer_q].valid =
                (IF pl \/ ps THEN FALSE
                 ELSE IF issue_q.valid /\ status_cnt_q # 1 THEN TRUE ELSE status_cnt_q > 0)
          BY <1>1, <1>8, <4>3
        <4>5. mem_q'[1 - read_pointer_q].valid =
                (IF issue_q.valid /\ status_cnt_q = 1 THEN TRUE ELSE status_cnt_q = 2)
          BY <1>1, <1>8, <4>1, <4>3
        <4> QED BY <4>4, <4>5
      <3> HIDE DEF written
      <3>3. CASE pl \/ ps
        <4>1. 1 - read_pointer_q' = read_pointer_q /\ read_pointer_q' = 1 - read_pointer_q
          BY <1>1, <3>1, <3>3
        <4>2. /\ status_cnt_q' > 0 <=> (issue_q.valid /\ status_cnt_q = 1) \/ status_cnt_q = 2
              /\ status_cnt_q' # 2
          BY <1>1, <1>9, <3>1, <3>3
        <4> QED BY <3>2, <3>3, <4>1, <4>2
      <3>4. CASE ~(pl \/ ps)
        <4>1. /\ status_cnt_q' > 0 <=> (issue_q.valid /\ status_cnt_q # 1) \/ status_cnt_q > 0
              /\ status_cnt_q' = 2 <=> (issue_q.valid /\ status_cnt_q = 1) \/ status_cnt_q = 2
              /\ read_pointer_q' = read_pointer_q
          BY <1>1, <1>9, <3>1, <3>4
        <4> QED BY <3>2, <3>4, <4>1
      <3> QED BY <3>3, <3>4
    <2> QED BY <1>9, <2>1, <2>2 DEF FifoOK
  <1>5. CASE status_cnt_q = 0
    <2>1. /\ Front = issue_q /\ ~HasSecond /\ write_pointer_q = read_pointer_q
      BY <1>1, <1>5 DEF Front, HasSecond
    <2>2. CASE pl \/ ps
      <3>1. issue_q.valid /\ pops = 1 /\ push = 1
        BY <2>1, <2>2
      <3>2. status_cnt_q' = 0 /\ write_pointer_q' = read_pointer_q' /\ read_pointer_q' \in 0..1
        BY <1>1, <1>2, <1>5, <2>1, <3>1
      <3>3. Front' = issue_q' /\ ~HasSecond'
        BY <3>2 DEF Front, HasSecond
      <3> QED BY <1>10, <2>1, <2>2, <3>3
    <2>3. CASE ~(pl \/ ps) /\ issue_q.valid
      <3>1. pops = 0 /\ push = 1
        BY <2>3
      <3>2. /\ status_cnt_q' = 1 /\ write_pointer_q' = 1 - read_pointer_q
            /\ read_pointer_q' = read_pointer_q
        BY <1>1, <1>2, <1>5, <2>1, <3>1
      <3>3. mem_q'[read_pointer_q] = issue_q
        BY <1>1, <1>3, <1>4, <2>1, <2>3
      <3> QED BY <1>1, <1>10, <2>1, <2>3, <3>2, <3>3 DEF Front, HasSecond, Second
    <2>4. CASE ~(pl \/ ps) /\ ~issue_q.valid
      <3>1. pops = 0 /\ push = 0
        BY <2>4
      <3>2. status_cnt_q' = 0 /\ write_pointer_q' = read_pointer_q' /\ read_pointer_q' \in 0..1
        BY <1>1, <1>2, <1>5, <2>1, <3>1
      <3>3. Front' = issue_q' /\ ~HasSecond'
        BY <3>2 DEF Front, HasSecond
      <3> QED BY <1>10, <2>1, <2>4, <3>3
    <2> QED BY <2>2, <2>3, <2>4
  <1>6. CASE status_cnt_q = 1
    <2>1. /\ Front = mem_q[read_pointer_q] /\ Front.valid /\ ~issue_q'.valid
          /\ HasSecond = issue_q.valid /\ Second = issue_q
          /\ write_pointer_q = 1 - read_pointer_q
      BY <1>1, <1>6 DEF Front, HasSecond, Second, FifoOK
    <2>2. CASE (pl \/ ps) /\ issue_q.valid
      <3>1. pops = 1 /\ push = 1
        BY <2>2
      <3>2. /\ status_cnt_q' = 1 /\ write_pointer_q' = read_pointer_q
            /\ read_pointer_q' = 1 - read_pointer_q
        BY <1>1, <1>2, <1>6, <2>1, <3>1
      <3>3. mem_q'[1 - read_pointer_q] = issue_q
        BY <1>1, <1>3, <1>4, <2>1, <2>2
      <3> QED BY <1>1, <1>10, <2>1, <2>2, <3>2, <3>3 DEF Front, HasSecond, Second
    <2>3. CASE (pl \/ ps) /\ ~issue_q.valid
      <3>1. pops = 1 /\ push = 0
        BY <2>3
      <3>2. /\ status_cnt_q' = 0 /\ write_pointer_q' = 1 - read_pointer_q
            /\ read_pointer_q' = 1 - read_pointer_q
        BY <1>1, <1>2, <1>6, <2>1, <3>1
      <3> QED BY <1>1, <1>10, <2>1, <2>3, <3>2 DEF Front, HasSecond, Second
    <2>4. CASE ~(pl \/ ps) /\ issue_q.valid
      <3>1. pops = 0 /\ push = 1
        BY <2>4
      <3>2. /\ status_cnt_q' = 2 /\ write_pointer_q' = read_pointer_q
            /\ read_pointer_q' = read_pointer_q
        BY <1>1, <1>2, <1>6, <2>1, <3>1
      <3>3. mem_q'[1 - read_pointer_q] = issue_q /\ mem_q'[read_pointer_q] = mem_q[read_pointer_q]
        BY <1>1, <1>3, <1>4, <2>1, <2>4
      <3> QED BY <1>1, <1>8, <1>10, <2>1, <2>4, <3>2, <3>3 DEF Front, HasSecond, Second
    <2>5. CASE ~(pl \/ ps) /\ ~issue_q.valid
      <3>1. pops = 0 /\ push = 0
        BY <2>5
      <3>2. /\ status_cnt_q' = 1 /\ write_pointer_q' = 1 - read_pointer_q
            /\ read_pointer_q' = read_pointer_q
        BY <1>1, <1>2, <1>6, <2>1, <3>1
      <3>3. mem_q'[read_pointer_q] = mem_q[read_pointer_q]
        BY <1>1, <1>3, <1>4, <2>1, <2>5
      <3> QED BY <1>1, <1>8, <1>10, <2>1, <2>5, <3>2, <3>3 DEF Front, HasSecond, Second
    <2> QED BY <2>2, <2>3, <2>4, <2>5
  <1>7. CASE status_cnt_q = 2
    <2>1. /\ Front = mem_q[read_pointer_q] /\ Front.valid /\ ~issue_q'.valid
          /\ HasSecond /\ Second = mem_q[1 - read_pointer_q] /\ Second.valid
          /\ ~issue_q.valid /\ write_pointer_q = read_pointer_q
      BY <1>1, <1>7 DEF Front, HasSecond, Second, FifoOK
    <2>2. CASE pl \/ ps
      <3>1. pops = 1 /\ push = 0
        BY <2>1, <2>2
      <3>2. /\ status_cnt_q' = 1 /\ write_pointer_q' = read_pointer_q
            /\ read_pointer_q' = 1 - read_pointer_q
        BY <1>1, <1>2, <1>7, <2>1, <3>1
      <3>3. mem_q'[1 - read_pointer_q] = mem_q[1 - read_pointer_q]
        BY <1>1, <1>3, <1>4, <2>1, <2>2
      <3> QED BY <1>1, <1>8, <1>10, <2>1, <2>2, <3>2, <3>3 DEF Front, HasSecond, Second
    <2>3. CASE ~(pl \/ ps)
      <3>1. pops = 0 /\ push = 0
        BY <2>1, <2>3
      <3>2. /\ status_cnt_q' = 2 /\ write_pointer_q' = read_pointer_q
            /\ read_pointer_q' = read_pointer_q
        BY <1>1, <1>2, <1>7, <2>1, <3>1
      <3>3. /\ mem_q'[1 - read_pointer_q] = mem_q[1 - read_pointer_q]
            /\ mem_q'[read_pointer_q] = mem_q[read_pointer_q]
        BY <1>1, <1>3, <1>4, <2>1, <2>3
      <3> QED BY <1>1, <1>8, <1>10, <2>1, <2>3, <3>2, <3>3 DEF Front, HasSecond, Second
    <2> QED BY <2>2, <2>3
  <1> QED BY <1>1, <1>5, <1>6, <1>7, <1>10

-----------------------------------------------------------------------------
(* The scoreboard *)

\* The entries that retire in a cycle, and how many.
Retired(i, x) == \/ commit_ack0(x.amo_ack) /\ i = commit_pointer_q
                 \/ commit_ack1(x.amo_ack) /\ i = Next1(commit_pointer_q)
NRetired(x) == IF commit_ack1(x.amo_ack) THEN 2 ELSE IF commit_ack0(x.amo_ack) THEN 1 ELSE 0

\* The entries that get a result in a cycle.
LoadFills(i) == Returns /\ load_pipe_q.trans_id = i
OtherFills(i) == \/ Stores /\ st_trans_id_q = i
                 \/ issue_q.op \in FlushOp /\ issue_q.trans_id = i

LEMMA PosShift ==
    ASSUME NEW n \in Nat, n >= 2, NEW i \in 0 .. n - 1, NEW c \in 0 .. n - 1, NEW k \in 0 .. 2
    PROVE  Wrap(i - Wrap(c + k, n), n)
             = IF Wrap(i - c, n) >= k THEN Wrap(i - c, n) - k ELSE Wrap(i - c, n) - k + n
  BY DEF Wrap

\* The position of an entry tells it from any other.
LEMMA PosFacts ==
    ASSUME CoreTypes, NEW i \in TransId
    PROVE  /\ Pos(i) \in 0 .. NR_SB_ENTRIES - 1
           /\ \A j \in TransId : Pos(j) = Pos(i) => j = i
           /\ Pos(i) = 0 <=> i = commit_pointer_q
           /\ Pos(i) = 1 <=> i = Next1(commit_pointer_q)
           /\ Next1(commit_pointer_q) \in TransId
  <1>1. Next1(commit_pointer_q) = Wrap(commit_pointer_q + 1, NR_SB_ENTRIES)
    BY ModWrap, LSUAssumption DEF Next1, CoreTypes, SbTypes, TransId
  <1> QED BY <1>1, LSUAssumption DEF Pos, Wrap, CoreTypes, SbTypes, TransId

\* What has a result is issued, and what retires has one.
LEMMA RetiredFacts ==
    ASSUME CoreTypes, ScoreboardRing, NEW x
    PROVE  /\ \A i \in TransId : Retired(i, x) => mem_sb[i].issued /\ mem_sb[i].valid
           /\ \A i \in TransId : Retired(i, x) <=> Pos(i) < NRetired(x)
           /\ NRetired(x) \in 0 .. 2 /\ NRetired(x) <= issue_cnt_q
  <1>1. \A i \in TransId : mem_sb[i].valid => mem_sb[i].issued
    BY DEF ScoreboardRing, EmptyEntry
  <1>2. commit_ack0(x.amo_ack) => c0.valid
    BY DEF commit_ack0, retires0
  <1>3. commit_ack1(x.amo_ack) => commit_ack0(x.amo_ack) /\ c1.valid
    BY DEF commit_ack1
  <1>4. commit_pointer_q \in TransId /\ Next1(commit_pointer_q) \in TransId
    BY PosFacts, TransIdType DEF CoreTypes, SbTypes
  <1>5. \A i \in TransId : Retired(i, x) => mem_sb[i].issued /\ mem_sb[i].valid
    BY <1>1, <1>2, <1>3, <1>4 DEF Retired, c0, c1
  <1>6. \A i \in TransId : Retired(i, x) <=> Pos(i) < NRetired(x)
    <2> TAKE i \in TransId
    <2>1. /\ Pos(i) \in 0 .. NR_SB_ENTRIES - 1
          /\ Pos(i) = 0 <=> i = commit_pointer_q
          /\ Pos(i) = 1 <=> i = Next1(commit_pointer_q)
      BY PosFacts
    <2>2. Pos(i) \in Nat
      BY <2>1, LSUAssumption
    <2> QED BY <1>3, <2>1, <2>2 DEF Retired, NRetired
  <1>7. NRetired(x) \in 0 .. 2 /\ NRetired(x) <= issue_cnt_q
    <2>1. issue_cnt_q \in Nat
      BY LSUAssumption DEF CoreTypes, SbTypes, TransId
    <2>2. commit_ack0(x.amo_ack) => Pos(commit_pointer_q) = 0 /\ Pos(commit_pointer_q) < issue_cnt_q
      BY <1>4, <1>5, PosFacts DEF Retired, ScoreboardRing
    <2>3. commit_ack1(x.amo_ack) => /\ Pos(Next1(commit_pointer_q)) = 1
                                    /\ Pos(Next1(commit_pointer_q)) < issue_cnt_q
      BY <1>4, <1>5, PosFacts DEF Retired, ScoreboardRing
    <2> QED BY <2>1, <2>2, <2>3 DEF NRetired
  <1> QED BY <1>5, <1>6, <1>7

\* Pointers and positions after a cycle without a flush.
LEMMA PointerStep ==
    ASSUME CoreTypes, ScoreboardRing, NEW ins \in Instr \cup {NoInstr}, NEW x, Inputs(x),
           Steps(ins, x), ~flush(x.amo_ack)
    PROVE  /\ issue_cnt_q' = issue_cnt_q - NRetired(x) + (IF ins # NoInstr THEN 1 ELSE 0)
           /\ commit_pointer_q' = Wrap(commit_pointer_q + NRetired(x), NR_SB_ENTRIES)
           /\ issue_pointer_q' = IF ins # NoInstr THEN Wrap(issue_pointer_q + 1, NR_SB_ENTRIES)
                                                  ELSE issue_pointer_q
           /\ ins # NoInstr => issue_cnt_q < NR_SB_ENTRIES - 1
           /\ Pos(issue_pointer_q) = issue_cnt_q
           /\ \A i \in TransId : Pos(i) >= NRetired(x) => Pos(i)' = Pos(i) - NRetired(x)
           /\ \A i \in TransId : Pos(i) < NRetired(x)
                                   => Pos(i)' = Pos(i) - NRetired(x) + NR_SB_ENTRIES
  <1>1. /\ NRetired(x) \in 0 .. 2 /\ NRetired(x) <= issue_cnt_q
        /\ issue_cnt_q \in 0 .. NR_SB_ENTRIES - 1 /\ commit_pointer_q \in 0 .. NR_SB_ENTRIES - 1
        /\ issue_pointer_q \in 0 .. NR_SB_ENTRIES - 1
        /\ NR_SB_ENTRIES \in Nat /\ NR_SB_ENTRIES >= 2
    BY RetiredFacts, LSUAssumption DEF CoreTypes, SbTypes, TransId
  <1>2. ins # NoInstr => issue_cnt_q < NR_SB_ENTRIES - 1
    BY <1>1 DEF Steps, can_issue
  <1> DEFINE e == IF ins # NoInstr THEN 1 ELSE 0
  <1>3. (IF commit_ack0(x.amo_ack) THEN 1 ELSE 0) + (IF commit_ack1(x.amo_ack) THEN 1 ELSE 0)
          = NRetired(x)
    BY DEF NRetired, commit_ack1
  <1>4. /\ issue_cnt_q' = (issue_cnt_q - NRetired(x) + e) % NR_SB_ENTRIES
        /\ commit_pointer_q' = (commit_pointer_q + NRetired(x)) % NR_SB_ENTRIES
        /\ issue_pointer_q' = IF ins # NoInstr THEN Next1(issue_pointer_q) ELSE issue_pointer_q
    <2>1. x.flush = FALSE
      BY DEF Inputs, flush
    <2> QED BY <1>3, <2>1 DEF Steps, scoreboard
  <1>5. issue_cnt_q' = issue_cnt_q - NRetired(x) + e
    <2>1. issue_cnt_q - NRetired(x) + e \in 0 .. NR_SB_ENTRIES - 1
      BY <1>1, <1>2
    <2>2. (issue_cnt_q - NRetired(x) + e) % NR_SB_ENTRIES
            = Wrap(issue_cnt_q - NRetired(x) + e, NR_SB_ENTRIES)
      BY <1>1, <2>1, ModWrap
    <2> QED BY <1>1, <1>4, <2>1, <2>2 DEF Wrap
  <1>6. commit_pointer_q' = Wrap(commit_pointer_q + NRetired(x), NR_SB_ENTRIES)
    BY <1>1, <1>4, ModWrap
  <1>7. issue_pointer_q' = IF ins # NoInstr THEN Wrap(issue_pointer_q + 1, NR_SB_ENTRIES)
                                            ELSE issue_pointer_q
    BY <1>1, <1>4, ModWrap DEF Next1
  <1>8. Pos(issue_pointer_q) = issue_cnt_q
    BY <1>1 DEF Pos, Wrap, ScoreboardRing
  <1>9. ASSUME NEW i \in TransId
        PROVE  /\ Pos(i) >= NRetired(x) => Pos(i)' = Pos(i) - NRetired(x)
               /\ Pos(i) < NRetired(x) => Pos(i)' = Pos(i) - NRetired(x) + NR_SB_ENTRIES
    <2>1. Pos(i)' = Wrap(i - Wrap(commit_pointer_q + NRetired(x), NR_SB_ENTRIES), NR_SB_ENTRIES)
      BY <1>6 DEF Pos
    <2>2. i \in 0 .. NR_SB_ENTRIES - 1
      BY DEF TransId
    <2>3. Pos(i)' = IF Pos(i) >= NRetired(x) THEN Pos(i) - NRetired(x)
                                             ELSE Pos(i) - NRetired(x) + NR_SB_ENTRIES
      BY <1>1, <2>1, <2>2, PosShift DEF Pos
    <2>4. Pos(i) \in Int /\ NRetired(x) \in Int
      BY <1>1, PosFacts
    <2> QED BY <2>3, <2>4
  <1> QED BY <1>2, <1>5, <1>6, <1>7, <1>8, <1>9

\* What no unit works on while it is not issued.
LEMMA WorkIsIssued ==
    ASSUME CoreTypes, ScoreboardRing, OwnWork, LoadUnitOK
    PROVE  /\ load_pipe_q.valid /\ mem_sb[load_pipe_q.trans_id].issued <=> Returns
           /\ Stores => mem_sb[st_trans_id_q].issued
           /\ issue_q.op \in FlushOp => mem_sb[issue_q.trans_id].issued
           /\ ld_state_q = "WAIT_FLUSH" => ~Front.valid /\ ~HasSecond /\ ~Stores
  <1>1. \A i \in TransId : Pos(i) \in Nat
    BY PosFacts, LSUAssumption
  <1>2. ld_state_q = "WAIT_FLUSH" => \A i \in TransId : ~mem_sb[i].issued
    BY <1>1 DEF LoadUnitOK, ScoreboardRing
  <1>3. /\ load_pipe_q.trans_id \in TransId /\ st_trans_id_q \in TransId
        /\ issue_q.trans_id \in TransId /\ mem_q \in [0..1 -> LsuRequest] /\ read_pointer_q \in 0..1
        /\ load_pipe_q.valid \in BOOLEAN
    BY DEF CoreTypes, LsuTypes, SbTypes, LsuRequest
  <1>4. Front.trans_id \in TransId /\ Second.trans_id \in TransId
    <2>1. 1 - read_pointer_q \in 0..1
      BY <1>3
    <2> QED BY <1>3, <2>1 DEF Front, Second, LsuRequest
  <1>5. load_pipe_q.valid /\ mem_sb[load_pipe_q.trans_id].issued <=> Returns
    BY <1>2, <1>3 DEF Returns, OwnWork, Waits
  <1>6. /\ Stores => mem_sb[st_trans_id_q].issued
        /\ issue_q.op \in FlushOp => mem_sb[issue_q.trans_id].issued
    BY DEF OwnWork, Waits
  <1>7. ld_state_q = "WAIT_FLUSH" => ~Front.valid /\ ~HasSecond /\ ~Stores
    BY <1>2, <1>3, <1>4 DEF OwnWork, Waits, WaitsFor
  <1> QED BY <1>5, <1>6, <1>7

\* What a cycle without a flush writes to an entry, if that is issued.
LoadWrites(i) == load_pipe_q.valid /\ load_pipe_q.trans_id = i
StoreWrites(i) == (Raised \/ Stores) /\ st_trans_id_q = i
FlushWrites(i) == issue_q.op \in FlushOp /\ issue_q.trans_id = i
Writes(i) == mem_sb[i].issued /\ (LoadWrites(i) \/ StoreWrites(i) \/ FlushWrites(i))

\* The entries after a cycle without a flush, with or without an exception.
LEMMA WriteStep ==
    ASSUME CoreTypes, ScoreboardRing,
           NEW ins \in Instr \cup {NoInstr}, NEW x, Inputs(x), Steps(ins, x), ~flush(x.amo_ack)
    PROVE  /\ ins # NoInstr => /\ mem_sb'[issue_pointer_q] = NewEntry(ins)
                               /\ ~mem_sb[issue_pointer_q].issued
           /\ \A i \in TransId : Retired(i, x) => mem_sb'[i] = EmptyEntry
           /\ \A i \in TransId : ~Retired(i, x) /\ (ins = NoInstr \/ i # issue_pointer_q)
                => mem_sb'[i] =
                     [issued |-> mem_sb[i].issued,
                      valid |-> mem_sb[i].valid \/ Writes(i),
                      ex |-> \/ mem_sb[i].ex
                             \/ mem_sb[i].issued /\ LoadWrites(i) /\ load_pipe_q.ex
                             \/ mem_sb[i].issued /\ StoreWrites(i) /\ mmu_exception,
                      result |-> IF mem_sb[i].issued /\ (StoreWrites(i) \/ FlushWrites(i))
                                   THEN zero.data
                                 ELSE IF mem_sb[i].issued /\ LoadWrites(i) THEN load_pipe_q.data
                                 ELSE mem_sb[i].result,
                      ins |-> mem_sb[i].ins]
  <1> DEFINE ack0 == commit_ack0(x.amo_ack)
             ack1 == commit_ack1(x.amo_ack)
             issued == IF ins # NoInstr THEN [mem_sb EXCEPT ![issue_pointer_q] = NewEntry(ins)]
                                        ELSE mem_sb
             loaded == write_back(issued, load_pipe_q.valid, load_pipe_q.trans_id,
                                  load_pipe_q.data, load_pipe_q.ex)
             stored == write_back(loaded, st_done(st_in(x)), st_trans_id_q,
                                  zero.data, mmu_exception)
             flu_done == write_back(stored, issue_q.op \in FlushOp, issue_q.trans_id,
                                    zero.data, FALSE)
             once == retire(flu_done, ack0, commit_pointer_q)
             twice == retire(once, ack1, Next1(commit_pointer_q))
  <1>1. mem_sb' = twice
    <2>1. x.flush = FALSE
      BY DEF Inputs, flush
    <2> QED BY <2>1 DEF Steps, scoreboard, NewEntry
  <1>2. /\ mem_sb \in [TransId -> SbEntry] /\ load_pipe_q.trans_id \in TransId
        /\ st_trans_id_q \in TransId /\ issue_q.trans_id \in TransId
        /\ load_pipe_q.data \in Data /\ zero.data \in Data
        /\ load_pipe_q.ex \in BOOLEAN /\ load_pipe_q.valid \in BOOLEAN /\ mmu_exception \in BOOLEAN
        /\ issue_pointer_q \in TransId /\ commit_pointer_q \in TransId
        /\ Next1(commit_pointer_q) \in TransId
    BY ZeroFields, PosFacts DEF CoreTypes, LsuTypes, SbTypes, LsuRequest, mmu_exception
  <1>3. st_done(st_in(x)) = (Raised \/ Stores)
    BY StoreUnitStep DEF Steps
  <1>4. issued \in [TransId -> SbEntry]
    BY <1>2, NewEntryType
  <1>5. \A i \in TransId : issued[i] = IF ins # NoInstr /\ i = issue_pointer_q
                                         THEN NewEntry(ins) ELSE mem_sb[i]
    BY <1>2
  <1> HIDE DEF issued
  <1>6. loaded \in [TransId -> SbEntry]
    BY <1>2, <1>4, WriteBackType
  <1>7. \A i \in TransId : loaded[i] = IF mem_sb[i].issued /\ LoadWrites(i)
                                         THEN completed(issued[i], load_pipe_q.data, load_pipe_q.ex)
                                         ELSE issued[i]
    BY <1>2, <1>4 DEF write_back, LoadWrites
  <1> HIDE DEF loaded
  <1>8. stored \in [TransId -> SbEntry]
    BY <1>2, <1>3, <1>6, WriteBackType DEF Raised, Stores
  <1>9. \A i \in TransId : stored[i] = IF mem_sb[i].issued /\ StoreWrites(i)
                                         THEN completed(loaded[i], zero.data, mmu_exception)
                                         ELSE loaded[i]
    BY <1>2, <1>3, <1>6 DEF write_back, StoreWrites
  <1> HIDE DEF stored
  <1>10. flu_done \in [TransId -> SbEntry]
    BY <1>2, <1>8, WriteBackType
  <1>11. \A i \in TransId : flu_done[i] = IF mem_sb[i].issued /\ FlushWrites(i)
                                            THEN completed(stored[i], zero.data, FALSE) ELSE stored[i]
    BY <1>2, <1>8 DEF write_back, FlushWrites
  <1> HIDE DEF flu_done
  <1>12. \A i \in TransId : twice[i] = IF Retired(i, x) THEN EmptyEntry ELSE flu_done[i]
    BY <1>2, <1>10 DEF retire, Retired
  <1> HIDE DEF twice
  <1>13. ~mem_sb[issue_pointer_q].issued
    <2>1. Pos(issue_pointer_q) = issue_cnt_q /\ issue_cnt_q \in Int
      BY PointerStep, TransIdType DEF CoreTypes, SbTypes
    <2> QED BY <1>2, <2>1 DEF ScoreboardRing
  <1>14. ~Retired(issue_pointer_q, x)
    BY <1>2, <1>13, RetiredFacts
  <1>15. ins # NoInstr => mem_sb'[issue_pointer_q] = NewEntry(ins)
    BY <1>1, <1>2, <1>5, <1>7, <1>9, <1>11, <1>12, <1>13, <1>14
  <1>16. ASSUME NEW i \in TransId, ~Retired(i, x), ins = NoInstr \/ i # issue_pointer_q
         PROVE  mem_sb'[i] =
                     [issued |-> mem_sb[i].issued,
                      valid |-> mem_sb[i].valid \/ Writes(i),
                      ex |-> \/ mem_sb[i].ex
                             \/ mem_sb[i].issued /\ LoadWrites(i) /\ load_pipe_q.ex
                             \/ mem_sb[i].issued /\ StoreWrites(i) /\ mmu_exception,
                      result |-> IF mem_sb[i].issued /\ (StoreWrites(i) \/ FlushWrites(i))
                                   THEN zero.data
                                 ELSE IF mem_sb[i].issued /\ LoadWrites(i) THEN load_pipe_q.data
                                 ELSE mem_sb[i].result,
                      ins |-> mem_sb[i].ins]
    <2> DEFINE e == mem_sb[i]
               e1 == IF e.issued /\ LoadWrites(i) THEN completed(e, load_pipe_q.data, load_pipe_q.ex)
                                                  ELSE e
               e2 == IF e.issued /\ StoreWrites(i) THEN completed(e1, zero.data, mmu_exception) ELSE e1
               e3 == IF e.issued /\ FlushWrites(i) THEN completed(e2, zero.data, FALSE) ELSE e2
    <2>1. mem_sb'[i] = e3
      <3>1. issued[i] = e
        BY <1>5, <1>16
      <3>2. loaded[i] = e1
        BY <1>7, <3>1
      <3>3. stored[i] = e2
        BY <1>9, <3>2
      <3>4. flu_done[i] = e3
        BY <1>11, <3>3
      <3> QED BY <1>1, <1>12, <1>16, <3>4
    <2>2. e \in SbEntry
      BY <1>2
    <2> HIDE DEF e
    <2>3. e1 = [issued |-> e.issued,
                valid |-> e.valid \/ (e.issued /\ LoadWrites(i)),
                ex |-> e.ex \/ (e.issued /\ LoadWrites(i) /\ load_pipe_q.ex),
                result |-> IF e.issued /\ LoadWrites(i) THEN load_pipe_q.data ELSE e.result,
                ins |-> e.ins]
      BY <1>2, <2>2 DEF completed, SbEntry
    <2> HIDE DEF e1
    <2>4. e2 = [issued |-> e.issued,
                valid |-> e.valid \/ (e.issued /\ (LoadWrites(i) \/ StoreWrites(i))),
                ex |-> \/ e.ex \/ (e.issued /\ LoadWrites(i) /\ load_pipe_q.ex)
                       \/ (e.issued /\ StoreWrites(i) /\ mmu_exception),
                result |-> IF e.issued /\ StoreWrites(i) THEN zero.data
                           ELSE IF e.issued /\ LoadWrites(i) THEN load_pipe_q.data ELSE e.result,
                ins |-> e.ins]
      BY <1>2, <2>2, <2>3 DEF completed, SbEntry
    <2> HIDE DEF e2
    <2>5. e3 = [issued |-> e.issued,
                valid |-> \/ e.valid
                          \/ e.issued /\ (LoadWrites(i) \/ StoreWrites(i) \/ FlushWrites(i)),
                ex |-> \/ e.ex \/ (e.issued /\ LoadWrites(i) /\ load_pipe_q.ex)
                       \/ (e.issued /\ StoreWrites(i) /\ mmu_exception),
                result |-> IF e.issued /\ (StoreWrites(i) \/ FlushWrites(i)) THEN zero.data
                           ELSE IF e.issued /\ LoadWrites(i) THEN load_pipe_q.data ELSE e.result,
                ins |-> e.ins]
      BY <1>2, <2>2, <2>4 DEF completed, SbEntry
    <2> QED BY <2>1, <2>5 DEF Writes, e
  <1> QED BY <1>1, <1>12, <1>13, <1>15, <1>16

\* The same in fields.
LEMMA FieldStep ==
    ASSUME CoreTypes, ScoreboardRing,
           NEW ins \in Instr \cup {NoInstr}, NEW x, Inputs(x), Steps(ins, x), ~flush(x.amo_ack),
           NEW i \in TransId, ~Retired(i, x), ins = NoInstr \/ i # issue_pointer_q
    PROVE  /\ mem_sb'[i].issued = mem_sb[i].issued /\ mem_sb'[i].ins = mem_sb[i].ins
           /\ mem_sb'[i].valid = (mem_sb[i].valid \/ Writes(i))
           /\ mem_sb'[i].ex = \/ mem_sb[i].ex
                              \/ mem_sb[i].issued /\ LoadWrites(i) /\ load_pipe_q.ex
                              \/ mem_sb[i].issued /\ StoreWrites(i) /\ mmu_exception
           /\ mem_sb'[i].result =
                IF mem_sb[i].issued /\ (StoreWrites(i) \/ FlushWrites(i)) THEN zero.data
                ELSE IF mem_sb[i].issued /\ LoadWrites(i) THEN load_pipe_q.data
                ELSE mem_sb[i].result
           /\ ~Writes(i) => mem_sb'[i] = mem_sb[i]
  <1>1. mem_sb'[i] =
                     [issued |-> mem_sb[i].issued,
                      valid |-> mem_sb[i].valid \/ Writes(i),
                      ex |-> \/ mem_sb[i].ex
                             \/ mem_sb[i].issued /\ LoadWrites(i) /\ load_pipe_q.ex
                             \/ mem_sb[i].issued /\ StoreWrites(i) /\ mmu_exception,
                      result |-> IF mem_sb[i].issued /\ (StoreWrites(i) \/ FlushWrites(i))
                                   THEN zero.data
                                 ELSE IF mem_sb[i].issued /\ LoadWrites(i) THEN load_pipe_q.data
                                 ELSE mem_sb[i].result,
                      ins |-> mem_sb[i].ins]
    BY WriteStep
  <1>2. mem_sb[i] \in SbEntry
    BY DEF CoreTypes, SbTypes
  <1>3. ~Writes(i) => mem_sb'[i] = mem_sb[i]
    BY <1>1, <1>2 DEF Writes, SbEntry
  <1> QED BY <1>1, <1>3

LEMMA CompletedRecord ==
    ASSUME NEW e \in SbEntry, NEW d \in Data
    PROVE  completed(e, d, FALSE) = [issued |-> e.issued, valid |-> TRUE, ex |-> e.ex,
                                     result |-> d, ins |-> e.ins]
  <1> DEFINE c == completed(e, d, FALSE)
             r == [issued |-> e.issued, valid |-> TRUE, ex |-> e.ex, result |-> d, ins |-> e.ins]
  <1>1. c \in SbEntry /\ r \in SbEntry
    BY DEF completed, SbEntry
  <1>2. /\ c.issued = e.issued /\ c.valid = TRUE /\ c.ex = (e.ex \/ FALSE)
        /\ c.result = d /\ c.ins = e.ins
    BY DEF completed, SbEntry
  <1>3. /\ r.issued = e.issued /\ r.valid = TRUE /\ r.ex = e.ex
        /\ r.result = d /\ r.ins = e.ins
    OBVIOUS
  <1>4. (e.ex \/ FALSE) = e.ex
    <2>1. e.ex \in BOOLEAN
      BY DEF SbEntry
    <2> QED BY <2>1
  <1> HIDE DEF c, r
  <1>5. c = r
    BY <1>1, <1>2, <1>3, <1>4 DEF SbEntry
  <1> QED BY <1>5 DEF c, r

\* The entries after a cycle without a flush and without an exception.
LEMMA EntryStep ==
    ASSUME CoreTypes, Calm, ScoreboardRing, OwnWork, LoadUnitOK,
           NEW ins \in Instr \cup {NoInstr}, NEW x, Inputs(x), Steps(ins, x), ~flush(x.amo_ack)
    PROVE  /\ ins # NoInstr => /\ mem_sb'[issue_pointer_q] = NewEntry(ins)
                               /\ ~mem_sb[issue_pointer_q].issued
           /\ \A i \in TransId : Retired(i, x) => mem_sb'[i] = EmptyEntry
           /\ \A i \in TransId : ~Retired(i, x) /\ (ins = NoInstr \/ i # issue_pointer_q)
                => mem_sb'[i] = IF LoadFills(i) THEN completed(mem_sb[i], load_pipe_q.data, FALSE)
                                ELSE IF OtherFills(i) THEN completed(mem_sb[i], zero.data, FALSE)
                                ELSE mem_sb[i]
  <1>1. ~Raised /\ (Stores => mmu_exception = FALSE)
    BY CalmFacts DEF Raised, Stores
  <1>2. SUFFICES ASSUME NEW i \in TransId, ~Retired(i, x), ins = NoInstr \/ i # issue_pointer_q
                 PROVE  mem_sb'[i] = IF LoadFills(i) THEN completed(mem_sb[i], load_pipe_q.data, FALSE)
                                     ELSE IF OtherFills(i) THEN completed(mem_sb[i], zero.data, FALSE)
                                     ELSE mem_sb[i]
    BY WriteStep
  <1>3. /\ mem_sb[i].issued /\ LoadWrites(i) <=> LoadFills(i)
        /\ mem_sb[i].issued /\ (StoreWrites(i) \/ FlushWrites(i)) <=> OtherFills(i)
    BY <1>1, WorkIsIssued DEF LoadWrites, LoadFills, StoreWrites, FlushWrites, OtherFills, Returns
  <1>4. /\ LoadFills(i) => ~OtherFills(i) /\ load_pipe_q.ex = FALSE
        /\ mem_sb[i].issued /\ StoreWrites(i) => mmu_exception = FALSE
    <2>1. load_pipe_q.ex \in BOOLEAN
      BY DEF CoreTypes, LsuTypes
    <2> QED BY <1>1, <2>1 DEF LoadFills, OtherFills, OwnWork, FlushOp, StoreWrites
  <1>5. mem_sb[i] \in SbEntry
    BY DEF CoreTypes, SbTypes
  <1>6. mem_sb'[i] = [issued |-> mem_sb[i].issued,
                      valid |-> mem_sb[i].valid \/ Writes(i),
                      ex |-> \/ mem_sb[i].ex
                             \/ mem_sb[i].issued /\ LoadWrites(i) /\ load_pipe_q.ex
                             \/ mem_sb[i].issued /\ StoreWrites(i) /\ mmu_exception,
                      result |-> IF mem_sb[i].issued /\ (StoreWrites(i) \/ FlushWrites(i))
                                   THEN zero.data
                                 ELSE IF mem_sb[i].issued /\ LoadWrites(i) THEN load_pipe_q.data
                                 ELSE mem_sb[i].result,
                      ins |-> mem_sb[i].ins]
    BY <1>2, WriteStep
  <1>7. Writes(i) <=> LoadFills(i) \/ OtherFills(i)
    BY <1>3 DEF Writes
  <1>8. CASE LoadFills(i)
    <2>1. completed(mem_sb[i], load_pipe_q.data, FALSE)
            = [issued |-> mem_sb[i].issued, valid |-> TRUE, ex |-> mem_sb[i].ex,
               result |-> load_pipe_q.data, ins |-> mem_sb[i].ins]
      BY <1>5, CompletedRecord, ZeroFields DEF CoreTypes, LsuTypes
    <2>2. ~(mem_sb[i].issued /\ (StoreWrites(i) \/ FlushWrites(i))) /\ mem_sb[i].issued /\ LoadWrites(i)
      BY <1>3, <1>4, <1>8
    <2>3. mem_sb[i].ex \in BOOLEAN
      BY <1>5 DEF SbEntry
    <2> QED BY <1>4, <1>6, <1>7, <1>8, <2>1, <2>2, <2>3
  <1>9. CASE ~LoadFills(i) /\ OtherFills(i)
    <2>1. completed(mem_sb[i], zero.data, FALSE)
            = [issued |-> mem_sb[i].issued, valid |-> TRUE, ex |-> mem_sb[i].ex,
               result |-> zero.data, ins |-> mem_sb[i].ins]
      BY <1>5, CompletedRecord, ZeroFields DEF CoreTypes, LsuTypes
    <2>2. mem_sb[i].issued /\ (StoreWrites(i) \/ FlushWrites(i)) /\ ~(mem_sb[i].issued /\ LoadWrites(i))
      BY <1>3, <1>9
    <2>3. mem_sb[i].ex \in BOOLEAN
      BY <1>5 DEF SbEntry
    <2> QED BY <1>4, <1>6, <1>7, <1>9, <2>1, <2>2, <2>3
  <1>10. CASE ~LoadFills(i) /\ ~OtherFills(i)
    <2>1. mem_sb'[i] = mem_sb[i]
      BY <1>2, <1>7, <1>10, FieldStep
    <2> QED BY <1>10, <2>1
  <1> QED BY <1>8, <1>9, <1>10
=============================================================================
