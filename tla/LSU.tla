-------------------------------- MODULE LSU --------------------------------
(***************************************************************************)
(* The load/store unit (load_store_unit.sv): the request FIFO, the store   *)
(* unit, the load unit, the data side of the MMU they share (mmu.sv) and   *)
(* the cache controller of the load port, all clocked together.            *)
(*                                                                         *)
(* Translation is the identity on pages; what matters here is its timing:  *)
(* the TLB answers in the cycle of the request, while the physical address *)
(* and the exception arrive one cycle later, in registers, or whenever the *)
(* page table walker fails, and both units see the same exception.         *)
(***************************************************************************)
EXTENDS StoreUnit

CONSTANTS NR_SB_ENTRIES,   \* scoreboard entries, which number the transactions
          Cacheable,       \* pages inside a cacheable region
          NonIdempotent,   \* pages inside a non-idempotent region
          Translate,       \* address translation is on
          Unmapped,        \* pages without a valid page table entry
          Forbidden,       \* pages that are mapped, but not for this access
          LEVELS, TLB_ENTRIES

ASSUME LSUAssumption ==
    /\ NR_SB_ENTRIES \in Nat /\ NR_SB_ENTRIES >= 2
    /\ LEVELS \in Nat \ {0} /\ TLB_ENTRIES \in Nat \ {0}
    /\ Translate \in BOOLEAN

VARIABLES st_trans_id_q,                 \* trans_id_q of the store unit
          ld_state_q, load_data_q,
          dc_state_q, address_tag_q, address_idx_q, rd_ack_q,
          mem_q, read_pointer_q, write_pointer_q, status_cnt_q,
          lsu_q,                         \* request registers of the MMU
          ptw_state_q, ptw_lvl_q, ptw_page_q, is_instr_ptw_q, dtlb,
          load_pipe_q                    \* output register of the load unit

TransId == 0 .. NR_SB_ENTRIES - 1
Addr == [page : Page, off : Offset]

zero == [page |-> CHOOSE p \in Page : TRUE, off |-> CHOOSE o \in Offset : TRUE,
         data |-> CHOOSE d \in Data : TRUE]

\* lsu_ctrl_t.
NoRequest == [valid |-> FALSE, op |-> "none", req |-> zero, misaligned |-> FALSE,
              trans_id |-> 0]

\* What the load unit hands to the scoreboard.
NoResult == [valid |-> FALSE, trans_id |-> 0, data |-> zero.data, ex |-> FALSE]

LU == INSTANCE LoadUnit WITH state_q <- ld_state_q
DC == INSTANCE DCtrl WITH state_q <- dc_state_q, Tag <- Page, Index <- Offset
LB == INSTANCE LsuBypass
PTW == INSTANCE Walker

lsuVars == <<vars, st_trans_id_q, LU!vars, DC!vars, LB!vars, PTW!vars, lsu_q, load_pipe_q>>

LSUInit ==
    /\ SUInit
    /\ st_trans_id_q = 0
    /\ LU!LUInit
    /\ DC!DCInit(zero.page, zero.off)
    /\ LB!LBInit
    /\ PTW!WInit(zero.page)
    /\ lsu_q = [req |-> FALSE, addr |-> [page |-> zero.page, off |-> zero.off],
                misaligned |-> FALSE, hit |-> FALSE]
    /\ load_pipe_q = NoResult

-----------------------------------------------------------------------------
(* Inputs x of a cycle: req, the request register of the issue stage;       *)
(* commit, amo_commit, commit_tran_id and flush from the commit stage and   *)
(* the controller; gnt, amo_ack, wbuffer_empty, rdata and the record d of   *)
(* the data cache; the record w of the walker's environment.                *)

lsu_ctrl(x) == LB!lsu_ctrl_o(x.req)

is_load(ctrl) == ctrl.op = "load"
is_store(ctrl) == ctrl.op \in {"store", "amo"}

\* lsu_dtlb_hit_o of the MMU, for the request of this cycle.
dtlb_hit(x) == ~Translate \/ lsu_ctrl(x).req.page \in dtlb

\* lsu_exception_o of the MMU, for the request of the last cycle.  A failing
\* walk raises it whether or not there was a request.
mmu_exception ==
    \/ lsu_q.misaligned
    \/ /\ Translate
       /\ IF lsu_q.hit /\ lsu_q.req THEN lsu_q.addr.page \in Forbidden
                                    ELSE PTW!data_error

st_in(x) ==
    LET ctrl == lsu_ctrl(x)
    IN  [valid |-> ctrl.valid /\ is_store(ctrl),
         ctrl |-> [req |-> ctrl.req, amo |-> ctrl.op = "amo"],
         hit |-> dtlb_hit(x), ex |-> mmu_exception,
         commit |-> x.commit, amo_commit |-> x.amo_commit, flush |-> x.flush,
         gnt |-> x.gnt, amo_ack |-> x.amo_ack]

page_offset_matches(x) ==
    page_offset_matches_o(lsu_ctrl(x).req.off, st_valid_without_flush, lsu_q.addr.off)

\* stall_nc of load_unit.sv, with the physical address of the last cycle.
StallNC_Mutant(x) == lsu_q.addr.page \in NonIdempotent
StallNC(x) ==
    \/ /\ ~(x.wbuffer_empty \/ store_buffer_empty_o)
       /\ lsu_q.addr.page \in Cacheable
    \/ /\ x.commit_tran_id # lsu_ctrl(x).trans_id
       /\ lsu_q.addr.page \in NonIdempotent

\* The inputs of the load unit, with an answer of the data cache.  The unit
\* asks the cache before it knows that answer: the request does not depend
\* on it.
ld_in(x, gnt, rvalid) ==
    LET ctrl == lsu_ctrl(x)
    IN  [valid |-> ctrl.valid /\ is_load(ctrl), trans_id |-> ctrl.trans_id,
         matches |-> page_offset_matches(x), hit |-> dtlb_hit(x),
         ex |-> mmu_exception, stall_nc |-> StallNC(x),
         wbuffer_empty |-> x.wbuffer_empty, flush |-> x.flush,
         gnt |-> gnt, rvalid |-> rvalid]

ld_req_in(x) == ld_in(x, FALSE, FALSE)

dc_in(x) ==
    [data_req |-> LU!data_req(ld_req_in(x)), idx |-> lsu_ctrl(x).req.off,
     tag_valid |-> LU!tag_valid, tag |-> lsu_q.addr.page,
     kill |-> LU!kill_req(mmu_exception),
     rd_ack |-> x.d.rd_ack, wr_cl_vld |-> x.d.wr_cl_vld, hit |-> x.d.hit,
     miss_ack |-> x.d.miss_ack, miss_replay |-> x.d.miss_replay,
     miss_rtrn |-> x.d.miss_rtrn]

translation_req(x) ==
    LET ctrl == lsu_ctrl(x)
    IN  \/ is_load(ctrl) /\ LU!translation_req_o(ld_req_in(x))
        \/ is_store(ctrl) /\ translation_req_o(st_in(x))

\* data_misaligned_detection, muted by the MMU when there is no request.
misaligned_ex(ctrl, req) == ctrl.misaligned /\ req

\* The registers of the MMU's data interface.
data_interface(x, req) ==
    LET ctrl == lsu_ctrl(x)
    IN  lsu_q' = [req |-> req,
                  addr |-> [page |-> ctrl.req.page, off |-> ctrl.req.off],
                  misaligned |-> misaligned_ex(ctrl, req),
                  hit |-> dtlb_hit(x)]

walk_in(x, req) ==
    [access |-> Translate /\ req, hit |-> dtlb_hit(x),
     page |-> lsu_ctrl(x).req.page, itlb_miss |-> x.w.itlb_miss,
     itlb_page |-> x.w.itlb_page, gnt |-> x.w.gnt,
     rvalid |-> x.w.rvalid, pte |-> x.w.pte, victim |-> x.w.victim,
     flush |-> x.flush, flush_tlb |-> x.flush_tlb]

\* The address whose data the load port returns in this cycle.
rd_addr(dc) == [page |-> DC!rd_tag_o(dc), off |-> address_idx_q]

LSUStep(x) ==
    LET ctrl == lsu_ctrl(x)
        st == st_in(x)
        dc == dc_in(x)
        ld == ld_in(x, DC!data_gnt(dc), DC!data_rvalid(dc))
        req == translation_req(x)
    IN  /\ x.d.rd_ack => DC!rd_req_o(dc)
        /\ SUStep(st)
        /\ st_trans_id_q' = ctrl.trans_id
        /\ LU!LUStep(ld)
        /\ DC!DCStep(dc)
        /\ LB!LBStep(x.req, LU!pop_ld_o(ld), pop_st_o(st), x.flush)
        /\ data_interface(x, req)
        /\ PTW!WStep(walk_in(x, req))
        /\ load_pipe_q' =
              IF LU!valid_o(ld)
                THEN [valid |-> TRUE, trans_id |-> LU!trans_id_o(ld),
                      data |-> x.rdata[rd_addr(dc)], ex |-> LU!ex_o(ld)]
                ELSE NoResult
=============================================================================
