------------------------------ MODULE WalkPort ------------------------------
(***************************************************************************)
(* The page table walker of Walker.tla with its own read port of the data  *)
(* cache (DCtrl.tla), cycle by cycle.  The walker never kills a read: a    *)
(* flush that finds one outstanding leaves it to the cache and waits for   *)
(* the answer, so that the next walk does not mistake it for its own.      *)
(*                                                                         *)
(* Requests of the LSU, of the front end and flushes come at any time, but *)
(* two flushes are FLUSH_GAP cycles apart, the time the pipeline takes to  *)
(* fetch and retire an instruction.  The address of a page table entry is  *)
(* named by the page and the level it serves; index and tag are the same   *)
(* name, kept apart, since the walker sends them in different cycles.      *)
(***************************************************************************)
EXTENDS Integers, FiniteSets

CONSTANTS Page, Unmapped, LEVELS, TLB_ENTRIES,
          FLUSH_GAP,      \* cycles from one flush to the next
          FlushInWait     \* a flush may come while the walker waits after one

VARIABLES ptw_state_q, ptw_lvl_q, ptw_page_q, is_instr_ptw_q, dtlb,
          tag_valid_q,    \* the tag of a granted read is sent
          data_rvalid_q,  \* an answer of the cache is in data_rdata_q
          data_rdata_q,   \* the entry that was read, by its index and tag
          dc_state_q, address_tag_q, address_idx_q, rd_ack_q,
          since_flush     \* cycles since the last flush, up to FLUSH_GAP

PteAddr == Page \X (1 .. LEVELS)

PTW == INSTANCE Walker
DC == INSTANCE DCtrl WITH state_q <- dc_state_q, Tag <- PteAddr, Index <- PteAddr

vars == <<PTW!vars, DC!vars, tag_valid_q, data_rvalid_q, data_rdata_q, since_flush>>

ptw_pptr == <<ptw_page_q, ptw_lvl_q>>

Init ==
    /\ PTW!WInit(CHOOSE p \in Page : TRUE)
    /\ DC!DCInit(ptw_pptr, ptw_pptr)
    /\ tag_valid_q = FALSE /\ data_rvalid_q = FALSE
    /\ data_rdata_q = [tag |-> ptw_pptr, idx |-> ptw_pptr]
    /\ since_flush = FLUSH_GAP

\* What the memories and the miss unit of the cache may answer; signals the
\* port ignores in a state are low.
Quiet == [rd_ack |-> FALSE, wr_cl_vld |-> FALSE, hit |-> FALSE,
          miss_ack |-> FALSE, miss_replay |-> FALSE, miss_rtrn |-> FALSE]

Answers ==
    LET or(r) == {r, [r EXCEPT !.rd_ack = TRUE]}
    IN  CASE dc_state_q \in {"IDLE", "REPLAY_REQ"} -> or(Quiet)
          [] dc_state_q \in {"READ", "REPLAY_READ"} ->
               or(Quiet) \cup or([Quiet EXCEPT !.wr_cl_vld = TRUE])
                 \cup or([Quiet EXCEPT !.hit = TRUE])
          [] dc_state_q = "MISS_REQ" ->
               {Quiet, [Quiet EXCEPT !.miss_ack = TRUE], [Quiet EXCEPT !.miss_replay = TRUE]}
          [] dc_state_q = "MISS_WAIT" -> {Quiet, [Quiet EXCEPT !.miss_rtrn = TRUE]}

dc_in(d) ==
    [data_req |-> ptw_state_q = "WAIT_GRANT", idx |-> ptw_pptr,
     tag_valid |-> tag_valid_q, tag |-> ptw_pptr, kill |-> FALSE,
     rd_ack |-> d.rd_ack, wr_cl_vld |-> d.wr_cl_vld, hit |-> d.hit,
     miss_ack |-> d.miss_ack, miss_replay |-> d.miss_replay, miss_rtrn |-> d.miss_rtrn]

\* One clock cycle: request is "none", "data" or "fetch", flush is "none",
\* "flush" or "sfence".  The page table entry the walker looks at is the one
\* that was read, whomever it was read for.
Cycle(request, page, flush, pte, victim, d) ==
    LET dc == dc_in(d)
    IN  /\ d.rd_ack => DC!rd_req_o(dc)
        /\ DC!DCStep(dc)
        /\ PTW!WStep([access |-> request = "data", hit |-> page \in dtlb, page |-> page,
                      itlb_miss |-> request = "fetch", itlb_page |-> page,
                      gnt |-> DC!data_gnt(dc), rvalid |-> data_rvalid_q, pte |-> pte,
                      victim |-> victim, flush |-> flush # "none",
                      flush_tlb |-> flush = "sfence"])
        /\ tag_valid_q' = DC!data_gnt(dc)
        /\ data_rvalid_q' = DC!data_rvalid(dc)
        /\ data_rdata_q' = IF DC!data_rvalid(dc)
                             THEN [tag |-> DC!rd_tag_o(dc), idx |-> address_idx_q]
                             ELSE data_rdata_q

\* Flushes keep their distance.
FlushTiming(flush) ==
    IF flush # "none"
      THEN /\ since_flush = FLUSH_GAP
           /\ ptw_state_q = "WAIT_RVALID" => FlushInWait
           /\ since_flush' = 0
      ELSE since_flush' = IF since_flush < FLUSH_GAP THEN since_flush + 1 ELSE FLUSH_GAP

ReadEntries == PTW!Entries(data_rdata_q.tag[1], data_rdata_q.tag[2], is_instr_ptw_q)

Next ==
    \E request \in {"none", "data", "fetch"}, page \in Page,
       flush \in {"none", "flush", "sfence"}, pte \in ReadEntries,
       victim \in IF dtlb = {} THEN {ptw_page_q} ELSE dtlb, d \in Answers :
          FlushTiming(flush) /\ Cycle(request, page, flush, pte, victim, d)

Spec == Init /\ [][Next]_vars

-----------------------------------------------------------------------------
(* Properties *)

\* The entry the walker looks at is the one this walk has asked for, at this
\* level: no answer to an abandoned walk reaches a later one, and index and
\* tag of a read, sent in different cycles, belong together.
AnswerIsOwn ==
    PTW!looked_up([rvalid |-> data_rvalid_q])
        => data_rdata_q = [tag |-> ptw_pptr, idx |-> ptw_pptr]

\* "Should we have flushed before we got an rvalid, wait for it until going
\* back to IDLE": an idle walker has no read outstanding.
IdleWalkerOwesNothing ==
    ptw_state_q = "IDLE" => dc_state_q = "IDLE"
=============================================================================
