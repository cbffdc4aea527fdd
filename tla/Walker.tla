------------------------------- MODULE Walker -------------------------------
(***************************************************************************)
(* The hardware page table walker (ptw.sv) and the data TLB it fills       *)
(* (tlb.sv).  One walk is in progress at a time; it reads one entry per    *)
(* level through its own port of the data cache and ends with an update of *)
(* the TLB or with one cycle in PROPAGATE_ERROR.  A flush abandons it, but *)
(* an answer that is still outstanding is waited for first.                *)
(*                                                                         *)
(* The argument `in' of a step holds                                       *)
(*   access, hit, page  the request of the LSU and the TLB's answer        *)
(*   itlb_miss, itlb_page   the front end waits for a translation          *)
(*   gnt, rvalid        answers of the data cache (rvalid: data_rvalid_q)  *)
(*   pte                the entry read: "leaf", "pointer" or "bad"         *)
(*   victim             the TLB entry the replacement policy picks         *)
(*   flush, flush_tlb   pipeline flush and SFENCE.VMA                      *)
(* Translation is the identity: a page is mapped to itself or unmapped.    *)
(* Page permissions, ASIDs and superpages are not told apart.              *)
(***************************************************************************)
EXTENDS Integers, FiniteSets

CONSTANTS Page,
          Unmapped,     \* pages whose walk ends in an error
          LEVELS,       \* levels of the page table, 3 for Sv39
          TLB_ENTRIES

VARIABLES ptw_state_q, ptw_lvl_q, ptw_page_q, is_instr_ptw_q,
          dtlb          \* pages with a valid entry in the TLB

vars == <<ptw_state_q, ptw_lvl_q, ptw_page_q, is_instr_ptw_q, dtlb>>

TypeOK ==
    /\ ptw_state_q \in {"IDLE", "WAIT_GRANT", "PTE_LOOKUP", "WAIT_RVALID",
                        "PROPAGATE_ERROR"}
    /\ ptw_lvl_q \in 1 .. LEVELS
    /\ ptw_page_q \in Page
    /\ is_instr_ptw_q \in BOOLEAN
    /\ dtlb \subseteq Page /\ Cardinality(dtlb) <= TLB_ENTRIES

\* ptw_error_o, as far as it concerns the data side.
data_error == ptw_state_q = "PROPAGATE_ERROR" /\ ~is_instr_ptw_q

starts(in) ==
    /\ ptw_state_q = "IDLE"
    /\ IF in.access THEN ~in.hit ELSE in.itlb_miss

\* A page table entry has arrived: it is a pointer to the next level, or it
\* ends the walk.
looked_up(in) == ptw_state_q = "PTE_LOOKUP" /\ in.rvalid
descends(in) == looked_up(in) /\ in.pte = "pointer" /\ ptw_lvl_q < LEVELS
fails(in) == looked_up(in) /\ in.pte # "leaf" /\ ~descends(in)

dtlb_update(in) == looked_up(in) /\ in.pte = "leaf" /\ ~is_instr_ptw_q

\* What the page table may hold for a page at some level.  A fetch may fault
\* where a load does not.
Entries(page, lvl, instr) ==
    (IF page \in Unmapped THEN {"bad"} ELSE IF instr THEN {"leaf", "bad"} ELSE {"leaf"})
      \cup (IF lvl < LEVELS THEN {"pointer"} ELSE {})

WInit(page0) ==
    /\ ptw_state_q = "IDLE"
    /\ ptw_lvl_q = 1
    /\ ptw_page_q = page0
    /\ is_instr_ptw_q = FALSE
    /\ dtlb = {}

\* A flush waits for an outstanding answer, but a second flush does not wait
\* for the answer the first one waited for.
state_d_Mutant(in) ==
    IF in.flush THEN "IDLE"
    ELSE IF starts(in) \/ descends(in) THEN "WAIT_GRANT"
    ELSE IF fails(in) THEN "PROPAGATE_ERROR"
    ELSE IF ptw_state_q = "WAIT_GRANT" THEN IF in.gnt THEN "PTE_LOOKUP" ELSE "WAIT_GRANT"
    ELSE IF ptw_state_q \in {"PTE_LOOKUP", "WAIT_RVALID"} /\ ~in.rvalid THEN ptw_state_q
    ELSE "IDLE"
state_d(in) ==
    IF in.flush
      THEN IF \/ ptw_state_q = "PTE_LOOKUP" /\ ~in.rvalid
              \/ ptw_state_q = "WAIT_GRANT" /\ in.gnt
             THEN "WAIT_RVALID" ELSE "IDLE"
    ELSE IF starts(in) \/ descends(in) THEN "WAIT_GRANT"
    ELSE IF fails(in) THEN "PROPAGATE_ERROR"
    ELSE IF ptw_state_q = "WAIT_GRANT" THEN IF in.gnt THEN "PTE_LOOKUP" ELSE "WAIT_GRANT"
    ELSE IF ptw_state_q \in {"PTE_LOOKUP", "WAIT_RVALID"} /\ ~in.rvalid THEN ptw_state_q
    ELSE "IDLE"

\* always_comb update_flush of the TLB: an entry for every page it holds.
update_flush(in) ==
    dtlb' = IF in.flush_tlb THEN {}
            ELSE IF ~dtlb_update(in) THEN dtlb
            ELSE {ptw_page_q} \cup
                   (IF Cardinality(dtlb) < TLB_ENTRIES THEN dtlb ELSE dtlb \ {in.victim})

WStep(in) ==
    /\ ptw_state_q' = state_d(in)
    /\ ptw_lvl_q' = IF ptw_state_q = "IDLE" THEN 1
                    ELSE IF descends(in) THEN ptw_lvl_q + 1 ELSE ptw_lvl_q
    /\ ptw_page_q' = IF ~starts(in) THEN ptw_page_q
                     ELSE IF in.access THEN in.page ELSE in.itlb_page
    /\ is_instr_ptw_q' = IF ptw_state_q = "IDLE" THEN starts(in) /\ ~in.access
                         ELSE is_instr_ptw_q
    /\ update_flush(in)
=============================================================================
