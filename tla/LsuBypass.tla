----------------------------- MODULE LsuBypass -----------------------------
(***************************************************************************)
(* The two-entry FIFO in front of the load and the store unit (lsu_bypass  *)
(* in load_store_unit.sv).  It is ready only while it is empty, but a      *)
(* request that was issued under the last ready flag may still arrive one  *)
(* cycle later, which is what the second entry is for.  An empty FIFO      *)
(* passes the request of the cycle straight through.                       *)
(*                                                                         *)
(* A request is a record with a Boolean field `valid'; NoRequest is the    *)
(* all-zero word.                                                          *)
(***************************************************************************)
EXTENDS Integers

CONSTANT NoRequest

VARIABLES mem_q, read_pointer_q, write_pointer_q, status_cnt_q

vars == <<mem_q, read_pointer_q, write_pointer_q, status_cnt_q>>

empty == status_cnt_q = 0

\* The variant forgets that a request may still be on its way.
lsu_ready_o_Mutant == status_cnt_q < 2
lsu_ready_o == empty

lsu_ctrl_o(lsu_req_i) == IF empty THEN lsu_req_i ELSE mem_q[read_pointer_q]

LBInit ==
    /\ mem_q = [i \in 0..1 |-> NoRequest]
    /\ read_pointer_q = 0
    /\ write_pointer_q = 0
    /\ status_cnt_q = 0

LBStep(lsu_req_i, pop_ld_i, pop_st_i, flush_i) ==
    LET pops == (IF pop_ld_i THEN 1 ELSE 0) + (IF pop_st_i THEN 1 ELSE 0)
        push == IF lsu_req_i.valid THEN 1 ELSE 0
        written == IF lsu_req_i.valid
                     THEN [mem_q EXCEPT ![write_pointer_q] = lsu_req_i]
                     ELSE mem_q
    IN  /\ mem_q' =
              IF flush_i \/ pops = 2 THEN [i \in 0..1 |-> NoRequest]
              ELSE IF pops = 1
                     THEN [written EXCEPT ![read_pointer_q].valid = FALSE]
                     ELSE written
        /\ read_pointer_q' = IF flush_i THEN 0 ELSE (read_pointer_q + pops) % 2
        /\ write_pointer_q' = IF flush_i THEN 0 ELSE (write_pointer_q + push) % 2
        /\ status_cnt_q' = IF flush_i THEN 0 ELSE (status_cnt_q + push - pops) % 4
=============================================================================
