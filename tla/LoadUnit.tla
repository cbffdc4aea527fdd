------------------------------ MODULE LoadUnit ------------------------------
(***************************************************************************)
(* The load unit (load_unit.sv).  A load is translated and, in the same    *)
(* cycle, requested from the data cache by its index; one cycle after the  *)
(* grant the tag follows (state SEND_TAG), or the request is killed.  The  *)
(* load leaves the LSU queue when it is granted, so the unit may already   *)
(* handle the next load while the cache still works on the last one; the   *)
(* register load_data_q remembers whom the next answer belongs to.         *)
(*                                                                         *)
(* One step of LUStep is one clock edge.  The argument `in' holds the      *)
(* inputs of the cycle:                                                    *)
(*   valid, trans_id  a load at the head of the LSU queue                  *)
(*   matches          page_offset_matches_i of the store buffer            *)
(*   hit, ex          answer of the MMU for this and for the last request  *)
(*   stall_nc         the load has to wait (see StallNC in LSU.tla)        *)
(*   gnt, rvalid      answers of the data cache                            *)
(*   wbuffer_empty    the cache's write buffer is empty                    *)
(*   flush            the pipeline is flushed                              *)
(* Sign extension and realignment of the result are not modelled here.     *)
(***************************************************************************)

CONSTANT TransId

VARIABLES state_q,      \* state of the control FSM
          load_data_q   \* transaction id of the load the cache works on

vars == <<state_q, load_data_q>>

State == {"IDLE", "WAIT_GNT", "SEND_TAG", "WAIT_PAGE_OFFSET",
          "ABORT_TRANSACTION", "ABORT_TRANSACTION_NC", "WAIT_TRANSLATION",
          "WAIT_FLUSH", "WAIT_WB_EMPTY"}

TypeOK == state_q \in State /\ load_data_q \in TransId

-----------------------------------------------------------------------------
(* Requests to the MMU and to the data cache *)

\* A new load is taken up when idle, and while the tag of the last is sent.
takes(in) == in.valid /\ state_q \in {"IDLE", "SEND_TAG"}

translation_req_o(in) == takes(in) \/ state_q \in {"WAIT_TRANSLATION", "WAIT_GNT"}

data_req(in) == (takes(in) /\ ~in.matches) \/ state_q = "WAIT_GNT"

tag_valid == state_q \in {"SEND_TAG", "ABORT_TRANSACTION",
                          "ABORT_TRANSACTION_NC", "WAIT_FLUSH"}

kill_req(ex_i) ==
    \/ state_q \in {"ABORT_TRANSACTION", "ABORT_TRANSACTION_NC", "WAIT_FLUSH"}
    \/ state_q = "SEND_TAG" /\ ex_i

-----------------------------------------------------------------------------
(* Control *)

granted(in) == data_req(in) /\ in.gnt

\* The load at the head traps.  If the cache answers in this cycle the load
\* stays for another round, so as not to overwrite the answer.
traps(in) == in.ex /\ in.valid
traps_now(in) == traps(in) /\ ~in.rvalid

pop_ld_o(in) == (granted(in) /\ in.hit /\ ~in.stall_nc) \/ traps_now(in)

\* Where a request goes: wait for the grant, send the tag, or abort.
requested(in) ==
    IF ~in.gnt THEN "WAIT_GNT"
    ELSE IF ~in.hit THEN "ABORT_TRANSACTION"
    ELSE IF in.stall_nc THEN "ABORT_TRANSACTION_NC"
    ELSE "SEND_TAG"

state_d(in) ==
    IF in.flush THEN "WAIT_FLUSH"
    ELSE IF traps(in) THEN "IDLE"
    ELSE IF data_req(in) THEN requested(in)
    ELSE IF takes(in) THEN "WAIT_PAGE_OFFSET"
    ELSE CASE state_q = "WAIT_PAGE_OFFSET" ->
                IF in.matches THEN "WAIT_PAGE_OFFSET" ELSE "WAIT_GNT"
           [] state_q = "ABORT_TRANSACTION" -> "WAIT_TRANSLATION"
           [] state_q = "ABORT_TRANSACTION_NC" -> "WAIT_WB_EMPTY"
           [] state_q = "WAIT_WB_EMPTY" ->
                IF in.wbuffer_empty THEN "WAIT_TRANSLATION" ELSE "WAIT_WB_EMPTY"
           [] state_q = "WAIT_TRANSLATION" ->
                IF in.hit THEN "WAIT_GNT" ELSE "WAIT_TRANSLATION"
           [] OTHER -> "IDLE"

-----------------------------------------------------------------------------
(* rvalid_output: the result handed to the scoreboard *)

valid_o(in) ==
    \/ traps_now(in)
    \/ /\ state_q \notin {"WAIT_TRANSLATION", "WAIT_FLUSH"}
       /\ in.rvalid
       /\ ~kill_req(in.ex) \/ in.ex

trans_id_o(in) == IF traps_now(in) THEN in.trans_id ELSE load_data_q

\* assign ex_o = ex_i: whoever completes in this cycle takes the exception.
ex_o_Mutant(in) == in.ex /\ ~in.valid
ex_o(in) == in.ex

-----------------------------------------------------------------------------
(* Registers *)

LUInit == state_q = "IDLE" /\ load_data_q = 0

LUStep(in) ==
    /\ state_q' = state_d(in)
    /\ load_data_q' = IF pop_ld_o(in) /\ ~in.ex THEN in.trans_id ELSE load_data_q
=============================================================================
