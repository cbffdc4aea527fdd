------------------------------- MODULE DCtrl -------------------------------
(***************************************************************************)
(* The controller of one read port of the write-through data cache         *)
(* (wt_dcache_ctrl.sv).  It reads tags and data speculatively by index,    *)
(* compares the tag one cycle later, and on a miss hands the request to    *)
(* the miss unit, which may refuse it (replay).  The requester may kill    *)
(* the request at any time; a miss that was already handed over is waited  *)
(* for in the KILL states.                                                 *)
(*                                                                         *)
(* The argument `in' of a step holds                                       *)
(*   data_req, idx         a request and its index                         *)
(*   tag_valid, tag, kill  second cycle of the request                     *)
(*   rd_ack, wr_cl_vld     arbitration for the memories of this cycle      *)
(*   hit                   the tag comparison hits                         *)
(*   miss_ack, miss_replay, miss_rtrn   answers of the miss unit           *)
(***************************************************************************)

CONSTANTS Tag, Index

VARIABLES state_q,        \* state of the FSM
          address_tag_q,  \* tag of the request, once it is known
          address_idx_q,  \* index of the request
          rd_ack_q        \* the read of the last cycle was granted

vars == <<state_q, address_tag_q, address_idx_q, rd_ack_q>>

State == {"IDLE", "READ", "REPLAY_READ", "REPLAY_REQ", "MISS_REQ",
          "MISS_WAIT", "KILL_MISS", "KILL_MISS_ACK"}

TypeOK == /\ state_q \in State
          /\ address_tag_q \in Tag
          /\ address_idx_q \in Index
          /\ rd_ack_q \in BOOLEAN

-----------------------------------------------------------------------------
(* Combinational signals *)

reading == state_q \in {"READ", "REPLAY_READ"}

rd_req_o(in) == \/ state_q = "IDLE" /\ in.data_req
                \/ reading
                \/ state_q = "REPLAY_REQ"

\* The tag of a first read arrives with tag_valid; a replayed read has it.
compares(in) == reading /\ ~in.kill /\ (in.tag_valid \/ state_q = "REPLAY_READ")

\* The memories were not read for this port, so the comparison is void.
void(in) == in.wr_cl_vld \/ ~rd_ack_q

hits(in) == compares(in) /\ ~void(in) /\ in.hit

data_gnt(in) == in.data_req /\ in.rd_ack /\ (state_q = "IDLE" \/ hits(in))

data_rvalid_Mutant(in) ==
    \/ in.kill /\ (reading \/ state_q \in {"MISS_REQ", "MISS_WAIT", "REPLAY_REQ"})
    \/ hits(in) /\ in.tag_valid
    \/ state_q = "MISS_WAIT" /\ in.miss_rtrn
data_rvalid(in) ==
    \/ in.kill /\ (reading \/ state_q \in {"MISS_REQ", "MISS_WAIT", "REPLAY_REQ"})
    \/ hits(in)
    \/ state_q = "MISS_WAIT" /\ in.miss_rtrn

miss_req_o == state_q \in {"MISS_REQ", "KILL_MISS_ACK"}

\* The address the answer of this cycle is for.
rd_tag_o(in) == IF compares(in) /\ state_q = "READ" THEN in.tag ELSE address_tag_q

-----------------------------------------------------------------------------
(* always_comb p_fsm *)

state_d(in) ==
    CASE state_q = "IDLE" -> IF data_gnt(in) THEN "READ" ELSE "IDLE"
      [] reading ->
            IF in.kill THEN "IDLE"
            ELSE IF ~compares(in) THEN state_q
            ELSE IF void(in) THEN "REPLAY_REQ"
            ELSE IF ~in.hit THEN "MISS_REQ"
            ELSE IF data_gnt(in) THEN "READ" ELSE "IDLE"
      [] state_q = "MISS_REQ" ->
            IF in.kill THEN IF in.miss_ack THEN "KILL_MISS" ELSE "KILL_MISS_ACK"
            ELSE IF in.miss_replay THEN "REPLAY_REQ"
            ELSE IF in.miss_ack THEN "MISS_WAIT" ELSE "MISS_REQ"
      [] state_q = "MISS_WAIT" ->
            IF in.miss_rtrn THEN "IDLE"
            ELSE IF in.kill THEN "KILL_MISS" ELSE "MISS_WAIT"
      [] state_q = "REPLAY_REQ" ->
            IF in.kill THEN "IDLE"
            ELSE IF in.rd_ack THEN "REPLAY_READ" ELSE "REPLAY_REQ"
      [] state_q = "KILL_MISS_ACK" ->
            IF in.miss_replay THEN "IDLE"
            ELSE IF in.miss_ack THEN "KILL_MISS" ELSE "KILL_MISS_ACK"
      [] state_q = "KILL_MISS" -> IF in.miss_rtrn THEN "IDLE" ELSE "KILL_MISS"

DCInit(tag0, idx0) ==
    /\ state_q = "IDLE"
    /\ address_tag_q = tag0
    /\ address_idx_q = idx0
    /\ rd_ack_q = FALSE

DCStep(in) ==
    /\ state_q' = state_d(in)
    /\ address_tag_q' = rd_tag_o(in)
    /\ address_idx_q' = IF data_gnt(in) THEN in.idx ELSE address_idx_q
    /\ rd_ack_q' = in.rd_ack
=============================================================================
