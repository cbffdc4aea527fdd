----------------------------- MODULE StoreUnit -----------------------------
(***************************************************************************)
(* The store unit (store_unit.sv): a two-stage pipeline in front of the    *)
(* store buffer and of the one-entry AMO buffer (amo_buffer.sv).  In the   *)
(* first stage a request is translated and checked for space; one cycle    *)
(* later, in state VALID_STORE, it is written to the buffer.  The store    *)
(* unit decides that there is space in one cycle and uses it in the next,  *)
(* while commits, grants and flushes go on.                                *)
(*                                                                         *)
(* One step of SUStep is one rising clock edge.  Its argument `in' holds   *)
(* the inputs of the cycle:                                                *)
(*   valid, ctrl      a request of the LSU and its store or AMO            *)
(*   hit, ex          answer of the MMU for this and for the last request  *)
(*   commit           commit_i: the store at the head becomes definite     *)
(*   amo_commit       amo_valid_commit_i: an AMO is in the commit stage    *)
(*   flush            flush_i: the pipeline is flushed                     *)
(*   gnt              the data cache takes the head of the commit queue    *)
(*   amo_ack          amo_resp_i.ack                                       *)
(***************************************************************************)
EXTENDS StoreBuffer

VARIABLES state_q,    \* state of the control FSM
          st_q,       \* second-stage request (st_data_q .. amo_op_q, paddr)
          amo_valid,  \* the AMO FIFO is full
          amo_data    \* its entry

suVars == <<state_q, st_q, amo_valid, amo_data>>
vars == <<sbVars, suVars>>

\* amo stands for amo_op_q # AMO_NONE; which AMO it is does not matter here.
Request == [req : Store, amo : BOOLEAN]

Input == [valid : BOOLEAN, ctrl : Request, hit : BOOLEAN, ex : BOOLEAN,
          commit : BOOLEAN, amo_commit : BOOLEAN, flush : BOOLEAN,
          gnt : BOOLEAN, amo_ack : BOOLEAN]

-----------------------------------------------------------------------------
(* Combinational signals *)

amo_ready == ~amo_valid

st_ready(in) == ready_o(in.commit) /\ amo_ready

\* An AMO waits until the second stage is free: the AMO FIFO has depth one.
starts(in) ==
    /\ in.valid
    /\ \/ state_q = "IDLE"
       \/ state_q = "VALID_STORE" /\ ~in.ctrl.amo

translation_req_o(in) ==
    starts(in) \/ state_q \in {"WAIT_STORE_READY", "WAIT_TRANSLATION"}

exception(in) == in.ex /\ state_q # "IDLE"

pop_st_o(in) == exception(in) \/ (starts(in) /\ in.hit /\ st_ready(in))

\* valid_o: the instruction in the second stage is done, or has trapped.
st_done(in) == exception(in) \/ state_q = "VALID_STORE"

st_valid_without_flush == state_q = "VALID_STORE"

st_valid(in) == st_valid_without_flush /\ ~in.flush /\ ~exception(in)

store_buffer_valid_Mutant(in) == st_valid(in)
store_buffer_valid(in) == st_valid(in) /\ ~st_q.amo

amo_buffer_valid(in) == st_valid(in) /\ st_q.amo

\* amo_req_o.req: an AMO goes to memory when it is in the commit stage and
\* every store before it has left the commit queue.
amo_req_Mutant(amo_commit) == amo_commit /\ amo_valid
amo_req(amo_commit) == no_st_pending_o /\ amo_commit /\ amo_valid

-----------------------------------------------------------------------------
(* Registers *)

SUInit ==
    /\ SBInit
    /\ state_q = "IDLE"
    /\ st_q = [req |-> ResetEntry.req, amo |-> FALSE]
    /\ amo_valid = FALSE
    /\ amo_data = ResetEntry.req

\* always_comb store_control, next state of the FSM.
store_control(in) ==
    state_q' =
        IF in.flush \/ exception(in) THEN "IDLE"
        ELSE IF starts(in)
               THEN IF ~st_ready(in) THEN "WAIT_STORE_READY"
                    ELSE IF ~in.hit THEN "WAIT_TRANSLATION"
                    ELSE "VALID_STORE"
        ELSE IF state_q = "WAIT_STORE_READY" /\ ~(st_ready(in) /\ in.hit)
               THEN "WAIT_STORE_READY"
        ELSE IF state_q = "WAIT_TRANSLATION" /\ ~in.hit
               THEN "WAIT_TRANSLATION"
        ELSE "IDLE"

\* The AMO FIFO: a flush empties it unless its AMO is in the commit stage.
amo_buffer(in) ==
    /\ amo_valid' =
          IF in.flush /\ ~in.amo_commit THEN FALSE
          ELSE IF amo_valid THEN ~in.amo_ack
          ELSE amo_buffer_valid(in)
    /\ amo_data' = IF amo_buffer_valid(in) /\ ~amo_valid THEN st_q.req ELSE amo_data

SUStep(in) ==
    /\ store_control(in)
    /\ st_q' = in.ctrl
    /\ amo_buffer(in)
    /\ SBStep(store_buffer_valid(in), st_q.req, in.commit, in.flush, in.gnt)

-----------------------------------------------------------------------------
(* The store unit on its own, under the contract of the commit stage: a     *)
(* commit is raised only for a store that is in the speculative queue, only *)
(* while commit_ready_o holds, and never together with a flush; an AMO is   *)
(* acknowledged only while it is requested.  Requests, translations,        *)
(* exceptions, flushes and grants come at any time.                         *)

CommitContract(in) ==
    /\ in.commit => /\ commit_ready_o
                    /\ speculative_status_cnt_q > 0
                    /\ ~in.flush
                    /\ ~in.amo_commit
    /\ in.amo_ack => amo_req(in.amo_commit)

SUNext == \E in \in Input : CommitContract(in) /\ SUStep(in)

SUSpec == SUInit /\ [][SUNext]_vars

-----------------------------------------------------------------------------
(* Properties *)

\* The type invariant.
TypeOK ==
    /\ speculative_queue_q \in [SpecIndex -> Entry]
    /\ speculative_status_cnt_q \in 0 .. 2 * DEPTH_SPEC - 1
    /\ speculative_read_pointer_q \in SpecIndex
    /\ speculative_write_pointer_q \in SpecIndex
    /\ commit_queue_q \in [CommitIndex -> Entry]
    /\ commit_status_cnt_q \in 0 .. 2 * DEPTH_COMMIT - 1
    /\ commit_read_pointer_q \in CommitIndex
    /\ commit_write_pointer_q \in CommitIndex
    /\ state_q \in {"IDLE", "VALID_STORE", "WAIT_TRANSLATION", "WAIT_STORE_READY"}
    /\ st_q \in Request
    /\ amo_valid \in BOOLEAN
    /\ amo_data \in Store

\* Slot i is one of the cnt slots that follow the read pointer of a ring of n.
InWindow(i, rd, cnt, n) == Wrap(i - rd, n) < cnt

\* Counter, pointers and valid bits of a ring agree: the valid bits mark
\* exactly the slots from the read pointer up to the write pointer.
RingOK(queue, rd, wr, cnt, n) ==
    /\ cnt <= n
    /\ wr = Wrap(rd + cnt, n)
    /\ \A i \in 0 .. n - 1 : queue[i].valid <=> InWindow(i, rd, cnt, n)

\* Both rings of the store buffer are consistent.  The issue logic of
\* store_if looks at a valid bit, commit_ready_o at the counter and core_if
\* at the pointers; were they to disagree, a committed store would be
\* overwritten or never offered to the cache.
RingsConsistent ==
    /\ RingOK(speculative_queue_q, speculative_read_pointer_q,
              speculative_write_pointer_q, speculative_status_cnt_q, DEPTH_SPEC)
    /\ RingOK(commit_queue_q, commit_read_pointer_q,
              commit_write_pointer_q, commit_status_cnt_q, DEPTH_COMMIT)

\* Assertion speculative_buffer_overflow of store_buffer.sv and full_write of
\* the AMO FIFO: what is in the second stage of the store unit always has a
\* free slot waiting, although the slot was granted a cycle earlier.
SecondStageHasRoom ==
    state_q = "VALID_STORE" =>
        IF st_q.amo THEN ~amo_valid
                    ELSE speculative_status_cnt_q < DEPTH_SPEC

\* The stores of a ring from the read pointer on, as a sequence.
RingContents(queue, rd, cnt, n) ==
    [k \in 1 .. cnt |-> queue[Wrap(rd + k - 1, n)].req]

Queue == INSTANCE StoreQueue WITH
    SPEC_CAPACITY <- DEPTH_SPEC,
    COMMIT_CAPACITY <- DEPTH_COMMIT,
    speculative <- RingContents(speculative_queue_q, speculative_read_pointer_q,
                                speculative_status_cnt_q, DEPTH_SPEC),
    committed <- RingContents(commit_queue_q, commit_read_pointer_q,
                              commit_status_cnt_q, DEPTH_COMMIT)

\* The rings implement the two FIFO queues of StoreQueue: stores commit in
\* program order, reach the cache in that order, each exactly once, and a
\* flush drops the uncommitted ones only.
ImplementsStoreQueue == Queue!Spec
=============================================================================
