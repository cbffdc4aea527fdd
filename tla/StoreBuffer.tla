---------------------------- MODULE StoreBuffer ----------------------------
(***************************************************************************)
(* The store buffer of Ariane's load/store unit (store_buffer.sv): a       *)
(* speculative queue that holds executed stores until they commit, and a   *)
(* commit queue that holds committed stores until the data cache grants    *)
(* them.                                                                   *)
(*                                                                         *)
(* The module is the register-transfer view of one clock domain.  The      *)
(* variables are the flip-flops; core_if and store_if are the two          *)
(* always_comb blocks, each giving the next value of the registers it      *)
(* drives as a function of the inputs of the cycle.  The module has no     *)
(* next-state relation of its own: StoreUnit.tla clocks it.                *)
(*                                                                         *)
(* Data abstraction: address bits above the page are a member of Page,     *)
(* bits [11:3] a member of Offset, and data, byte enable and size together *)
(* a member of Data.                                                       *)
(***************************************************************************)
EXTENDS Integers

CONSTANTS DEPTH_SPEC,    \* entries of the speculative queue
          DEPTH_COMMIT,  \* entries of the commit queue
          Page,          \* address bits above the page offset
          Offset,        \* address bits [11:3]
          Data           \* write data, byte enable and size

\* A one-entry queue has a zero-bit pointer, so both depths are at least two.
ASSUME DepthAssumption ==
    /\ DEPTH_SPEC \in Nat /\ DEPTH_SPEC >= 2
    /\ DEPTH_COMMIT \in Nat /\ DEPTH_COMMIT >= 2

\* The pointers are $clog2(DEPTH) bits wide and wrap by overflowing, which is
\* a wrap at DEPTH only when DEPTH is a power of two.
ASSUME PowerOfTwoAssumption ==
    /\ \E k \in 1..8 : DEPTH_SPEC = 2^k
    /\ \E k \in 1..8 : DEPTH_COMMIT = 2^k

ASSUME StoreAssumption == Page # {} /\ Offset # {} /\ Data # {}

Store == [page : Page, off : Offset, data : Data]

VARIABLES speculative_queue_q, speculative_status_cnt_q,
          speculative_read_pointer_q, speculative_write_pointer_q,
          commit_queue_q, commit_status_cnt_q,
          commit_read_pointer_q, commit_write_pointer_q

specVars == <<speculative_queue_q, speculative_status_cnt_q,
              speculative_read_pointer_q, speculative_write_pointer_q>>
commitVars == <<commit_queue_q, commit_status_cnt_q,
                commit_read_pointer_q, commit_write_pointer_q>>
sbVars == <<specVars, commitVars>>

SpecIndex == 0 .. DEPTH_SPEC - 1
CommitIndex == 0 .. DEPTH_COMMIT - 1
Entry == [req : Store, valid : BOOLEAN]

\* Operators whose name ends in _Mutant are deliberately wrong variants of the
\* definition that follows them; no specification uses them.
Wrap_Mutant(x, n) == x

\* Overflow of a register that counts modulo n, for |x| < n steps past it.
Wrap(x, n) == IF x >= n THEN x - n ELSE IF x < 0 THEN x + n ELSE x

Bit(b) == IF b THEN 1 ELSE 0

Invalid_Mutant(e) == e
Invalid(e) == [req |-> e.req, valid |-> FALSE]

-----------------------------------------------------------------------------
(* Outputs *)

no_st_pending_o == commit_status_cnt_q = 0

store_buffer_empty_o == speculative_status_cnt_q = 0 /\ no_st_pending_o

\* The flag leaves one slot free for the store that is already in the second
\* stage of the store unit when the flag falls (the variant does not).
ready_o_Mutant(commit_i) == speculative_status_cnt_q < DEPTH_SPEC
ready_o(commit_i) == speculative_status_cnt_q < DEPTH_SPEC - 1 \/ commit_i

commit_ready_o == commit_status_cnt_q < DEPTH_COMMIT

data_req == commit_queue_q[commit_read_pointer_q].valid

data_out == commit_queue_q[commit_read_pointer_q].req

\* address_checker: some queued store, or the one in the second stage of the
\* store unit, lies at the page offset of a load.
page_offset_matches_o_Mutant(page_offset_i, valid_without_flush_i, off_i) ==
    \/ \E i \in CommitIndex : /\ commit_queue_q[i].valid
                              /\ commit_queue_q[i].req.off = page_offset_i
    \/ \E i \in SpecIndex : /\ speculative_queue_q[i].valid
                            /\ speculative_queue_q[i].req.off = page_offset_i
page_offset_matches_o(page_offset_i, valid_without_flush_i, off_i) ==
    \/ \E i \in CommitIndex : /\ commit_queue_q[i].valid
                              /\ commit_queue_q[i].req.off = page_offset_i
    \/ \E i \in SpecIndex : /\ speculative_queue_q[i].valid
                            /\ speculative_queue_q[i].req.off = page_offset_i
    \/ valid_without_flush_i /\ off_i = page_offset_i

-----------------------------------------------------------------------------
(* Registers *)

ResetEntry == [req |-> CHOOSE s \in Store : TRUE, valid |-> FALSE]

SBInit ==
    /\ speculative_queue_q = [i \in SpecIndex |-> ResetEntry]
    /\ speculative_status_cnt_q = 0
    /\ speculative_read_pointer_q = 0
    /\ speculative_write_pointer_q = 0
    /\ commit_queue_q = [i \in CommitIndex |-> ResetEntry]
    /\ commit_status_cnt_q = 0
    /\ commit_read_pointer_q = 0
    /\ commit_write_pointer_q = 0

\* always_comb core_if: push, then evict the committed head, then flush.  A
\* flush moves the write pointer back to the registered read pointer.
core_if(valid_i, req_i, commit_i, flush_i) ==
    LET pushed == IF valid_i
                    THEN [speculative_queue_q EXCEPT
                            ![speculative_write_pointer_q] =
                                [req |-> req_i, valid |-> TRUE]]
                    ELSE speculative_queue_q
        popped == IF commit_i
                    THEN [pushed EXCEPT ![speculative_read_pointer_q] = Invalid(@)]
                    ELSE pushed
    IN  /\ speculative_queue_q' =
              IF flush_i
                THEN [i \in SpecIndex |-> Invalid(popped[i])]
                ELSE popped
        /\ speculative_read_pointer_q' =
              Wrap(speculative_read_pointer_q + Bit(commit_i), DEPTH_SPEC)
        /\ speculative_write_pointer_q' =
              IF flush_i
                THEN speculative_read_pointer_q
                ELSE Wrap(speculative_write_pointer_q + Bit(valid_i), DEPTH_SPEC)
        /\ speculative_status_cnt_q' =
              IF flush_i
                THEN 0
                ELSE Wrap(speculative_status_cnt_q + Bit(valid_i) - Bit(commit_i),
                          2 * DEPTH_SPEC)

\* The entry that moves to the commit queue, and a variant that takes the one
\* "which was placed there most recently", as the comment on commit_i says.
committing_Mutant == speculative_queue_q[Wrap(speculative_write_pointer_q - 1, DEPTH_SPEC)]
committing == speculative_queue_q[speculative_read_pointer_q]

\* always_comb store_if: offer the head to the data cache, evict it when it
\* is granted, and take over the committed head of the speculative queue.
store_if(commit_i, data_gnt) ==
    LET evict == data_req /\ data_gnt
        drained == IF evict
                     THEN [commit_queue_q EXCEPT ![commit_read_pointer_q] = Invalid(@)]
                     ELSE commit_queue_q
    IN  /\ commit_queue_q' =
              IF commit_i
                THEN [drained EXCEPT ![commit_write_pointer_q] = committing]
                ELSE drained
        /\ commit_read_pointer_q' =
              Wrap(commit_read_pointer_q + Bit(evict), DEPTH_COMMIT)
        /\ commit_write_pointer_q' =
              Wrap(commit_write_pointer_q + Bit(commit_i), DEPTH_COMMIT)
        /\ commit_status_cnt_q' =
              Wrap(commit_status_cnt_q - Bit(evict) + Bit(commit_i),
                   2 * DEPTH_COMMIT)

SBStep(valid_i, req_i, commit_i, flush_i, data_gnt) ==
    /\ core_if(valid_i, req_i, commit_i, flush_i)
    /\ store_if(commit_i, data_gnt)
=============================================================================
