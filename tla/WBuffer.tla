------------------------------ MODULE WBuffer ------------------------------
(***************************************************************************)
(* The coalescing write buffer of the write-through data cache             *)
(* (wt_dcache_wbuffer.sv).  A store is granted into an entry (one entry    *)
(* per word), sent to the memory byte block by byte block, and kept until  *)
(* the memory has answered and the cached copy of the line, if there is    *)
(* one, is updated.  To know the way to update, the buffer looks the tags  *)
(* up; the result comes back two cycles later and is void as soon as any   *)
(* line of the set is written.                                             *)
(*                                                                         *)
(* The argument `in' of a step holds                                       *)
(*   store            {} or {[line, be, nc]}, the request of the core      *)
(*   dirty_ptr, check_ptr  choices of the two round-robin arbiters         *)
(*   miss_ack         the memory takes the transaction that is offered     *)
(*   rtrn             the transactions answered in this cycle              *)
(*   rd_ack, rd_hit_oh  grant of a tag read, result of the last one        *)
(*   wr_cl_vld, wr_ack  a line is written, the word write is granted       *)
(***************************************************************************)
EXTENDS CacheTypes

Slot == 0 .. DEPTH - 1
TxId == 0 .. MAX_TX - 1

VARIABLES wbuffer_q,     \* the entries
          tx_stat_q,     \* [TxId -> transaction in flight]
          rtrn_fifo,     \* answered transactions, i_rtrn_id_fifo
          check_q,       \* tag read of the last cycle (check_en_q, rd_tag_q)
          check_q1,      \* and of the one before, with its result
          wr_cl_vld_q,   \* a line was written in the last cycle
          nc_pending_q,  \* the buffered store is not cacheable
          dirty_lock     \* the entry offered and not yet taken (LockIn)

wbVars == <<wbuffer_q, tx_stat_q, rtrn_fifo, check_q, check_q1, wr_cl_vld_q,
          nc_pending_q, dirty_lock>>

Entry == [line: Line \cup {NoLine}, valid: SUBSET Byte, dirty: SUBSET Byte,
          txblock: SUBSET Byte, data: SUBSET Byte, checked: BOOLEAN,
          hit_oh: SUBSET Way]
Tx == [vld: BOOLEAN, ptr: Slot, be: SUBSET Byte]

AtMostOne(S) == {T \in SUBSET S : \A x, y \in T : x = y}

WBTypeOK ==
    /\ wbuffer_q \in [Slot -> Entry]
    /\ tx_stat_q \in [TxId -> Tx]
    /\ rtrn_fifo \in Seq(TxId)
    /\ check_q \in AtMostOne([ptr: Slot, tag: Line])
    /\ check_q1 \in AtMostOne([ptr: Slot, hit_oh: SUBSET Way])
    /\ wr_cl_vld_q \in BOOLEAN
    /\ nc_pending_q \in BOOLEAN
    /\ dirty_lock \in AtMostOne(Slot)

-----------------------------------------------------------------------------
(* Status of the entries *)

valid(k) == wbuffer_q[k].valid # {}
empty_o == \A k \in Slot : ~valid(k)

\* The bytes of an entry that may be sent.
bdirty_Mutant(k) == wbuffer_q[k].dirty \cap wbuffer_q[k].valid
bdirty(k) == IF wbuffer_q[k].txblock # {} THEN {}
             ELSE wbuffer_q[k].dirty \cap wbuffer_q[k].valid

dirty == {k \in Slot : bdirty(k) # {}}
tocheck == {k \in Slot : valid(k) /\ ~wbuffer_q[k].checked}
wbuffer_hit(l) == {k \in Slot : valid(k) /\ wbuffer_q[k].line = l}

\* The entry whose bytes a read of line l is overlaid with.
overlay(l, word) ==
    LET hit == wbuffer_hit(l) IN
    IF hit = {} THEN word
    ELSE LET e == wbuffer_q[Min(hit)]
         IN  (e.data \cap e.valid) \cup (word \ e.valid)

-----------------------------------------------------------------------------
(* Transactions *)

tx_vld == {t \in TxId : tx_stat_q[t].vld}
tx_lines == {wbuffer_q[tx_stat_q[t].ptr].line : t \in tx_vld}
free_tx_slots == TxId \ tx_vld

\* Ids are interchangeable, so the arbiter among the free ones is left out.
tx_id == Min(free_tx_slots)

miss_req_o == dirty # {} /\ free_tx_slots # {}

\* The choices of the two arbiters; an entry on offer stays on offer.
dirty_choices == IF dirty = {} THEN {0}
                 ELSE IF dirty_lock # {} THEN dirty_lock ELSE dirty
check_choices == IF tocheck = {} THEN {0} ELSE tocheck

\* Only aligned blocks of a power of two bytes are sent as a whole.
aligned(be) == \E n \in {1, 2, 4, 8} :
                   /\ Cardinality(be) = n
                   /\ \A b, c \in be : b \div n = c \div n
tx_be(k) == IF aligned(bdirty(k)) THEN bdirty(k) ELSE {Min(bdirty(k))}

dirty_rd_en(in) == miss_req_o /\ in.miss_ack

-----------------------------------------------------------------------------
(* p_tx_stat: a transaction that was answered leaves the buffer *)

rtrn_id == Head(rtrn_fifo)
rtrn_ptr == tx_stat_q[rtrn_id].ptr
wr_data_be == tx_stat_q[rtrn_id].be \ wbuffer_q[rtrn_ptr].dirty
wr_data == wbuffer_q[rtrn_ptr].data

returned == rtrn_fifo # <<>> /\ wbuffer_q[rtrn_ptr].checked

wr_req_o == IF returned /\ wr_data_be # {} THEN wbuffer_q[rtrn_ptr].hit_oh ELSE {}

evict(in) == returned /\ (wr_req_o # {} => in.wr_ack)

tx_stat_d(in) ==
    [t \in TxId |->
        IF dirty_rd_en(in) /\ t = tx_id
        THEN [vld |-> TRUE, ptr |-> in.dirty_ptr, be |-> tx_be(in.dirty_ptr)]
        ELSE IF evict(in) /\ t = rtrn_id
        THEN [vld |-> FALSE, ptr |-> 0, be |-> {}]
        ELSE tx_stat_q[t]]

-----------------------------------------------------------------------------
(* p_buffer *)

full == \A k \in Slot : valid(k)
rdy(l) == wbuffer_hit(l) # {} \/ ~full
wr_ptr(l) == IF wbuffer_hit(l) # {} THEN Min(wbuffer_hit(l))
             ELSE Min({k \in Slot : ~valid(k)})

\* The store that is granted: {} or {in.store}.
granted(in) == {s \in in.store : rdy(s.line) /\ (empty_o \/ ~(s.nc \/ nc_pending_q))}

inval_hit_Mutant(in, k) == valid(k) /\ in.wr_cl_vld
inval_hit(in, k) == valid(k) /\ (in.wr_cl_vld \/ wr_cl_vld_q)

EmptyEntry == [line |-> NoLine, valid |-> {}, dirty |-> {},
               txblock |-> {}, data |-> {}, checked |-> FALSE, hit_oh |-> {}]

entry_d(in, k) ==
    LET e == wbuffer_q[k]
        result == {c \in check_q1 : c.ptr = k /\ valid(k)}
        gone == IF evict(in) /\ k = rtrn_ptr THEN tx_stat_q[rtrn_id].be ELSE {}
        sent == IF dirty_rd_en(in) /\ k = in.dirty_ptr THEN tx_be(k) ELSE {}
        all == granted(in)
        new == {s \in all : wr_ptr(s.line) = k}
        be == UNION {s.be : s \in new}
        left == e.valid \ (gone \ e.dirty)
        line == IF new = {} THEN e.line ELSE (CHOOSE s \in new : TRUE).line
    IN  IF left \cup be = {} THEN EmptyEntry
        ELSE [line |-> line,
              valid |-> left \cup be,
              dirty |-> (e.dirty \ sent) \cup be,
              txblock |-> (e.txblock \ gone) \cup sent,
              data |-> ((e.data \cap left) \ stored(all, line)) \cup be,
              checked |-> /\ e.checked \/ result # {}
                          /\ ~inval_hit(in, k)
                          /\ new = {},
              hit_oh |-> IF result = {} THEN e.hit_oh
                         ELSE (CHOOSE c \in result : TRUE).hit_oh]

-----------------------------------------------------------------------------

WBInit ==
    /\ wbuffer_q = [k \in Slot |-> EmptyEntry]
    /\ tx_stat_q = [t \in TxId |-> [vld |-> FALSE, ptr |-> 0, be |-> {}]]
    /\ rtrn_fifo = <<>>
    /\ check_q = {}
    /\ check_q1 = {}
    /\ wr_cl_vld_q = FALSE
    /\ nc_pending_q = FALSE
    /\ dirty_lock = {}

WBStep(in) ==
    /\ wbuffer_q' = [k \in Slot |-> entry_d(in, k)]
    /\ tx_stat_q' = tx_stat_d(in)
    /\ rtrn_fifo' = (IF evict(in) THEN Tail(rtrn_fifo) ELSE rtrn_fifo)
                        \o (IF in.rtrn = {} THEN <<>> ELSE <<Min(in.rtrn)>>)
    /\ check_q' = IF tocheck # {} /\ in.rd_ack
                  THEN {[ptr |-> in.check_ptr, tag |-> wbuffer_q[in.check_ptr].line]}
                  ELSE {}
    /\ check_q1' = {[ptr |-> c.ptr, hit_oh |-> in.rd_hit_oh] : c \in check_q}
    /\ wr_cl_vld_q' = in.wr_cl_vld
    /\ nc_pending_q' = IF granted(in) = {} THEN nc_pending_q
                       ELSE \E s \in granted(in) : s.nc
    /\ dirty_lock' = IF dirty # {} /\ ~dirty_rd_en(in) THEN {in.dirty_ptr} ELSE {}
=============================================================================
