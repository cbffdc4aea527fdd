----------------------------- MODULE DCacheMem -----------------------------
(***************************************************************************)
(* The memories of the write-through data cache (wt_dcache_mem.sv): tags   *)
(* and data of one set, the arbitration of the three read ports, of line   *)
(* writes and of word writes, and the registered read-out that the tag of  *)
(* the next cycle is compared with.  Port 2, of the write buffer, only     *)
(* reads tags and gives way to the others.                                 *)
(*                                                                         *)
(* The argument `in' of a step holds                                       *)
(*   rd_req, rd_sel     the ports that read, the one the arbiter takes     *)
(*   wr_cl_vld, wr_cl_we, wr_vld_bits, wr_cl   line write                  *)
(*   wr_req, wr_data_be, wr_data               word write                  *)
(*   new                the store that is granted in this cycle            *)
(***************************************************************************)
EXTENDS CacheTypes

VARIABLES ways,   \* the set: tag and data of each way
          rd_q    \* read-out of the last cycle and the port it is for

dmVars == <<ways, rd_q>>

WayState == [tag: Line \cup {NoLine}, data: SUBSET Byte]
EmptyWay == [tag |-> NoLine, data |-> {}]
NoRead == [port |-> 3, set |-> [w \in Way |-> EmptyWay]]

DMTypeOK ==
    /\ ways \in [Way -> WayState]
    /\ rd_q \in [port: 0 .. 3, set: [Way -> WayState]]

-----------------------------------------------------------------------------

\* The read ports the arbiter chooses from.
rd_req_masked(rd_req) == IF rd_req \cap {0, 1} # {} THEN rd_req \cap {0, 1} ELSE rd_req
rd_choices(rd_req) == IF rd_req = {} THEN {3} ELSE rd_req_masked(rd_req)

rd_ack(in, p) == in.rd_sel = p /\ ~in.wr_cl_vld

\* A word write gives way to a line write and to a read of the data.
wr_ack(in) == /\ in.wr_req # {}
              /\ in.wr_cl_we = {}
              /\ ~(rd_ack(in, 0) \/ rd_ack(in, 1))

\* Comparison of the read-out with the tag of the port that read.
rd_hit_oh(l) == {w \in Way : rd_q.set[w].tag = l}
rd_data(l) == rd_q.set[Min(rd_hit_oh(l))].data

way_d(in, w) ==
    LET s == ways[w]
        data == IF w \in in.wr_req /\ wr_ack(in)
                THEN (s.data \ in.wr_data_be) \cup (in.wr_data \cap in.wr_data_be)
                ELSE s.data
    IN  IF w \in in.wr_cl_we
        THEN IF w \in in.wr_vld_bits
             THEN [in.wr_cl EXCEPT !.data = @ \ stored(in.new, in.wr_cl.tag)]
             ELSE EmptyWay
        ELSE IF s.tag = NoLine THEN EmptyWay
        ELSE [tag |-> s.tag, data |-> data \ stored(in.new, s.tag)]

\* The memories are not reset: they hold anything until they are flushed.
DMInit ==
    /\ ways \in [Way -> [tag: Line \cup {NoLine}, data: {{}}]]
    /\ rd_q = NoRead

DMStep(in) ==
    /\ ways' = [w \in Way |-> way_d(in, w)]
    /\ rd_q' = IF \E p \in 0 .. 2 : rd_ack(in, p)
               THEN [port |-> in.rd_sel,
                     set |-> [w \in Way |->
                         IF in.rd_sel = 2 \/ ways[w].tag = NoLine
                         THEN [ways[w] EXCEPT !.data = {}]
                         ELSE [ways[w] EXCEPT !.data = @ \ stored(in.new, ways[w].tag)]]]
               ELSE NoRead
=============================================================================
