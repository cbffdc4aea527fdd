------------------------------ MODULE MissUnit ------------------------------
(***************************************************************************)
(* The miss unit of the write-through data cache (wt_dcache_missunit.sv):  *)
(* it arbitrates between the misses of the two read ports and the          *)
(* transactions of the write buffer, holds the one read miss in flight     *)
(* (MSHR), keeps reads and writes of a line apart, and drains the buffer   *)
(* before an atomic operation and before the cache is enabled.             *)
(*                                                                         *)
(* The cache has one set, so a flush takes one cycle.  flush_i is never    *)
(* raised in the write-through configuration (controller.sv:85, :103,      *)
(* :111), so the only flush is the one of reset and of enabling.           *)
(*                                                                         *)
(* The argument `in' of a step holds                                       *)
(*   miss_req, line, nc   requests of the ports, their lines               *)
(*   tx_lines             lines of the stores in flight (tx_paddr_i)       *)
(*   wbuffer_empty, enable_i, amo_req                                      *)
(*   repl_way             victim of an allocation                          *)
(*   mem_ack, rtrn        answers of the memory                            *)
(***************************************************************************)
EXTENDS CacheTypes

WritePort == 2
ReadPort == {0, 1}

VARIABLES state_q,
          enable_q,               \* the cache is enabled
          mshr_q,                 \* the read miss in flight
          mshr_vld_q,             \* there is one
          mshr_vld_q1,            \* there was one in the last cycle
          mshr_rdrd_collision_q,  \* ports whose request met the MSHR's line
          miss_req_masked_q       \* requests under arbitration, while locked

muVars == <<state_q, enable_q, mshr_q, mshr_vld_q, mshr_vld_q1,
          mshr_rdrd_collision_q, miss_req_masked_q>>

MUTypeOK ==
    /\ state_q \in {"IDLE", "DRAIN", "AMO", "FLUSH", "STORE_WAIT",
                    "LOAD_WAIT", "AMO_WAIT"}
    /\ enable_q \in BOOLEAN
    /\ mshr_q \in [line: Line \cup {NoLine}, nc: BOOLEAN, repl_way: Way, port: ReadPort]
    /\ mshr_vld_q \in BOOLEAN
    /\ mshr_vld_q1 \in BOOLEAN
    /\ mshr_rdrd_collision_q \in SUBSET ReadPort
    /\ miss_req_masked_q \in SUBSET (ReadPort \cup {WritePort})

-----------------------------------------------------------------------------
(* Answers of the memory: p_rtrn_logic *)

load_ack(in) == in.rtrn.type = "LOAD_ACK" /\ mshr_vld_q
amo_ack(in) == in.rtrn.type = "ATOMIC_ACK" /\ in.amo_req
miss_rtrn(in, p) == load_ack(in) /\ mshr_q.port = p

-----------------------------------------------------------------------------
(* Arbitration and collisions *)

lock_reqs == state_q \in {"STORE_WAIT", "LOAD_WAIT"}
mask_reads == mshr_vld_q \/ state_q = "DRAIN"

miss_req_masked(in) == IF lock_reqs THEN miss_req_masked_q
                       ELSE IF mask_reads THEN in.miss_req \cap {WritePort}
                       ELSE in.miss_req

\* The line port p asks for.
line(in, p) == in.line[p + 1]

requested(in) == miss_req_masked(in) # {}
port(in) == Min(miss_req_masked(in))

mshr_rdrd_collision_Mutant(in) == {}
mshr_rdrd_collision(in) ==
    {p \in in.miss_req \cap ReadPort :
        \/ p \in mshr_rdrd_collision_q
        \/ mshr_q.line = line(in, p) /\ (mshr_vld_q \/ mshr_vld_q1)}

mshr_rdwr_collision(in) == mshr_vld_q /\ mshr_q.line = line(in, WritePort)

tx_rdwr_collision_Mutant(in) == FALSE
tx_rdwr_collision(in) == line(in, port(in)) \in in.tx_lines

-----------------------------------------------------------------------------
(* p_fsm *)

start_flush(in) == in.enable_i /\ ~enable_q
serves(in) == state_q = "IDLE" /\ ~start_flush(in) /\ ~in.amo_req /\ requested(in)
drained_Mutant(in) == ~mshr_vld_q
drained(in) == in.wbuffer_empty /\ ~mshr_vld_q

\* A read miss at the head of the queue.
read_miss_Mutant(in) == serves(in) /\ (~mshr_vld_q \/ load_ack(in))
read_miss(in) == serves(in) /\ port(in) # WritePort /\ (~mshr_vld_q \/ load_ack(in))

miss_replay(in, p) == read_miss(in) /\ port(in) = p /\ p \in mshr_rdrd_collision(in)

load_req(in) == \/ /\ read_miss(in)
                   /\ port(in) \notin mshr_rdrd_collision(in)
                   /\ ~tx_rdwr_collision(in)
                \/ state_q = "LOAD_WAIT"

store_req(in) == \/ serves(in) /\ port(in) = WritePort /\ ~mshr_rdwr_collision(in)
                 \/ state_q = "STORE_WAIT"
                 \/ state_q = "DRAIN" /\ requested(in) /\ ~mshr_rdwr_collision(in)

atomic_req(in) == state_q = "AMO"

mem_data_req_o(in) == load_req(in) \/ store_req(in) \/ atomic_req(in)

miss_ack(in, p) == (load_req(in) \/ store_req(in)) /\ in.mem_ack /\ port(in) = p
mshr_allocate(in) == load_req(in) /\ in.mem_ack

state_d(in) ==
    CASE state_q = "IDLE" ->
            IF start_flush(in) THEN IF drained(in) THEN "FLUSH" ELSE "DRAIN"
            ELSE IF in.amo_req THEN IF drained(in) THEN "AMO" ELSE "DRAIN"
            ELSE IF store_req(in) /\ ~in.mem_ack THEN "STORE_WAIT"
            ELSE IF load_req(in) /\ ~in.mem_ack THEN "LOAD_WAIT"
            ELSE "IDLE"
      [] state_q \in {"STORE_WAIT", "LOAD_WAIT"} ->
            IF in.mem_ack THEN "IDLE" ELSE state_q
      [] state_q = "DRAIN" -> IF drained(in) THEN "IDLE" ELSE "DRAIN"
      [] state_q = "FLUSH" -> "IDLE"
      [] state_q = "AMO" -> IF in.mem_ack THEN "AMO_WAIT" ELSE "AMO"
      [] state_q = "AMO_WAIT" -> IF amo_ack(in) THEN "IDLE" ELSE "AMO_WAIT"

-----------------------------------------------------------------------------
(* Line writes *)

flush_en == state_q = "FLUSH"
inv_vld(in) == in.rtrn.type = "INV_REQ"
cl_write_en(in) == load_ack(in) /\ ~mshr_q.nc

wr_cl_we(in) == IF flush_en THEN Way
                ELSE IF inv_vld(in) THEN in.rtrn.ways
                ELSE IF cl_write_en(in) THEN {mshr_q.repl_way}
                ELSE {}
wr_vld_bits(in) == IF flush_en \/ inv_vld(in) THEN {} ELSE wr_cl_we(in)
wr_cl_vld(in) == load_ack(in) \/ wr_cl_we(in) # {}

-----------------------------------------------------------------------------

MUInit ==
    /\ state_q = "FLUSH"
    /\ enable_q = FALSE
    /\ mshr_q = [line |-> NoLine, nc |-> FALSE,
                 repl_way |-> Min(Way), port |-> 0]
    /\ mshr_vld_q = FALSE
    /\ mshr_vld_q1 = FALSE
    /\ mshr_rdrd_collision_q = {}
    /\ miss_req_masked_q = {}

enable_d(in) == IF flush_en THEN in.enable_i ELSE enable_q /\ in.enable_i

mshr_d(in) == IF mshr_allocate(in)
              THEN [line |-> line(in, port(in)), nc |-> in.nc[port(in) + 1],
                    repl_way |-> in.repl_way, port |-> port(in)]
              ELSE mshr_q
mshr_vld_d(in) == mshr_allocate(in) \/ (mshr_vld_q /\ ~load_ack(in))

\* miss_req_masked_q is kept only while a request waits for its ack.
MUStep(in) ==
    /\ state_q' = state_d(in)
    /\ enable_q' = enable_d(in)
    /\ mshr_q' = mshr_d(in)
    /\ mshr_vld_q' = mshr_vld_d(in)
    /\ mshr_vld_q1' = mshr_vld_q
    /\ mshr_rdrd_collision_q' = mshr_rdrd_collision(in)
    /\ miss_req_masked_q' = IF state_d(in) \in {"STORE_WAIT", "LOAD_WAIT"}
                            THEN miss_req_masked(in) ELSE {}
=============================================================================
