------------------------------- MODULE DCache -------------------------------
(***************************************************************************)
(* The write-through data cache (wt_dcache.sv): two read ports (0 of the   *)
(* page table walker, 1 of the load unit), the write buffer that the       *)
(* stores go through, the miss unit and the memories, wired together and   *)
(* stepped by one clock, with the core in front and the memory behind.     *)
(*                                                                         *)
(* Every place that can hold a byte of a line (memory, transaction in      *)
(* flight, way, read-out, buffer entry) holds the set of the bytes whose   *)
(* value is the one stored last; a store that is granted removes its bytes *)
(* everywhere but in the write buffer.                                     *)
(*                                                                         *)
(* External: the memory takes a request when it likes, answers when it     *)
(* likes and in any order, and invalidates any way at any time.  A load    *)
(* reads it when it is taken, a store is performed when it is answered,    *)
(* which is as early and as late as can be.  The line of an atomic is      *)
(* invalidated before it is answered, as the L1.5 cache does.              *)
(***************************************************************************)
EXTENDS WBuffer, MissUnit, DCacheMem, TLC

CONSTANTS StoreBytes,    \* the blocks of bytes a store writes
          Uncached,      \* lines outside the cacheable regions
          MAX_OPS        \* bound: what the core and the memory begin

ASSUME DCacheAssumption ==
    /\ StoreBytes \subseteq SUBSET Byte
    /\ Uncached \subseteq Line
    /\ MAX_OPS \in Nat

VARIABLES ports,      \* registers of the read port controllers
          memory,     \* bytes of each line that hold the last value
          stores,     \* stores in flight
          load,       \* bytes of the load in flight that hold the last value
          amo,        \* {} or the line of the atomic at the head of the core
          rdata,      \* bytes of the last answers that hold the last value
          enable,     \* enable bit of the cache in the CSR file
          left        \* what the core and the memory may still begin

P(p) == INSTANCE DCtrl WITH
            Tag <- Line, Index <- {0}, address_idx_q <- 0,
            state_q <- ports[p].state, address_tag_q <- ports[p].tag,
            rd_ack_q <- ports[p].rd_ack

cacheVars == <<wbVars, muVars, dmVars>>
memVars == <<memory, stores, load>>
vars == <<ports, cacheVars, memVars, amo, rdata, enable, left>>

-----------------------------------------------------------------------------
(* External: messages of the memory *)

NoMessage == [type |-> "NONE"]

Messages ==
    {NoMessage}
        \cup (IF mshr_vld_q THEN {[type |-> "LOAD_ACK"]} ELSE {})
        \cup {[type |-> "STORE_ACK", tid |-> s.tid] : s \in stores}
        \cup {[type |-> "ATOMIC_ACK"] : l \in
                {l \in amo : state_q = "AMO_WAIT" /\ \A w \in Way : ways[w].tag # l}}
        \cup (IF left = 0 THEN {}
              ELSE {[type |-> "INV_REQ", ways |-> W] : W \in {{w} : w \in Way} \cup {Way}})

-----------------------------------------------------------------------------
(* Wiring: the inputs of the components in a cycle.  `core' holds what the *)
(* core asks for, `mem' what the memory answers, `arb' the choices of the  *)
(* arbiters and of the replacement.                                        *)

\* Read ports that take a request, that wait for its tag, that miss.
Accepting == {p \in ReadPort : ports[p].state \in {"IDLE", "READ", "REPLAY_READ"}}
Reading == {p \in ReadPort : ports[p].state = "READ"}
Missing == {p \in ReadPort : P(p)!miss_req_o}

is_nc(l) == ~enable_q \/ l \in Uncached

acked(mem) == {s \in stores : mem.rtrn.type = "STORE_ACK" /\ s.tid = mem.rtrn.tid}

MissUnitIn(core, mem, arb) ==
    [miss_req |-> Missing
                      \cup (IF miss_req_o THEN {2} ELSE {}),
     line |-> <<ports[0].tag, ports[1].tag, wbuffer_q[arb.dirty_ptr].line>>,
     nc |-> <<is_nc(ports[0].tag), is_nc(ports[1].tag), nc_pending_q>>,
     tx_lines |-> tx_lines, wbuffer_empty |-> empty_o,
     enable_i |-> enable, amo_req |-> amo # {},
     repl_way |-> arb.way, mem_ack |-> mem.ack, rtrn |-> mem.rtrn]

\* Arbitration for the memories of the cache.
MemArbitration(arb, mu) ==
    [rd_sel |-> arb.rd_sel, wr_cl_vld |-> wr_cl_vld(mu),
     wr_cl_we |-> wr_cl_we(mu), wr_req |-> wr_req_o]

WBufferIn(core, mem, arb, mu, wr) ==
    [store |-> core.store, dirty_ptr |-> arb.dirty_ptr, check_ptr |-> arb.check_ptr,
     miss_ack |-> miss_ack(mu, 2), rtrn |-> {s.tid : s \in acked(mem)},
     rd_ack |-> rd_ack(wr, 2),
     rd_hit_oh |-> UNION {rd_hit_oh(c.tag) : c \in check_q},
     wr_cl_vld |-> wr.wr_cl_vld, wr_ack |-> wr_ack(wr)]

DCacheMemIn(mu, wr, new) ==
    [rd_sel |-> wr.rd_sel, wr_cl_vld |-> wr.wr_cl_vld, wr_cl_we |-> wr.wr_cl_we,
     wr_vld_bits |-> wr_vld_bits(mu),
     wr_cl |-> [tag |-> mshr_q.line, data |-> load],
     wr_req |-> wr.wr_req, new |-> new,
     wr_data_be |-> IF wr.wr_req = {} THEN {} ELSE wr_data_be,
     wr_data |-> IF wr.wr_req = {} THEN {} ELSE wr_data]

\* The line port p compares with in this cycle.
rd_line(core, p) == IF ports[p].state = "READ" THEN core.tag ELSE ports[p].tag

DCtrlIn(core, mu, wr, p) ==
    [data_req |-> p \in core.req, idx |-> 0, tag_valid |-> TRUE, tag |-> core.tag,
     kill |-> core.kill /\ p = 1, rd_ack |-> rd_ack(wr, p),
     wr_cl_vld |-> wr.wr_cl_vld,
     hit |-> enable_q /\ rd_hit_oh(rd_line(core, p)) # {},
     miss_ack |-> miss_ack(mu, p), miss_replay |-> miss_replay(mu, p),
     miss_rtrn |-> miss_rtrn(mu, p)]

-----------------------------------------------------------------------------
(* What a cycle does to the state that is not in WB, MU or DM *)

\* A register of a port that its next state does not read is reset.
port_d(in, p) ==
    LET state == P(p)!state_d(in) IN
    [state |-> state,
     tag |-> IF state \in {"IDLE", "READ", "MISS_WAIT", "KILL_MISS"}
             THEN NoLine ELSE P(p)!rd_tag_o(in),
     rd_ack |-> state \in {"READ", "REPLAY_READ"} /\ in.rd_ack]

\* The bytes of an answer to port p that hold the last value; all of them
\* if there is none, or if the load was killed.
rdata_d(core, in, p) ==
    IF in.kill \/ ~P(p)!data_rvalid(in) THEN Byte
    ELSE IF in.miss_rtrn THEN overlay(mshr_q.line, load)
    ELSE LET l == rd_line(core, p) IN overlay(l, rd_data(l))

\* External: a store is performed when it is answered.
memory_d(mem, new) ==
    [l \in Line |->
        LET done == {s \in acked(mem) : s.line = l}
        IN  ((memory[l] \ UNION {s.be : s \in done}) \cup UNION {s.data : s \in done})
                \ stored(new, l)]

stores_d(mem, arb, wb, new) ==
    LET e == wbuffer_q[arb.dirty_ptr]
        be == tx_be(arb.dirty_ptr)
        sent == IF dirty_rd_en(wb)
                THEN {[tid |-> tx_id, line |-> e.line, be |-> be,
                       data |-> e.data \cap be]}
                ELSE {}
    IN  {[s EXCEPT !.data = @ \ stored(new, s.line)] :
            s \in (stores \ acked(mem)) \cup sent}

\* External: a load reads the memory when it is taken.
load_d(mu, new) ==
    IF mshr_allocate(mu)
    THEN LET l == line(mu, port(mu)) IN memory[l] \ stored(new, l)
    ELSE IF mshr_vld_q /\ ~load_ack(mu)
    THEN load \ stored(new, mshr_q.line)
    ELSE {}

\* One clock cycle.  The signals are bound by \E, each to its one value.
Cycle(core, mem, arb) ==
    \E mu \in {MissUnitIn(core, mem, arb)} :
    /\ mem.ack => mem_data_req_o(mu)
    /\ arb.way # Min(Way) => mshr_allocate(mu)
    /\ \E wr \in {MemArbitration(arb, mu)} :
       \E wb \in {WBufferIn(core, mem, arb, mu, wr)} :
       \E new \in {granted(wb)},
          in \in {[p \in ReadPort |-> DCtrlIn(core, mu, wr, p)]} :
       \E dm \in {DCacheMemIn(mu, wr, new)} :
         /\ WBStep(wb)
         /\ MUStep(mu)
         /\ DMStep(dm)
         /\ ports' = [p \in ReadPort |-> port_d(in[p], p)]
         /\ rdata' = [p \in ReadPort |-> rdata_d(core, in[p], p)]
         /\ memory' = memory_d(mem, new)
         /\ stores' = stores_d(mem, arb, wb, new)
         /\ load' = load_d(mu, new)
         /\ amo' = IF amo_ack(mu) THEN {} ELSE amo
         /\ \E begun \in {Cardinality(new) + Cardinality(
                              {p \in ReadPort : P(p)!data_gnt(in[p])})
                            + (IF mem.rtrn.type = "INV_REQ" THEN 1 ELSE 0)} :
              begun <= left /\ left' = left - begun
         /\ UNCHANGED enable

-----------------------------------------------------------------------------

Init ==
    /\ ports = [p \in ReadPort |-> [state |-> "IDLE", tag |-> NoLine, rd_ack |-> FALSE]]
    /\ WBInit
    /\ MUInit
    /\ DMInit
    /\ memory = [l \in Line |-> Byte]
    /\ stores = {}
    /\ load = {}
    /\ amo = {}
    /\ rdata = [p \in ReadPort |-> Byte]
    /\ enable = TRUE
    /\ left = MAX_OPS

\* The stores the core may request.
StoreChoices == {[line |-> l, be |-> be, nc |-> is_nc(l)] :
                    l \in {m \in Line : rdy(m)}, be \in StoreBytes}

\* What the core may do: request a read, send the tag of one, kill one,
\* request a store (none follows an atomic that is not answered).
CoreChoices ==
    [req: {R \in SUBSET Accepting : Cardinality(R) <= left},
     tag: IF Reading = {} THEN {NoLine} ELSE Line,
     kill: IF ports[1].state \in {"IDLE", "KILL_MISS", "KILL_MISS_ACK"}
           THEN {FALSE} ELSE BOOLEAN,
     store: {{}} \cup
            (IF left = 0 \/ amo # {} THEN {}
             ELSE {{s} : s \in StoreChoices})]

\* External: what the memory may do.
MemoryChoices ==
    [rtrn: Messages,
     ack: IF Missing = {} /\ ~miss_req_o /\ state_q # "AMO" THEN {FALSE} ELSE BOOLEAN]

\* The choices of the arbiters.
ArbiterChoices(req) ==
    [rd_sel: rd_choices({p \in ReadPort : P(p)!rd_req_o([data_req |-> p \in req])}
                            \cup (IF tocheck = {} THEN {} ELSE {2})),
     dirty_ptr: dirty_choices, check_ptr: check_choices,
     way: IF Missing = {} THEN {Min(Way)} ELSE Way]

Clock ==
    \E core \in CoreChoices, mem \in MemoryChoices :
    \E arb \in ArbiterChoices(core.req) : Cycle(core, mem, arb)

\* An atomic operation reaches the head of the core: all older stores have
\* been granted and none follows before it is answered.
Atomic ==
    /\ amo = {}
    /\ left > 0
    /\ \E l \in Line : amo' = {l}
    /\ left' = left - 1
    /\ rdata' = [p \in ReadPort |-> Byte]
    /\ UNCHANGED <<ports, cacheVars, memVars, enable>>

\* The core disables or enables the cache.
WriteCsr ==
    /\ left > 0
    /\ enable' = ~enable
    /\ left' = left - 1
    /\ rdata' = [p \in ReadPort |-> Byte]
    /\ UNCHANGED <<ports, cacheVars, memVars, amo>>

Next == Clock \/ Atomic \/ WriteCsr

Symmetry == Permutations(Line)

Spec == Init /\ [][Next]_vars

-----------------------------------------------------------------------------

(* Properties *)

\* The type invariant.  Besides the shape of the state it says that only a
\* read port ever owns the MSHR and that no more transactions are answered
\* than the buffer can hold.
DCacheTypeOK ==
    /\ ports \in [ReadPort -> [state: P(0)!State, tag: Line \cup {NoLine}, rd_ack: BOOLEAN]]
    /\ WBTypeOK /\ MUTypeOK /\ DMTypeOK
    /\ Len(rtrn_fifo) <= MAX_TX
    /\ memory \in [Line -> SUBSET Byte]
    /\ stores \subseteq [tid: TxId, line: Line, be: SUBSET Byte, data: SUBSET Byte]
    /\ load \subseteq Byte
    /\ amo \in SUBSET Line
    /\ rdata \in [ReadPort -> SUBSET Byte]

\* A read of the core that is answered returns, byte by byte, the value of the
\* last store that was granted, wherever it is: in the write buffer, in
\* flight, in a way, or in memory.  The overlay of the buffer is read in the
\* cycle of the answer, the ways a cycle and the memory many cycles earlier;
\* collisions between reads and stores in flight are what keeps them together.
ReadsReturnLastStore == \A p \in ReadPort : rdata[p] = Byte

\* What the write buffer believes about the cache is true: an entry marked
\* checked knows exactly the ways that hold its line, although the tags were
\* read two cycles before and lines are filled and invalidated meanwhile
\* (inval_hit of wt_dcache_wbuffer.sv).
CheckedEntryKnowsItsWays ==
    \A k \in Slot : wbuffer_q[k].checked =>
        wbuffer_q[k].hit_oh = {w \in Way : ways[w].tag = wbuffer_q[k].line}

\* A line is never in two ways: a miss that was pending while the same line
\* was filled for the other port is replayed, not sent.
LineInOneWay ==
    state_q # "FLUSH" =>
        \A v, w \in Way : v # w /\ ways[v].tag # NoLine => ways[v].tag # ways[w].tag

\* The last store to a byte is in memory or still in the buffer: transactions
\* that overtake each other in the memory system never leave an older value
\* behind, and an entry is not dropped for the answer to an older transaction.
LastStoreSurvives ==
    \A l \in Line : \A b \in Byte :
        \/ b \in memory[l]
        \/ \E k \in Slot : wbuffer_q[k].line = l /\ b \in wbuffer_q[k].valid
                                                    /\ b \in wbuffer_q[k].data

\* An atomic operation, which works on the memory, is sent only when every
\* store before it is there: the miss unit drains the buffer first.
AtomicSeesAllStores ==
    state_q \in {"AMO", "AMO_WAIT"} => \A l \in amo : memory[l] = Byte

\* The table of transactions and the entries agree: a byte of an entry is to
\* be sent or in flight, it is blocked exactly while a transaction covers it,
\* and what the memory has yet to answer has a valid record.
TransactionsMatchEntries ==
    /\ \A k \in Slot :
          LET e == wbuffer_q[k] IN
          /\ e.valid = e.dirty \cup e.txblock
          /\ e.txblock = UNION {tx_stat_q[t].be :
                                  t \in {t \in tx_vld : tx_stat_q[t].ptr = k}}
    /\ \A s \in stores : tx_stat_q[s.tid].vld
=============================================================================
