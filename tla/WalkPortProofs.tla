--------------------------- MODULE WalkPortProofs ---------------------------
(***************************************************************************)
(* Proofs about the page table walker and its cache port, for every page   *)
(* table, number of levels and distance of flushes, provided that no flush *)
(* comes in WAIT_RVALID (the case of run walk_flush, in which they fail).  *)
(***************************************************************************)
EXTENDS WalkPort, TLAPS

\* The states the port takes when nobody kills its reads.
PortTypes ==
    /\ ptw_state_q \in {"IDLE", "WAIT_GRANT", "PTE_LOOKUP", "WAIT_RVALID", "PROPAGATE_ERROR"}
    /\ dc_state_q \in {"IDLE", "READ", "REPLAY_READ", "REPLAY_REQ", "MISS_REQ", "MISS_WAIT"}
    /\ tag_valid_q \in BOOLEAN /\ data_rvalid_q \in BOOLEAN /\ rd_ack_q \in BOOLEAN

\* The tag follows the grant: a first read always has it, nothing else does.
TagFollows == tag_valid_q <=> dc_state_q = "READ"

\* A walker that waits for an answer is owed exactly one, by the port or by the
\* register behind it; any other is owed none.
Waiting == ptw_state_q \in {"PTE_LOOKUP", "WAIT_RVALID"}
OneAnswer ==
    /\ Waiting => (data_rvalid_q <=> dc_state_q = "IDLE")
    /\ ~Waiting => ~data_rvalid_q /\ dc_state_q = "IDLE"

\* The read of a walk under way has the walk's address, tag and index.
OwnAddress ==
    ptw_state_q = "PTE_LOOKUP" =>
        /\ dc_state_q # "IDLE" => address_idx_q = ptw_pptr
        /\ dc_state_q \notin {"IDLE", "READ"} => address_tag_q = ptw_pptr
        /\ data_rvalid_q => data_rdata_q = [tag |-> ptw_pptr, idx |-> ptw_pptr]

IInv == PortTypes /\ TagFollows /\ OneAnswer /\ OwnAddress

-----------------------------------------------------------------------------

\* What the port sees: reads are never killed, and ask for the walk's address.
LEMMA PortInputs ==
    ASSUME NEW d
    PROVE  /\ dc_in(d).kill = FALSE
           /\ dc_in(d).data_req = (ptw_state_q = "WAIT_GRANT")
           /\ dc_in(d).tag_valid = tag_valid_q
           /\ dc_in(d).idx = ptw_pptr /\ dc_in(d).tag = ptw_pptr
           /\ dc_in(d).rd_ack = d.rd_ack
  BY DEF dc_in

\* The port grants only from IDLE and answers only a read it had outstanding,
\* which ends it.
LEMMA PortStep ==
    ASSUME PortTypes, TagFollows, OneAnswer, NEW d, DC!DCStep(dc_in(d)),
           d.rd_ack \in BOOLEAN
    PROVE  /\ DC!data_gnt(dc_in(d)) \in BOOLEAN /\ DC!data_rvalid(dc_in(d)) \in BOOLEAN
           /\ rd_ack_q' \in BOOLEAN
           /\ DC!data_gnt(dc_in(d)) => dc_state_q = "IDLE" /\ ptw_state_q = "WAIT_GRANT"
           /\ dc_state_q = "IDLE" => ~DC!data_rvalid(dc_in(d))
           /\ dc_state_q' = "READ" <=> DC!data_gnt(dc_in(d))
           /\ dc_state_q' \in {"IDLE", "READ", "REPLAY_READ", "REPLAY_REQ", "MISS_REQ", "MISS_WAIT"}
           /\ dc_state_q # "IDLE" => (dc_state_q' = "IDLE" <=> DC!data_rvalid(dc_in(d)))
           /\ dc_state_q = "IDLE" => dc_state_q' \in {"IDLE", "READ"}
           /\ dc_state_q = "READ" => DC!rd_tag_o(dc_in(d)) = ptw_pptr
           /\ dc_state_q # "READ" => DC!rd_tag_o(dc_in(d)) = address_tag_q
           /\ address_tag_q' = DC!rd_tag_o(dc_in(d))
           /\ address_idx_q' = IF DC!data_gnt(dc_in(d)) THEN ptw_pptr ELSE address_idx_q
  <1> DEFINE in == dc_in(d)
  <1>1. /\ ~in.kill /\ in.data_req = (ptw_state_q = "WAIT_GRANT")
        /\ in.tag_valid = tag_valid_q /\ in.idx = ptw_pptr /\ in.tag = ptw_pptr
        /\ in.rd_ack \in BOOLEAN
    BY PortInputs
  <1> HIDE DEF in
  <1> USE DEF PortTypes, TagFollows, OneAnswer, Waiting, DC!DCStep
  <1>2. DC!DCStep(in)
    BY DEF in
  <1>3. ~in.data_req \/ dc_state_q = "IDLE"
    BY <1>1
  <1>4. DC!data_gnt(in) <=> in.data_req /\ in.rd_ack /\ dc_state_q = "IDLE"
    BY <1>1, <1>3 DEF DC!data_gnt, DC!hits, DC!compares, DC!reading
  <1>5. DC!data_rvalid(in) <=> DC!hits(in) \/ (dc_state_q = "MISS_WAIT" /\ in.miss_rtrn)
    BY <1>1 DEF DC!data_rvalid
  <1>6. DC!compares(in) <=> dc_state_q \in {"READ", "REPLAY_READ"}
    BY <1>1 DEF DC!compares, DC!reading
  <1>7. /\ dc_state_q = "READ" => DC!rd_tag_o(in) = ptw_pptr
        /\ dc_state_q # "READ" => DC!rd_tag_o(in) = address_tag_q
    BY <1>1, <1>6 DEF DC!rd_tag_o
  <1>8. /\ dc_state_q' \in {"IDLE", "READ", "REPLAY_READ", "REPLAY_REQ", "MISS_REQ", "MISS_WAIT"}
        /\ dc_state_q' = "READ" <=> DC!data_gnt(in)
        /\ dc_state_q # "IDLE" => (dc_state_q' = "IDLE" <=> DC!data_rvalid(in))
        /\ dc_state_q = "IDLE" => dc_state_q' \in {"IDLE", "READ"} /\ ~DC!data_rvalid(in)
    <2>1. dc_state_q' = DC!state_d(in)
      BY <1>2
    <2>2. CASE dc_state_q = "IDLE"
      BY <1>4, <1>5, <1>6, <2>1, <2>2 DEF DC!state_d, DC!hits, DC!reading
    <2>3. CASE dc_state_q \in {"READ", "REPLAY_READ"}
      BY <1>1, <1>3, <1>4, <1>5, <1>6, <2>1, <2>3 DEF DC!state_d, DC!hits, DC!reading
    <2>4. CASE dc_state_q \in {"REPLAY_REQ", "MISS_REQ", "MISS_WAIT"}
      BY <1>1, <1>4, <1>5, <1>6, <2>1, <2>4 DEF DC!state_d, DC!hits, DC!reading
    <2> QED BY <2>2, <2>3, <2>4
  <1>9. DC!data_gnt(in) \in BOOLEAN /\ DC!data_rvalid(in) \in BOOLEAN
    BY DEF DC!data_gnt, DC!data_rvalid
  <1> QED BY <1>1, <1>2, <1>4, <1>7, <1>8, <1>9 DEF in

\* The walker with an answer owed or not: where it goes, and that its address
\* stays while it waits.
LEMMA WalkerStep ==
    ASSUME PortTypes, NEW in, PTW!WStep(in)
    PROVE  /\ ptw_state_q' \in {"IDLE", "WAIT_GRANT", "PTE_LOOKUP", "WAIT_RVALID", "PROPAGATE_ERROR"}
           /\ ptw_state_q = "WAIT_RVALID" /\ ~in.flush =>
                 ptw_state_q' = IF in.rvalid THEN "IDLE" ELSE "WAIT_RVALID"
           /\ ptw_state_q = "PTE_LOOKUP" =>
                 IF in.rvalid THEN ptw_state_q' \in {"IDLE", "WAIT_GRANT", "PROPAGATE_ERROR"}
                 ELSE /\ ptw_state_q' \in {"PTE_LOOKUP", "WAIT_RVALID"}
                      /\ ptw_pptr' = ptw_pptr
           /\ ptw_state_q = "WAIT_GRANT" =>
                 /\ ptw_pptr' = ptw_pptr
                 /\ IF in.gnt THEN ptw_state_q' \in {"PTE_LOOKUP", "WAIT_RVALID"}
                    ELSE ptw_state_q' \in {"IDLE", "WAIT_GRANT"}
           /\ ptw_state_q \in {"IDLE", "PROPAGATE_ERROR"} => ptw_state_q' \in {"IDLE", "WAIT_GRANT"}
  BY DEF PortTypes, ptw_pptr, PTW!WStep, PTW!state_d, PTW!starts, PTW!descends, PTW!fails, PTW!looked_up

LEMMA InitInv == Init => IInv
  BY DEF Init, IInv, PortTypes, TagFollows, OneAnswer, Waiting, OwnAddress, PTW!WInit, DC!DCInit

\* One clock cycle keeps the invariant.
LEMMA CycleInv ==
    ASSUME IInv, ~FlushInWait, NEW request, NEW page, NEW flush, NEW pte, NEW victim,
           NEW d, d.rd_ack \in BOOLEAN,
           FlushTiming(flush), Cycle(request, page, flush, pte, victim, d)
    PROVE  IInv'
  <1> DEFINE w == [access |-> request = "data", hit |-> page \in dtlb, page |-> page,
                   itlb_miss |-> request = "fetch", itlb_page |-> page,
                   gnt |-> DC!data_gnt(dc_in(d)), rvalid |-> data_rvalid_q, pte |-> pte,
                   victim |-> victim, flush |-> flush # "none",
                   flush_tlb |-> flush = "sfence"]
             gnt == DC!data_gnt(dc_in(d))
             rvalid == DC!data_rvalid(dc_in(d))
             tag == DC!rd_tag_o(dc_in(d))
  <1>1. /\ DC!DCStep(dc_in(d)) /\ PTW!WStep(w)
        /\ tag_valid_q' = gnt /\ data_rvalid_q' = rvalid
        /\ data_rdata_q' = IF rvalid THEN [tag |-> tag, idx |-> address_idx_q] ELSE data_rdata_q
    BY DEF Cycle
  <1>2. w.gnt = gnt /\ w.rvalid = data_rvalid_q /\ w.flush = (flush # "none")
    OBVIOUS
  <1>3. ptw_state_q = "WAIT_RVALID" => ~w.flush
    BY <1>2 DEF FlushTiming
  <1>4. PortTypes /\ TagFollows /\ OneAnswer /\ OwnAddress
    BY DEF IInv
  <1> HIDE DEF w, gnt, rvalid, tag
  <1>5. /\ gnt \in BOOLEAN /\ rvalid \in BOOLEAN /\ rd_ack_q' \in BOOLEAN
        /\ gnt => dc_state_q = "IDLE" /\ ptw_state_q = "WAIT_GRANT"
        /\ dc_state_q = "IDLE" => ~rvalid
        /\ dc_state_q' = "READ" <=> gnt
        /\ dc_state_q' \in {"IDLE", "READ", "REPLAY_READ", "REPLAY_REQ", "MISS_REQ", "MISS_WAIT"}
        /\ dc_state_q # "IDLE" => (dc_state_q' = "IDLE" <=> rvalid)
        /\ dc_state_q = "IDLE" => dc_state_q' \in {"IDLE", "READ"}
        /\ dc_state_q = "READ" => tag = ptw_pptr
        /\ dc_state_q # "READ" => tag = address_tag_q
        /\ address_tag_q' = tag
        /\ address_idx_q' = IF gnt THEN ptw_pptr ELSE address_idx_q
    BY <1>1, <1>4, PortStep DEF gnt, rvalid, tag
  <1>6. /\ ptw_state_q' \in {"IDLE", "WAIT_GRANT", "PTE_LOOKUP", "WAIT_RVALID", "PROPAGATE_ERROR"}
        /\ ptw_state_q = "WAIT_RVALID" =>
              ptw_state_q' = IF data_rvalid_q THEN "IDLE" ELSE "WAIT_RVALID"
        /\ ptw_state_q = "PTE_LOOKUP" =>
              IF data_rvalid_q THEN ptw_state_q' \in {"IDLE", "WAIT_GRANT", "PROPAGATE_ERROR"}
              ELSE /\ ptw_state_q' \in {"PTE_LOOKUP", "WAIT_RVALID"}
                   /\ ptw_pptr' = ptw_pptr
        /\ ptw_state_q = "WAIT_GRANT" =>
              /\ ptw_pptr' = ptw_pptr
              /\ IF gnt THEN ptw_state_q' \in {"PTE_LOOKUP", "WAIT_RVALID"}
                 ELSE ptw_state_q' \in {"IDLE", "WAIT_GRANT"}
        /\ ptw_state_q \in {"IDLE", "PROPAGATE_ERROR"} => ptw_state_q' \in {"IDLE", "WAIT_GRANT"}
    BY <1>1, <1>2, <1>3, <1>4, WalkerStep
  <1>7. PortTypes'
    BY <1>1, <1>5, <1>6 DEF PortTypes
  <1>8. TagFollows'
    BY <1>1, <1>5 DEF TagFollows
  <1>9. OneAnswer'
    BY <1>1, <1>4, <1>5, <1>6 DEF OneAnswer, Waiting, PortTypes
  <1>10. OwnAddress'
    <2> SUFFICES ASSUME ptw_state_q' = "PTE_LOOKUP"
                 PROVE  /\ dc_state_q' # "IDLE" => address_idx_q' = ptw_pptr'
                        /\ dc_state_q' \notin {"IDLE", "READ"} => address_tag_q' = ptw_pptr'
                        /\ data_rvalid_q' => data_rdata_q' = [tag |-> ptw_pptr', idx |-> ptw_pptr']
      BY DEF OwnAddress
    <2>1. ptw_pptr' = ptw_pptr /\ ptw_state_q \in {"WAIT_GRANT", "PTE_LOOKUP"}
      BY <1>4, <1>6 DEF PortTypes
    <2>2. CASE ptw_state_q = "WAIT_GRANT"
      BY <1>1, <1>4, <1>5, <1>6, <2>1, <2>2 DEF OneAnswer, Waiting
    <2>3. CASE ptw_state_q = "PTE_LOOKUP"
      BY <1>1, <1>4, <1>5, <1>6, <2>1, <2>3 DEF OneAnswer, Waiting, OwnAddress
    <2> QED BY <2>1, <2>2, <2>3
  <1> QED BY <1>7, <1>8, <1>9, <1>10 DEF IInv

LEMMA NextInv == ~FlushInWait /\ IInv /\ [Next]_vars => IInv'
  <1> SUFFICES ASSUME ~FlushInWait, IInv, [Next]_vars PROVE IInv'
    OBVIOUS
  <1>1. CASE UNCHANGED vars
    BY <1>1 DEF vars, PTW!vars, DC!vars, IInv, PortTypes, TagFollows, OneAnswer, Waiting,
                OwnAddress, ptw_pptr
  <1>2. CASE Next
    <2>1. PICK request \in {"none", "data", "fetch"}, page \in Page,
               flush \in {"none", "flush", "sfence"}, pte \in ReadEntries,
               victim \in (IF dtlb = {} THEN {ptw_page_q} ELSE dtlb), d \in Answers :
                 FlushTiming(flush) /\ Cycle(request, page, flush, pte, victim, d)
      BY <1>2 DEF Next
    <2>2. d.rd_ack \in BOOLEAN
      <3> DEFINE or(r) == {r, [r EXCEPT !.rd_ack = TRUE]}
      <3> DEFINE Reply == [rd_ack : BOOLEAN, wr_cl_vld : BOOLEAN, hit : BOOLEAN,
                           miss_ack : BOOLEAN, miss_replay : BOOLEAN, miss_rtrn : BOOLEAN]
      <3>1. /\ Quiet \in Reply
            /\ \A r \in Reply : /\ [r EXCEPT !.rd_ack = TRUE] \in Reply
                                /\ [r EXCEPT !.wr_cl_vld = TRUE] \in Reply
                                /\ [r EXCEPT !.hit = TRUE] \in Reply
                                /\ [r EXCEPT !.miss_ack = TRUE] \in Reply
                                /\ [r EXCEPT !.miss_replay = TRUE] \in Reply
                                /\ [r EXCEPT !.miss_rtrn = TRUE] \in Reply
                                /\ r.rd_ack \in BOOLEAN
        BY DEF Quiet
      <3> HIDE DEF Reply
      <3>2. CASE dc_state_q \in {"IDLE", "REPLAY_REQ"}
        <4>1. d \in or(Quiet)
          BY <3>2 DEF Answers
        <4> QED BY <3>1, <4>1
      <3>3. CASE dc_state_q \in {"READ", "REPLAY_READ"}
        <4>1. d \in or(Quiet) \cup or([Quiet EXCEPT !.wr_cl_vld = TRUE])
                  \cup or([Quiet EXCEPT !.hit = TRUE])
          BY <3>3 DEF Answers
        <4> QED BY <3>1, <4>1
      <3>4. CASE dc_state_q = "MISS_REQ"
        <4>1. d \in {Quiet, [Quiet EXCEPT !.miss_ack = TRUE], [Quiet EXCEPT !.miss_replay = TRUE]}
          BY <3>4 DEF Answers
        <4> QED BY <3>1, <4>1
      <3>5. CASE dc_state_q = "MISS_WAIT"
        <4>1. d \in {Quiet, [Quiet EXCEPT !.miss_rtrn = TRUE]}
          BY <3>5 DEF Answers
        <4> QED BY <3>1, <4>1
      <3> QED BY <3>2, <3>3, <3>4, <3>5 DEF IInv, PortTypes
    <2> QED BY <2>1, <2>2, CycleInv
  <1> QED BY <1>1, <1>2

\* Spec keeps the inductive invariant unless a flush finds WAIT_RVALID.
LEMMA Inductive == ~FlushInWait => (Spec => []IInv)
  <1> SUFFICES ASSUME ~FlushInWait PROVE Spec => []IInv
    OBVIOUS
  <1>1. IInv /\ [Next]_vars => IInv'
    BY NextInv
  <1> QED BY <1>1, InitInv, PTL DEF Spec

\* The comment of ptw.sv at line 323, where no flush comes in WAIT_RVALID: an idle
\* walker has no read outstanding, for every page table and number of levels.
THEOREM NothingOwed == ~FlushInWait => (Spec => []IdleWalkerOwesNothing)
  <1> SUFFICES ASSUME ~FlushInWait PROVE Spec => []IdleWalkerOwesNothing
    OBVIOUS
  <1>1. IInv => IdleWalkerOwesNothing
    BY DEF IInv, OneAnswer, Waiting, IdleWalkerOwesNothing
  <1> QED BY <1>1, Inductive, PTL

\* The page table entry the walker acts on is the one it asked for at this level
\* of this walk, for every page table and number of levels.
THEOREM AnswersAreOwn == ~FlushInWait => (Spec => []AnswerIsOwn)
  <1> SUFFICES ASSUME ~FlushInWait PROVE Spec => []AnswerIsOwn
    OBVIOUS
  <1>1. IInv => AnswerIsOwn
    BY DEF IInv, OwnAddress, AnswerIsOwn, PTW!looked_up
  <1> QED BY <1>1, Inductive, PTL
=============================================================================
