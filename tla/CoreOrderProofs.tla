--------------------------- MODULE CoreOrderProofs ---------------------------
(***************************************************************************)
(* What the pipeline of Core.tla does with the stores and loads of a       *)
(* program, proved for every size of the scoreboard and of the queues and  *)
(* for every program, with the exceptions its accesses raise.              *)
(***************************************************************************)
EXTENDS CoreProofs, WellFoundedInduction

-----------------------------------------------------------------------------
(* A cycle without a flush *)

LEMMA WorkType ==
    ASSUME CoreTypes
    PROVE  /\ Front \in LsuRequest /\ Second \in LsuRequest
           /\ Front.trans_id \in TransId /\ Second.trans_id \in TransId
           /\ issue_q \in LsuRequest /\ issue_q.trans_id \in TransId
           /\ st_trans_id_q \in TransId /\ load_data_q \in TransId
           /\ load_pipe_q.trans_id \in TransId
  <1>1. /\ mem_q \in [0..1 -> LsuRequest] /\ read_pointer_q \in 0..1 /\ issue_q \in LsuRequest
        /\ st_trans_id_q \in TransId /\ load_data_q \in TransId
        /\ load_pipe_q.trans_id \in TransId
    BY DEF CoreTypes, LsuTypes, SbTypes, LU!TypeOK
  <1>2. 1 - read_pointer_q \in 0..1
    BY <1>1
  <1>3. Front \in LsuRequest /\ Second \in LsuRequest
    BY <1>1, <1>2 DEF Front, Second
  <1> QED BY <1>1, <1>3 DEF LsuRequest

LEMMA NewEntryFields ==
    ASSUME NEW ins
    PROVE  /\ NewEntry(ins).issued /\ NewEntry(ins).ins = ins
           /\ NewEntry(ins).valid = (ins.op = "trap") /\ NewEntry(ins).ex = (ins.op = "trap")
  BY DEF NewEntry

LEMMA EmptyEntryFields ==
    ~EmptyEntry.issued /\ ~EmptyEntry.valid /\ ~EmptyEntry.ex /\ EmptyEntry.ins = NoInstr
  BY DEF EmptyEntry

\* The scoreboard stays a ring.
LEMMA RingStep ==
    ASSUME CoreTypes, ScoreboardRing,
           NEW ins \in Instr \cup {NoInstr}, NEW x, Inputs(x), Steps(ins, x), ~flush(x.amo_ack)
    PROVE  ScoreboardRing'
  <1> DEFINE e == IF ins # NoInstr THEN 1 ELSE 0
             n == NRetired(x)
  <1>1. /\ issue_cnt_q' = issue_cnt_q - n + e
        /\ commit_pointer_q' = Wrap(commit_pointer_q + n, NR_SB_ENTRIES)
        /\ issue_pointer_q' = IF ins # NoInstr THEN Wrap(issue_pointer_q + 1, NR_SB_ENTRIES)
                                               ELSE issue_pointer_q
        /\ ins # NoInstr => issue_cnt_q < NR_SB_ENTRIES - 1
        /\ Pos(issue_pointer_q) = issue_cnt_q
    BY PointerStep
  <1>2. /\ n \in 0 .. 2 /\ n <= issue_cnt_q
        /\ issue_cnt_q \in 0 .. NR_SB_ENTRIES - 1 /\ commit_pointer_q \in 0 .. NR_SB_ENTRIES - 1
        /\ NR_SB_ENTRIES \in Nat /\ NR_SB_ENTRIES >= 2
        /\ e \in 0 .. 1 /\ (ins # NoInstr <=> e = 1)
    BY RetiredFacts, LSUAssumption DEF CoreTypes, SbTypes, TransId
  <1> HIDE DEF n, e
  <1>3. issue_pointer_q' = Wrap(commit_pointer_q' + issue_cnt_q', NR_SB_ENTRIES)
    <2>1. issue_pointer_q = Wrap(commit_pointer_q + issue_cnt_q, NR_SB_ENTRIES)
      BY DEF ScoreboardRing
    <2> QED BY <1>1, <1>2, <2>1 DEF Wrap
  <1>4. ASSUME NEW i \in TransId
        PROVE  /\ mem_sb'[i].issued <=> Pos(i)' < issue_cnt_q'
               /\ ~mem_sb'[i].issued => mem_sb'[i] = EmptyEntry
               /\ mem_sb'[i].issued => mem_sb'[i].ins \in Instr
    <2>1. /\ Pos(i) \in 0 .. NR_SB_ENTRIES - 1
          /\ Pos(i) >= n => Pos(i)' = Pos(i) - n
          /\ Pos(i) < n => Pos(i)' = Pos(i) - n + NR_SB_ENTRIES
          /\ Retired(i, x) <=> Pos(i) < n
      BY PosFacts, PointerStep, RetiredFacts DEF n
    <2>2. /\ mem_sb[i].issued <=> Pos(i) < issue_cnt_q
          /\ ~mem_sb[i].issued => mem_sb[i] = EmptyEntry
          /\ mem_sb[i].issued => mem_sb[i].ins \in Instr
      BY DEF ScoreboardRing
    <2>3. CASE Retired(i, x)
      <3>1. mem_sb'[i] = EmptyEntry
        BY <2>3, WriteStep
      <3>2. ~(Pos(i)' < issue_cnt_q')
        BY <1>1, <1>2, <2>1, <2>3
      <3> QED BY <3>1, <3>2, EmptyEntryFields
    <2>4. CASE ins # NoInstr /\ i = issue_pointer_q
      <3>1. mem_sb'[i] = NewEntry(ins) /\ ~mem_sb[i].issued /\ ins \in Instr
        BY <2>4, WriteStep
      <3>2. Pos(i)' < issue_cnt_q'
        BY <1>1, <1>2, <2>1, <2>4
      <3>3. mem_sb'[i].issued /\ mem_sb'[i].ins = ins
        BY <3>1, NewEntryFields, Zenon
      <3> QED BY <3>1, <3>2, <3>3
    <2>5. CASE ~Retired(i, x) /\ (ins = NoInstr \/ i # issue_pointer_q)
      <3>1. /\ mem_sb'[i].issued = mem_sb[i].issued /\ mem_sb'[i].ins = mem_sb[i].ins
            /\ ~Writes(i) => mem_sb'[i] = mem_sb[i]
        BY <2>5, FieldStep
      <3>2. Writes(i) => mem_sb[i].issued
        BY DEF Writes
      <3>3. Pos(i)' < issue_cnt_q' <=> Pos(i) < issue_cnt_q
        <4>1. ins # NoInstr => Pos(i) # issue_cnt_q
          BY <1>1, <2>5, PosFacts DEF CoreTypes, SbTypes
        <4> QED BY <1>1, <1>2, <2>1, <2>5, <4>1
      <3> QED BY <2>2, <3>1, <3>2, <3>3
    <2> QED BY <2>3, <2>4, <2>5
  <1> QED BY <1>3, <1>4 DEF ScoreboardRing

\* What waits stays as it is until its result comes, and keeps its place.
LEMMA WaitStep ==
    ASSUME CoreTypes, Calm, ScoreboardRing, OwnWork, LoadUnitOK,
           NEW ins \in Instr \cup {NoInstr}, NEW x, Inputs(x), Steps(ins, x), ~flush(x.amo_ack),
           NEW i \in TransId, Waits(i)
    PROVE  /\ Pos(i)' = Pos(i) - NRetired(x) /\ Pos(i) < issue_cnt_q
           /\ ~LoadFills(i) /\ ~OtherFills(i) => Waits(i)' /\ mem_sb'[i] = mem_sb[i]
  <1>1. ~Retired(i, x) /\ ~(Pos(i) < NRetired(x))
    BY RetiredFacts DEF Waits
  <1>2. Pos(i) \in Int /\ NRetired(x) \in Int
    BY PosFacts, RetiredFacts
  <1>3. Pos(i)' = Pos(i) - NRetired(x)
    BY <1>1, <1>2, PointerStep
  <1>4. Pos(i) < issue_cnt_q
    BY DEF Waits, ScoreboardRing
  <1>5. ins # NoInstr => i # issue_pointer_q
    BY EntryStep DEF Waits
  <1>6. ~LoadFills(i) /\ ~OtherFills(i) => mem_sb'[i] = mem_sb[i]
    BY <1>1, <1>5, EntryStep
  <1> QED BY <1>3, <1>4, <1>6 DEF Waits

\* The instruction that is issued comes after all others.
LEMMA IssueStep ==
    ASSUME CoreTypes, ScoreboardRing,
           NEW ins \in Instr \cup {NoInstr}, NEW x, Inputs(x), Steps(ins, x), ~flush(x.amo_ack)
    PROVE  /\ issue_q'.valid \/ issue_q'.op \in FlushOp =>
                /\ ins # NoInstr /\ issue_q'.trans_id = issue_pointer_q
                /\ Waits(issue_q.trans_id)' /\ issue_q'.op = ins.op /\ issue_q'.req = ins.req
                /\ issue_q'.misaligned = ins.misaligned
                /\ mem_sb'[issue_q'.trans_id].ins = ins
           /\ issue_q'.valid => /\ WaitsFor(issue_q)' /\ status_cnt_q = 0
                                /\ Pos(issue_q.trans_id)' = issue_cnt_q - NRetired(x)
           /\ ins # NoInstr /\ is_lsu(ins) => issue_q'.valid
  <1>1. issue_q' = IF ins # NoInstr /\ ins.op # "trap"
                     THEN [valid |-> is_lsu(ins), op |-> ins.op, req |-> ins.req,
                           misaligned |-> ins.misaligned, trans_id |-> issue_pointer_q]
                     ELSE NoRequest
    <2>1. x.flush = FALSE
      BY DEF Inputs, flush
    <2> QED BY <2>1 DEF Steps, scoreboard, id_ex
  <1>2. ~NoRequest.valid /\ NoRequest.op \notin FlushOp
    BY DEF NoRequest, FlushOp
  <1>3. ins # NoInstr => mem_sb'[issue_pointer_q] = NewEntry(ins)
    BY WriteStep
  <1>4. CASE ins # NoInstr /\ ins.op # "trap"
    <2>1. /\ issue_q'.valid = is_lsu(ins) /\ issue_q'.op = ins.op /\ issue_q'.req = ins.req
          /\ issue_q'.misaligned = ins.misaligned /\ issue_q'.trans_id = issue_pointer_q
      BY <1>1, <1>4
    <2>2. /\ mem_sb'[issue_pointer_q].issued /\ ~mem_sb'[issue_pointer_q].valid
          /\ mem_sb'[issue_pointer_q].ins = ins
      BY <1>3, <1>4, NewEntryFields
    <2>3. Waits(issue_q.trans_id)'
      BY <2>1, <2>2 DEF Waits
    <2>4. issue_q'.valid => WaitsFor(issue_q)'
      BY <2>1, <2>2, <2>3 DEF WaitsFor, OwnRequest, is_lsu
    <2>5. issue_q'.valid => status_cnt_q = 0
      BY <1>4, <2>1 DEF Steps, can_issue, LB!lsu_ready_o, LB!empty
    <2>6. Pos(issue_q.trans_id)' = issue_cnt_q - NRetired(x)
      <3>1. /\ Pos(issue_pointer_q) = issue_cnt_q /\ issue_pointer_q \in TransId
            /\ NRetired(x) <= issue_cnt_q /\ issue_cnt_q \in Int /\ NRetired(x) \in Int
        <4>1. NRetired(x) <= issue_cnt_q /\ NRetired(x) \in Int
          BY RetiredFacts
        <4>2. issue_pointer_q \in TransId /\ issue_cnt_q \in Int
          BY TransIdType DEF CoreTypes, SbTypes
        <4> QED BY <4>1, <4>2, PointerStep
      <3>2. \A i \in TransId : Pos(i) >= NRetired(x) => Pos(i)' = Pos(i) - NRetired(x)
        BY PointerStep
      <3>3. Pos(issue_q.trans_id)' = Wrap(issue_pointer_q - commit_pointer_q', NR_SB_ENTRIES)
        BY <2>1 DEF Pos
      <3>4. PICK i \in TransId : i = issue_pointer_q
        BY <3>1
      <3>5. Pos(i)' = issue_cnt_q - NRetired(x)
        BY <3>1, <3>2, <3>4
      <3> QED BY <3>3, <3>4, <3>5 DEF Pos
    <2> QED BY <1>4, <2>1, <2>2, <2>3, <2>4, <2>5, <2>6
  <1>5. CASE ~(ins # NoInstr /\ ins.op # "trap")
    BY <1>1, <1>2, <1>5 DEF is_lsu
  <1> QED BY <1>4, <1>5

\* What becomes of the requests in the FIFO.
LEMMA FrontStep ==
    ASSUME CoreTypes, Calm, ScoreboardRing, FifoOK, OwnWork, LoadUnitOK,
           NEW ins \in Instr \cup {NoInstr}, NEW x, Inputs(x), Steps(ins, x), ~flush(x.amo_ack)
    PROVE  /\ FifoOK'
           /\ HasSecond => Front.valid /\ Second.valid
           /\ Pops(x) \/ PopsStore(x) => Front.valid
           /\ Front'.valid => \/ Front' = Front /\ Front.valid /\ ~Pops(x) /\ ~PopsStore(x)
                              \/ Front' = Second /\ HasSecond /\ (Pops(x) \/ PopsStore(x))
                              \/ Front' = issue_q' /\ issue_q'.valid
           /\ HasSecond' => /\ Front' = Front /\ Front.valid
                            /\ \/ HasSecond /\ Second' = Second
                               \/ issue_q'.valid /\ Second' = issue_q'
           /\ Front.valid /\ ~Pops(x) /\ ~PopsStore(x)
                => Front' = Front /\ (HasSecond => HasSecond' /\ Second' = Second)
           /\ HasSecond /\ (Pops(x) \/ PopsStore(x)) => Front' = Second
           /\ issue_q'.valid => Front' = issue_q' \/ (HasSecond' /\ Second' = issue_q')
  <1>1. Pops(x) \in BOOLEAN /\ PopsStore(x) \in BOOLEAN
    BY DEF Pops, PopsStore, LU!pop_ld_o, pop_st_o
  <1>2. LSUStep(x)
    BY DEF Steps
  <1>3. /\ Pops(x) => Front.valid /\ Front.op = "load"
        /\ PopsStore(x) => Front.valid /\ Front.op \in {"store", "amo"}
    BY <1>2, LoadStep, StoreStep DEF LoadUnitOK
  <1>4. LB!LBStep(issue_q, Pops(x), PopsStore(x), FALSE)
    <2>1. flush(x.amo_ack) = FALSE
      BY DEF flush
    <2> QED BY <1>2, <2>1, LsuParts DEF Pops, PopsStore
  <1>5. issue_q'.valid => status_cnt_q = 0
    BY IssueStep
  <1>6. /\ FifoOK'
        /\ ~(Pops(x) \/ PopsStore(x)) /\ Front.valid
             => /\ Front' = Front
                /\ HasSecond => HasSecond' /\ Second' = Second
                /\ HasSecond' => HasSecond \/ (issue_q'.valid /\ Second' = issue_q')
        /\ ~(Pops(x) \/ PopsStore(x)) /\ ~Front.valid => ~HasSecond' /\ Front' = issue_q'
        /\ Pops(x) \/ PopsStore(x) => /\ ~HasSecond'
                                      /\ HasSecond => Front' = Second
                                      /\ ~HasSecond => Front' = issue_q'
        /\ issue_q'.valid => Front' = issue_q' \/ (HasSecond' /\ Second' = issue_q')
    BY <1>1, <1>3, <1>4, <1>5, FifoStep
  <1>7. HasSecond => Front.valid /\ Second.valid
    BY DEF HasSecond, Front, Second, FifoOK
  <1> QED BY <1>3, <1>6, <1>7

\* What the LSU works on in this cycle and goes on with: it keeps its entry,
\* and its distance from the others.
LEMMA KeptStep ==
    ASSUME CoreTypes, Calm, ScoreboardRing, FifoOK, OwnWork, InOrder, LoadUnitOK,
           NEW ins \in Instr \cup {NoInstr}, NEW x, Inputs(x), Steps(ins, x), ~flush(x.amo_ack)
    PROVE  /\ Front.valid => /\ Waits(Front.trans_id) /\ mem_sb'[Front.trans_id] = mem_sb[Front.trans_id]
           /\ HasSecond => /\ Waits(Second.trans_id) /\ mem_sb'[Second.trans_id] = mem_sb[Second.trans_id]
           /\ Reads => /\ Waits(load_data_q) /\ mem_sb'[load_data_q] = mem_sb[load_data_q]
  <1>1. /\ Front.trans_id \in TransId /\ Second.trans_id \in TransId /\ load_data_q \in TransId
        /\ st_trans_id_q \in TransId /\ load_pipe_q.trans_id \in TransId
    BY WorkType
  <1>2. \A i \in TransId : Pos(i) \in Int
    BY PosFacts
  <1>3. \A i \in TransId : Waits(i) /\ ~LoadFills(i) /\ ~OtherFills(i) => mem_sb'[i] = mem_sb[i]
    BY WaitStep
  <1>4. HasSecond => Front.valid
    BY FrontStep
  <1>5. ASSUME Front.valid
        PROVE  Waits(Front.trans_id) /\ ~LoadFills(Front.trans_id) /\ ~OtherFills(Front.trans_id)
    BY <1>1, <1>2, <1>5 DEF OwnWork, InOrder, WaitsFor, OwnRequest, LoadFills, OtherFills, is_lsu, FlushOp
  <1>6. ASSUME HasSecond
        PROVE  Waits(Second.trans_id) /\ ~LoadFills(Second.trans_id) /\ ~OtherFills(Second.trans_id)
    BY <1>1, <1>2, <1>4, <1>6 DEF OwnWork, InOrder, WaitsFor, OwnRequest, LoadFills, OtherFills, is_lsu, FlushOp
  <1>7. ASSUME Reads
        PROVE  Waits(load_data_q) /\ ~LoadFills(load_data_q) /\ ~OtherFills(load_data_q)
    BY <1>1, <1>2, <1>7 DEF OwnWork, InOrder, LoadFills, OtherFills, FlushOp
  <1> QED BY <1>1, <1>3, <1>5, <1>6, <1>7

LEMMA OwnWorkStep ==
    ASSUME CoreTypes, Calm, ScoreboardRing, FifoOK, OwnWork, InOrder, LoadUnitOK,
           NEW ins \in Instr \cup {NoInstr}, NEW x, Inputs(x), Steps(ins, x), ~flush(x.amo_ack)
    PROVE  OwnWork'
  <1>0. LSUStep(x)
    BY DEF Steps
  <1>1. ASSUME NEW r, r \in {Front, Second}, WaitsFor(r), mem_sb'[r.trans_id] = mem_sb[r.trans_id]
        PROVE  /\ mem_sb'[r.trans_id].issued /\ ~mem_sb'[r.trans_id].valid /\ is_lsu(r)
               /\ mem_sb'[r.trans_id].ins.op = r.op /\ mem_sb'[r.trans_id].ins.req = r.req
               /\ mem_sb'[r.trans_id].ins.misaligned = r.misaligned
    BY <1>1 DEF WaitsFor, OwnRequest, Waits
  <1>2. Front.valid => /\ mem_sb'[Front.trans_id].issued /\ ~mem_sb'[Front.trans_id].valid
                       /\ is_lsu(Front) /\ mem_sb'[Front.trans_id].ins.op = Front.op
                       /\ mem_sb'[Front.trans_id].ins.req = Front.req
                       /\ mem_sb'[Front.trans_id].ins.misaligned = Front.misaligned
    BY <1>1, KeptStep DEF OwnWork
  <1>3. HasSecond => /\ mem_sb'[Second.trans_id].issued /\ ~mem_sb'[Second.trans_id].valid
                     /\ is_lsu(Second) /\ mem_sb'[Second.trans_id].ins.op = Second.op
                     /\ mem_sb'[Second.trans_id].ins.req = Second.req
                     /\ mem_sb'[Second.trans_id].ins.misaligned = Second.misaligned
    BY <1>1, KeptStep DEF OwnWork
  <1>4. issue_q'.valid => WaitsFor(issue_q)'
    BY IssueStep
  <1>5. Front'.valid => WaitsFor(Front)'
    BY <1>2, <1>3, <1>4, FrontStep DEF WaitsFor, OwnRequest, Waits, is_lsu
  <1>6. HasSecond' => WaitsFor(Second)'
    BY <1>3, <1>4, FrontStep DEF WaitsFor, OwnRequest, Waits, is_lsu
  <1>7. issue_q'.op \in FlushOp => /\ Waits(issue_q.trans_id)'
                                   /\ mem_sb'[issue_q'.trans_id].ins.op = issue_q'.op
    BY IssueStep
  <1>8. Stores' => /\ Waits(st_trans_id_q)'
                   /\ mem_sb'[st_trans_id_q'].ins.op = IF st_q'.amo THEN "amo" ELSE "store"
                   /\ mem_sb'[st_trans_id_q'].ins.req = st_q'.req
    <2>1. /\ st_q' = [req |-> Front.req, amo |-> Front.op = "amo"]
          /\ st_trans_id_q' = Front.trans_id
          /\ Stores' => Front.valid /\ Front.op \in {"store", "amo"}
      BY <1>0, StoreStep
    <2>2. st_q'.req = Front.req /\ st_q'.amo = (Front.op = "amo")
      BY <2>1
    <2> QED BY <1>2, <2>1, <2>2 DEF Waits
  <1>9. Reads' => Waits(load_data_q)' /\ mem_sb'[load_data_q'].ins.op = "load"
    <2>1. load_data_q' = IF Pops(x) THEN Front.trans_id ELSE load_data_q
      BY <1>0, LoadUnitStep
    <2>2. CASE Pops(x)
      BY <1>0, <1>2, <2>1, <2>2, LoadStep DEF Waits, LoadUnitOK
    <2>3. CASE ~Pops(x)
      <3>1. Reads' => Reads
        BY <1>0, <2>3, LoadStep DEF LoadUnitOK
      <3>2. Reads => mem_sb'[load_data_q] = mem_sb[load_data_q]
        BY KeptStep
      <3> QED BY <2>1, <2>3, <3>1, <3>2 DEF OwnWork, Waits
    <2> QED BY <2>2, <2>3
  <1>10. Returns' => /\ Waits(load_pipe_q.trans_id)' /\ ~load_pipe_q'.ex
                     /\ mem_sb'[load_pipe_q'.trans_id].ins.op = "load"
    <2>1. load_pipe_q' = IF Answers(x)
                           THEN [valid |-> TRUE, trans_id |-> load_data_q,
                                 data |-> mem[rd_addr(dc_in(x))], ex |-> FALSE]
                           ELSE NoResult
      BY <1>0, LoadUnitStep
    <2>2. Returns' => Answers(x)
      BY <2>1 DEF Returns, NoResult
    <2>3. Answers(x) => Reads /\ load_pipe_q'.trans_id = load_data_q /\ ~load_pipe_q'.ex
      BY <1>0, <2>1, LoadStep DEF LoadUnitOK
    <2>4. Reads => mem_sb'[load_data_q] = mem_sb[load_data_q]
      BY KeptStep
    <2> QED BY <2>2, <2>3, <2>4 DEF OwnWork, Waits
  <1> QED BY <1>5, <1>6, <1>7, <1>8, <1>9, <1>10 DEF OwnWork

LEMMA InOrderStep ==
    ASSUME CoreTypes, Calm, ScoreboardRing, FifoOK, OwnWork, InOrder, LoadUnitOK,
           NEW ins \in Instr \cup {NoInstr}, NEW x, Inputs(x), Steps(ins, x), ~flush(x.amo_ack)
    PROVE  InOrder'
  <1> DEFINE n == NRetired(x)
             P(i) == Wrap(i - commit_pointer_q', NR_SB_ENTRIES)
  <1>0. LSUStep(x)
    BY DEF Steps
  <1>1. /\ Front.trans_id \in TransId /\ Second.trans_id \in TransId /\ load_data_q \in TransId
        /\ n \in Int /\ issue_cnt_q \in Int
    BY WorkType, RetiredFacts, TransIdType DEF CoreTypes, SbTypes
  <1>2. \A i \in TransId : Pos(i) \in Int
    BY PosFacts
  <1>3. \A i \in TransId : Waits(i) => P(i) = Pos(i) - n /\ Pos(i) < issue_cnt_q
    BY WaitStep DEF Pos
  <1>4. issue_q'.valid => P(issue_q'.trans_id) = issue_cnt_q - n
    BY IssueStep DEF Pos
  <1>5. /\ Front.valid => Waits(Front.trans_id)
        /\ HasSecond => Waits(Second.trans_id)
        /\ Reads => Waits(load_data_q)
    BY KeptStep
  <1>6. /\ Stores' = (PopsStore(x) /\ ~flush(x.amo_ack)) /\ st_trans_id_q' = Front.trans_id
        /\ PopsStore(x) => Front.valid /\ Front.op \in {"store", "amo"}
    BY <1>0, StoreStep
  <1>7. load_data_q' = IF Pops(x) THEN Front.trans_id ELSE load_data_q
    BY <1>0, LoadUnitStep
  <1>8. Returns' => Answers(x) /\ load_pipe_q'.trans_id = load_data_q
    <2>1. load_pipe_q' = IF Answers(x)
                           THEN [valid |-> TRUE, trans_id |-> load_data_q,
                                 data |-> mem[rd_addr(dc_in(x))], ex |-> FALSE]
                           ELSE NoResult
      BY <1>0, LoadUnitStep
    <2> QED BY <2>1 DEF Returns, NoResult
  <1>9. /\ Pops(x) => Front.valid /\ Front.op = "load"
        /\ Answers(x) => Reads
        /\ Reads' => Pops(x) \/ (Reads /\ ~Answers(x))
    BY <1>0, LoadStep DEF LoadUnitOK
  <1>10. /\ Front'.valid => \/ Front' = Front /\ Front.valid /\ ~Pops(x) /\ ~PopsStore(x)
                            \/ Front' = Second /\ HasSecond /\ (Pops(x) \/ PopsStore(x))
                            \/ Front' = issue_q' /\ issue_q'.valid
         /\ HasSecond' => /\ Front' = Front /\ Front.valid
                          /\ \/ HasSecond /\ Second' = Second
                             \/ issue_q'.valid /\ Second' = issue_q'
         /\ HasSecond => Front.valid
    BY FrontStep
  <1>11. /\ HasSecond => Pos(Front.trans_id) < Pos(Second.trans_id)
         /\ Front.valid /\ Reads => Pos(load_data_q) < Pos(Front.trans_id)
    BY DEF InOrder
  <1> HIDE DEF n, P
  <1>12. HasSecond' => P(Front'.trans_id) < P(Second'.trans_id)
    BY <1>1, <1>2, <1>3, <1>4, <1>5, <1>10, <1>11
  <1>13. ASSUME NEW i \in TransId, Waits(i),
                Front.valid => Pos(i) <= Pos(Front.trans_id),
                Front.valid /\ i = Front.trans_id => Pops(x) \/ PopsStore(x)
         PROVE  Front'.valid => P(i) < P(Front'.trans_id)
    <2>1. i # Front.trans_id => Pos(i) # Pos(Front.trans_id)
      BY <1>1, PosFacts
    <2> QED BY <1>1, <1>2, <1>3, <1>4, <1>5, <1>10, <1>11, <1>13, <2>1
  <1>14. Front'.valid /\ Stores' => P(st_trans_id_q') < P(Front'.trans_id)
    <2> SUFFICES ASSUME Front'.valid, Stores' PROVE P(st_trans_id_q') < P(Front'.trans_id)
      OBVIOUS
    <2>1. PopsStore(x) /\ Front.valid /\ Waits(Front.trans_id) /\ st_trans_id_q' = Front.trans_id
      BY <1>5, <1>6
    <2>2. Pos(Front.trans_id) <= Pos(Front.trans_id)
      BY <1>1, <1>2
    <2>3. P(Front.trans_id) < P(Front'.trans_id)
      BY <1>1, <1>13, <2>1, <2>2
    <2> QED BY <2>1, <2>3
  <1>15. Front'.valid /\ Reads' => P(load_data_q') < P(Front'.trans_id)
    BY <1>1, <1>2, <1>5, <1>7, <1>9, <1>11, <1>13
  <1>16. Front'.valid /\ Returns' => P(load_pipe_q'.trans_id) < P(Front'.trans_id)
    BY <1>1, <1>2, <1>5, <1>8, <1>9, <1>11, <1>13
  <1>17. Returns' /\ Reads' => P(load_pipe_q'.trans_id) < P(load_data_q')
    BY <1>1, <1>2, <1>3, <1>5, <1>7, <1>8, <1>9, <1>11
  <1> QED BY <1>12, <1>14, <1>15, <1>16, <1>17 DEF InOrder, Pos, P

\* A store that has been executed after a cycle was so before, or has just been.
LEMMA DoneStep ==
    ASSUME CoreTypes, Calm, ScoreboardRing, OwnWork, LoadUnitOK, NoTrapYet,
           NEW ins \in Instr \cup {NoInstr}, NEW x, Inputs(x), Steps(ins, x), ~flush(x.amo_ack),
           NEW i \in TransId, mem_sb'[i].valid, mem_sb'[i].ins.op \in {"load", "store", "amo"}
    PROVE  /\ ~Retired(i, x) /\ mem_sb[i].issued /\ mem_sb'[i].ins = mem_sb[i].ins
           /\ Pos(i)' = Pos(i) - NRetired(x) /\ Pos(i) < issue_cnt_q
           /\ ~mem_sb[i].ex /\ ~mem_sb'[i].ex
           /\ \/ mem_sb[i].valid /\ mem_sb'[i] = mem_sb[i]
              \/ LoadFills(i) /\ mem_sb[i].ins.op = "load"
                   /\ mem_sb'[i].result = load_pipe_q.data
              \/ Stores /\ i = st_trans_id_q /\ mem_sb[i].ins.op # "load"
  <1>1. ~Retired(i, x)
    BY EntryStep, EmptyEntryFields
  <1>2. ~(ins # NoInstr /\ i = issue_pointer_q)
    <2> SUFFICES ASSUME ins # NoInstr, i = issue_pointer_q PROVE FALSE
      OBVIOUS
    <2>1. mem_sb'[i] = NewEntry(ins)
      BY EntryStep
    <2>2. ins.op = "trap" /\ mem_sb'[i].ins = ins
      BY <2>1, NewEntryFields, Zenon
    <2> QED BY <2>2
  <1>3. mem_sb'[i] = IF LoadFills(i) THEN completed(mem_sb[i], load_pipe_q.data, FALSE)
                     ELSE IF OtherFills(i) THEN completed(mem_sb[i], zero.data, FALSE)
                     ELSE mem_sb[i]
    BY <1>1, <1>2, EntryStep
  <1>4. \A d : /\ completed(mem_sb[i], d, FALSE).ins = mem_sb[i].ins
               /\ completed(mem_sb[i], d, FALSE).result = d
               /\ completed(mem_sb[i], d, FALSE).ex => mem_sb[i].ex
    <2>1. mem_sb \in [TransId -> SbEntry]
      BY DEF CoreTypes, SbTypes
    <2> QED BY <2>1 DEF completed, SbEntry
  <1>5. mem_sb'[i].ins = mem_sb[i].ins
    BY <1>3, <1>4
  <1>6. /\ LoadFills(i) => mem_sb[i].issued /\ ~mem_sb[i].valid /\ mem_sb[i].ins.op = "load"
        /\ OtherFills(i) => mem_sb[i].issued /\ ~mem_sb[i].valid
        /\ OtherFills(i) => Stores /\ i = st_trans_id_q /\ mem_sb[i].ins.op # "load"
    BY <1>5 DEF LoadFills, OtherFills, OwnWork, Waits, FlushOp
  <1>7. mem_sb[i].issued
    <2>1. mem_sb[i].valid => mem_sb[i].issued
      BY EmptyEntryFields DEF ScoreboardRing
    <2> QED BY <1>3, <1>6, <2>1
  <1>8. ~mem_sb[i].ex /\ ~mem_sb'[i].ex
    <2>1. ~mem_sb[i].ex
      BY <1>5 DEF NoTrapYet
    <2> QED BY <1>3, <1>4, <2>1
  <1>9. Pos(i)' = Pos(i) - NRetired(x) /\ Pos(i) < issue_cnt_q
    <2>1. ~(Pos(i) < NRetired(x)) /\ Pos(i) \in Int /\ NRetired(x) \in Int
      BY <1>1, RetiredFacts, PosFacts
    <2> QED BY <1>7, <2>1, PointerStep DEF ScoreboardRing
  <1> QED BY <1>1, <1>3, <1>4, <1>5, <1>6, <1>7, <1>8, <1>9

LEMMA DoneInOrderStep ==
    ASSUME CoreTypes, Calm, ScoreboardRing, FifoOK, OwnWork, InOrder, DoneInOrder, LoadUnitOK, NoTrapYet,
           NEW ins \in Instr \cup {NoInstr}, NEW x, Inputs(x), Steps(ins, x), ~flush(x.amo_ack)
    PROVE  DoneInOrder'
  <1> SUFFICES ASSUME NEW i \in TransId, DoneStore(mem_sb'[i])
               PROVE  /\ Stores' => Pos(i)' < Pos(st_trans_id_q)'
                      /\ Front'.valid => Pos(i)' < Pos(Front.trans_id)'
    BY DEF DoneInOrder, DoneStore, Pos
  <1> DEFINE n == NRetired(x)
             P(j) == Wrap(j - commit_pointer_q', NR_SB_ENTRIES)
  <1>0. LSUStep(x)
    BY DEF Steps
  <1>1. /\ Front.trans_id \in TransId /\ Second.trans_id \in TransId
        /\ n \in Int /\ issue_cnt_q \in Int
    BY WorkType, RetiredFacts, TransIdType DEF CoreTypes, SbTypes
  <1>2. \A j \in TransId : Pos(j) \in Int
    BY PosFacts
  <1>3. \A j \in TransId : Waits(j) => P(j) = Pos(j) - n /\ Pos(j) < issue_cnt_q
    BY WaitStep DEF Pos
  <1>4. issue_q'.valid => P(issue_q'.trans_id) = issue_cnt_q - n
    BY IssueStep DEF Pos
  <1>5. Front.valid => Waits(Front.trans_id)
    BY KeptStep
  <1>6. HasSecond => /\ Waits(Second.trans_id) /\ Front.valid
                     /\ Pos(Front.trans_id) < Pos(Second.trans_id)
    BY KeptStep, FrontStep DEF InOrder
  <1>7. /\ Stores' => Front.valid /\ st_trans_id_q' = Front.trans_id
    BY <1>0, StoreStep
  <1>8. P(i) = Pos(i) - n /\ Pos(i) < issue_cnt_q
        /\ (DoneStore(mem_sb[i]) \/ (Stores /\ i = st_trans_id_q))
    BY DoneStep DEF DoneStore, Pos
  <1>9. Front.valid => Pos(i) < Pos(Front.trans_id)
    BY <1>8 DEF DoneInOrder, InOrder
  <1>10. Front'.valid => \/ Front' = Front /\ Front.valid
                         \/ Front' = Second /\ HasSecond
                         \/ Front' = issue_q' /\ issue_q'.valid
    BY FrontStep
  <1> HIDE DEF n, P
  <1>11. Stores' => P(i) < P(st_trans_id_q')
    BY <1>1, <1>2, <1>3, <1>5, <1>7, <1>8, <1>9
  <1>12. Front'.valid => P(i) < P(Front'.trans_id)
    BY <1>1, <1>2, <1>3, <1>4, <1>5, <1>6, <1>8, <1>9, <1>10
  <1> QED BY <1>11, <1>12 DEF Pos, P

LEMMA LoadUnitOKStep ==
    ASSUME CoreTypes, Calm, ScoreboardRing, FifoOK, OwnWork, InOrder, LoadUnitOK,
           NEW ins \in Instr \cup {NoInstr}, NEW x, Inputs(x), Steps(ins, x), ~flush(x.amo_ack)
    PROVE  LoadUnitOK'
  <1> DEFINE req == LU!data_req(ld(x))
             gnt == DC!data_gnt(dc_in(x))
             takes == Front.valid /\ Front.op = "load" /\ ld_state_q \in {"IDLE", "SEND_TAG"}
  <1>0. LSUStep(x)
    BY DEF Steps
  <1>1. /\ req = ((takes /\ ~page_offset_matches(x)) \/ ld_state_q = "WAIT_GNT")
        /\ Pops(x) = (req /\ gnt /\ dtlb_hit(x) /\ ~StallNC(x))
        /\ req => ld_state_q' = IF ~gnt THEN "WAIT_GNT"
                                ELSE IF ~dtlb_hit(x) THEN "ABORT_TRANSACTION"
                                ELSE IF StallNC(x) THEN "ABORT_TRANSACTION_NC"
                                ELSE "SEND_TAG"
        /\ ~req /\ takes => ld_state_q' = "WAIT_PAGE_OFFSET"
        /\ ~req /\ ~takes =>
             CASE ld_state_q = "WAIT_PAGE_OFFSET" ->
                    ld_state_q' = IF page_offset_matches(x) THEN "WAIT_PAGE_OFFSET"
                                                            ELSE "WAIT_GNT"
               [] ld_state_q = "ABORT_TRANSACTION" -> ld_state_q' = "WAIT_TRANSLATION"
               [] ld_state_q = "ABORT_TRANSACTION_NC" -> ld_state_q' = "WAIT_WB_EMPTY"
               [] ld_state_q = "WAIT_WB_EMPTY" ->
                    ld_state_q' \in {"WAIT_TRANSLATION", "WAIT_WB_EMPTY"}
               [] ld_state_q = "WAIT_TRANSLATION" ->
                    ld_state_q' \in {"WAIT_GNT", "WAIT_TRANSLATION"}
               [] OTHER -> ld_state_q' = "IDLE"
    BY <1>0, LoadUnitStep
  <1>2. /\ gnt => req /\ dc_state_q' = "READ"
        /\ ~gnt /\ ~Limbo => dc_state_q' # "READ"
        /\ dc_state_q = "IDLE" => dc_state_q' \in {"IDLE", "READ"}
        /\ Kills /\ dc_state_q = "READ" => dc_state_q' = "IDLE"
    BY <1>0, LoadPortStep DEF LoadUnitOK
  <1>3. /\ PopsStore(x) => Front.op \in {"store", "amo"}
        /\ ld_state_q' # "WAIT_FLUSH"
    BY <1>0, StoreStep, LoadStep DEF LoadUnitOK
  <1>4. Front.valid /\ ~Pops(x) /\ ~PopsStore(x) => Front' = Front
    BY FrontStep
  <1>5. ld_state_q \in LU!State
    BY DEF CoreTypes, LsuTypes, LU!TypeOK
  <1>6. /\ ld_state_q \notin {"IDLE", "SEND_TAG", "WAIT_FLUSH"} => Front.valid /\ Front.op = "load"
        /\ Aborts => dc_state_q = "READ" /\ Kills
        /\ ld_state_q \in {"WAIT_TRANSLATION", "WAIT_WB_EMPTY"} => dc_state_q = "IDLE"
        /\ ~Limbo
    BY DEF LoadUnitOK, PortOK, Kills
  <1> HIDE DEF req, gnt
  <1>7. ld_state_q' \notin {"IDLE", "SEND_TAG", "WAIT_FLUSH"}
          => Front.valid /\ Front.op = "load" /\ ~Pops(x)
    BY <1>1, <1>5, <1>6 DEF LU!State
  <1>8. dc_state_q' = "READ" => Aborts' \/ ld_state_q' \in {"SEND_TAG", "WAIT_FLUSH"}
    BY <1>1, <1>2, <1>6 DEF Aborts
  <1>9. Aborts' \/ ld_state_q' = "SEND_TAG" => dc_state_q' = "READ"
    BY <1>1, <1>2, <1>5 DEF Aborts, LU!State
  <1>10. ld_state_q' \in {"WAIT_TRANSLATION", "WAIT_WB_EMPTY"}
           => ~req /\ ld_state_q \in {"ABORT_TRANSACTION", "ABORT_TRANSACTION_NC",
                                       "WAIT_TRANSLATION", "WAIT_WB_EMPTY"}
    BY <1>1, <1>5 DEF LU!State
  <1>11. ld_state_q' \in {"WAIT_TRANSLATION", "WAIT_WB_EMPTY"} => dc_state_q' = "IDLE"
    BY <1>2, <1>6, <1>10 DEF Aborts
  <1> QED BY <1>3, <1>4, <1>7, <1>8, <1>9, <1>11 DEF LoadUnitOK, PortOK, Limbo

-----------------------------------------------------------------------------
(* The store unit *)

\* (j - c) % n and Wrap(j - c, n) are the same distance.
LEMMA WrapOrder ==
    ASSUME NEW c \in TransId, NEW i \in TransId, NEW j \in TransId
    PROVE  (j - c) % NR_SB_ENTRIES < (i - c) % NR_SB_ENTRIES
             <=> Wrap(j - c, NR_SB_ENTRIES) < Wrap(i - c, NR_SB_ENTRIES)
  <1>1. \A n \in Nat, k \in Int : n >= 2 /\ -n < k /\ k < n => k % n = Wrap(k, n)
    BY DEF Wrap
  <1>2. /\ NR_SB_ENTRIES \in Nat /\ NR_SB_ENTRIES >= 2 /\ c \in 0 .. NR_SB_ENTRIES - 1
        /\ i \in 0 .. NR_SB_ENTRIES - 1 /\ j \in 0 .. NR_SB_ENTRIES - 1
    BY LSUAssumption DEF TransId
  <1>3. /\ (j - c) % NR_SB_ENTRIES = Wrap(j - c, NR_SB_ENTRIES)
        /\ (i - c) % NR_SB_ENTRIES = Wrap(i - c, NR_SB_ENTRIES)
    BY <1>1, <1>2
  <1> QED BY <1>3

LEMMA OlderPos ==
    ASSUME CoreTypes, NEW i \in TransId, NEW j \in TransId
    PROVE  j \in Older(i) <=> Pos(j) < Pos(i)
  BY WrapOrder DEF Older, Pos, CoreTypes, SbTypes

\* An AMO is acknowledged only when it retires, which flushes the pipeline.
LEMMA AmoAckFlushes ==
    ASSUME NEW x, Inputs(x), x.amo_ack
    PROVE  /\ flush(x.amo_ack) /\ commit_ack0(x.amo_ack)
           /\ retires0 /\ c0.ins.op = "amo" /\ no_st_pending_o /\ amo_valid
  <1>1. no_st_pending_o /\ amo_valid_commit /\ amo_valid
    BY DEF Inputs, amo_req
  <1>2. retires0 /\ c0.ins.op = "amo"
    BY <1>1 DEF amo_valid_commit
  <1>3. commit_ack0(x.amo_ack)
    BY <1>2 DEF commit_ack0
  <1> QED BY <1>1, <1>2, <1>3 DEF flush

LEMMA AmoStep ==
    ASSUME CoreTypes, Calm, ScoreboardRing, OwnWork, LoadUnitOK, AmoOK, NoTrapYet, SecondStageHasRoom,
           NEW ins \in Instr \cup {NoInstr}, NEW x, Inputs(x), Steps(ins, x), ~flush(x.amo_ack)
    PROVE  AmoOK'
  <1>0. LSUStep(x)
    BY DEF Steps
  <1>1. /\ amo_valid' = IF amo_valid THEN ~x.amo_ack ELSE amo_buffer_valid(st_in(x))
        /\ amo_data' = IF amo_buffer_valid(st_in(x)) /\ ~amo_valid THEN st_q.req ELSE amo_data
    <2>1. SUStep(st_in(x)) /\ st_in(x).flush = flush(x.amo_ack) /\ st_in(x).amo_ack = x.amo_ack
      BY <1>0, LsuParts, StoreUnitInput
    <2> QED BY <2>1 DEF SUStep, amo_buffer
  <1>2. amo_buffer_valid(st_in(x)) = (Stores /\ ~flush(x.amo_ack) /\ st_q.amo)
    BY <1>0, StoreStep
  <1>3. ~x.amo_ack
    BY AmoAckFlushes
  <1>4. Stores /\ st_q.amo => ~amo_valid
    BY DEF SecondStageHasRoom, Stores
  <1>5. ASSUME NEW i \in TransId, DoneAmo(mem_sb'[i])
        PROVE  /\ mem_sb'[i].ins = mem_sb[i].ins
               /\ DoneAmo(mem_sb[i]) \/ (Stores /\ st_q.amo /\ i = st_trans_id_q)
    <2>1. /\ mem_sb'[i].ins = mem_sb[i].ins
          /\ mem_sb[i].valid \/ (Stores /\ i = st_trans_id_q)
      BY <1>5, DoneStep DEF DoneAmo
    <2> QED BY <1>5, <2>1 DEF DoneAmo, OwnWork
  <1>6. ASSUME NEW i \in TransId, DoneAmo(mem_sb'[i])
        PROVE  /\ amo_valid' /\ amo_data' = mem_sb'[i].ins.req
               /\ \A j \in TransId : DoneAmo(mem_sb'[j]) => j = i
    <2>1. CASE DoneAmo(mem_sb[i])
      <3>1. amo_valid /\ amo_data = mem_sb[i].ins.req
        BY <2>1 DEF AmoOK
      <3>2. \A j \in TransId : DoneAmo(mem_sb[j]) => j = i
        BY <2>1 DEF AmoOK
      <3> QED BY <1>1, <1>3, <1>4, <1>5, <1>6, <3>1, <3>2
    <2>2. CASE Stores /\ st_q.amo /\ i = st_trans_id_q
      <3>1. \A j \in TransId : ~DoneAmo(mem_sb[j])
        BY <1>4, <2>2 DEF AmoOK
      <3>2. mem_sb[i].ins.req = st_q.req
        BY <2>2 DEF OwnWork
      <3> QED BY <1>1, <1>2, <1>4, <1>5, <1>6, <2>2, <3>1, <3>2
    <2> QED BY <1>5, <1>6, <2>1, <2>2
  <1> QED BY <1>6 DEF AmoOK, DoneAmo

\* What retires is what the store unit holds for it: a store is the first one
\* of the speculative queue, an AMO the one in the AMO buffer.
HeadOK ==
    /\ retires0 /\ c0.ins.op = "store"
         => speculative_status_cnt_q > 0 /\ SpecContents[1] = c0.ins.req
    /\ retires0 /\ c0.ins.op = "amo" => amo_data = c0.ins.req

\* The commit stage keeps the contract.
LEMMA ContractHolds ==
    ASSUME ~SingleStep, HeadOK
    PROVE  CommitStageKeepsContract
  <1> SUFFICES ASSUME NEW amo_ack \in BOOLEAN, amo_ack => amo_req(amo_valid_commit)
               PROVE  CommitContract([commit |-> commit_lsu, flush |-> flush(amo_ack),
                                      amo_commit |-> amo_valid_commit, amo_ack |-> amo_ack])
    BY DEF CommitStageKeepsContract
  <1>1. ASSUME commit_lsu
        PROVE  /\ commit_ready_o /\ speculative_status_cnt_q > 0
               /\ ~flush(amo_ack) /\ ~amo_valid_commit
    <2>1. retires0 /\ c0.ins.op = "store" /\ commit_ready_o
      BY <1>1 DEF commit_lsu
    <2>2. ~flush(amo_ack) /\ ~amo_valid_commit
      BY <2>1 DEF flush, exception_taken, retires0, FlushOp, amo_valid_commit
    <2> QED BY <2>1, <2>2 DEF HeadOK
  <1> QED BY <1>1 DEF CommitContract

LEMMA StoreUnitKept ==
    ASSUME CoreTypes, ~SingleStep, IInv, HeadOK, NEW x, Inputs(x), LSUStep(x)
    PROVE  /\ st_in(x) \in Input /\ CommitContract(st_in(x)) /\ SUStep(st_in(x))
           /\ IInv'
  <1>1. SUStep(st_in(x)) /\ st_in(x) \in Input
    BY LsuParts, StoreUnitInput
  <1>2. CommitContract(st_in(x))
    <2>1. /\ st_in(x).commit = commit_lsu /\ st_in(x).amo_commit = amo_valid_commit
          /\ st_in(x).flush = flush(x.amo_ack) /\ st_in(x).amo_ack = x.amo_ack
      BY StoreUnitInput
    <2>2. x.amo_ack \in BOOLEAN /\ (x.amo_ack => amo_req(amo_valid_commit))
      BY DEF Inputs
    <2>3. CommitContract([commit |-> commit_lsu, flush |-> flush(x.amo_ack),
                          amo_commit |-> amo_valid_commit, amo_ack |-> x.amo_ack])
      BY <2>2, ContractHolds DEF CommitStageKeepsContract
    <2> QED BY <2>1, <2>3 DEF CommitContract
  <1>3. TypeOK'
    BY <1>1, TypeStep DEF IInv
  <1>4. RingsConsistent'
    BY <1>1, <1>2, SpecRingStep, CommitRingStep DEF RingsConsistent
  <1>5. SecondStageHasRoom'
    BY <1>1, <1>2, RoomStep
  <1> QED BY <1>1, <1>2, <1>3, <1>4, <1>5 DEF IInv

-----------------------------------------------------------------------------
(* The speculative queue *)

\* The queue from its head on: what is committed leaves it, what the second
\* stage of the store unit holds follows the last.
LEMMA SpecIndexing ==
    ASSUME IInv, NEW in \in Input, CommitContract(in), SUStep(in), ~in.flush,
           NEW c \in 0..1, NEW v \in 0..1,
           in.commit <=> c = 1, store_buffer_valid(in) <=> v = 1
    PROVE  LET cnt == speculative_status_cnt_q
           IN  /\ cnt \in Nat /\ cnt' = cnt - c + v /\ c <= cnt
               /\ DOMAIN SpecContents = 1 .. cnt /\ DOMAIN SpecContents' = 1 .. cnt'
               /\ \A k \in 1 .. cnt' : SpecContents'[k] = IF k + c <= cnt THEN SpecContents[k + c]
                                                          ELSE st_q.req
               /\ c = 1 => SpecContents[1] = committing.req
  <1> DEFINE S == SpecContents
             cnt == speculative_status_cnt_q
  <1>1. S \in Seq(Store) /\ Len(S) = cnt
    BY ContentsBounded
  <1>2. /\ S' = Queue!Drop(S, in.commit) \o (IF store_buffer_valid(in) THEN <<st_q.req>> ELSE <<>>)
        /\ in.commit => S # <<>> /\ Head(S) = committing.req
    BY SpecRefines
  <1>3. st_q.req \in Store
    BY DEF IInv, TypeOK, Request
  <1>4. DOMAIN S' = 1 .. cnt'
    BY DEF SpecContents, RingContents
  <1>5. PICK D \in Seq(Store) : D = Queue!Drop(S, in.commit)
    <2>1. Queue!Drop(S, in.commit) \in Seq(Store)
      BY <1>1, <1>2 DEF Queue!Drop
    <2> QED BY <2>1
  <1>6. Len(D) = cnt - c /\ c <= cnt /\ \A k \in 1 .. cnt - c : D[k] = S[k + c]
    <2>1. CASE c = 1
      <3>1. D = Tail(S) /\ S # <<>>
        BY <1>2, <1>5, <2>1 DEF Queue!Drop
      <3> HIDE DEF S
      <3> QED BY <1>1, <2>1, <3>1
    <2>2. CASE c = 0
      <3>1. D = S
        BY <1>5, <2>2 DEF Queue!Drop
      <3> HIDE DEF S
      <3> QED BY <1>1, <2>2, <3>1
    <2> QED BY <2>1, <2>2
  <1>7. PICK E \in Seq(Store) : E = IF store_buffer_valid(in) THEN <<st_q.req>> ELSE <<>>
    <2>1. (IF store_buffer_valid(in) THEN <<st_q.req>> ELSE <<>>) \in Seq(Store)
      BY <1>3
    <2> QED BY <2>1
  <1>8. Len(E) = v /\ (v = 1 => E[1] = st_q.req)
    BY <1>7
  <1>9. S' = D \o E
    BY <1>2, <1>5, <1>7
  <1>10. PICK T : T = S'
    OBVIOUS
  <1>11. T \in Seq(Store) /\ Len(T) = cnt - c + v /\ DOMAIN T = 1 .. cnt - c + v
    <2>1. Len(D \o E) = Len(D) + Len(E) /\ D \o E \in Seq(Store)
      OBVIOUS
    <2>2. cnt \in Nat
      BY <1>1
    <2> QED BY <1>6, <1>8, <1>9, <1>10, <2>1, <2>2
  <1>12. cnt' = cnt - c + v
    <2>1. cnt \in Nat /\ cnt' \in Nat
      <3>1. TypeOK'
        BY TypeStep DEF IInv
      <3> QED BY <3>1, DepthAssumption DEF IInv, TypeOK
    <2>2. 1 .. cnt' = 1 .. cnt - c + v
      BY <1>4, <1>10, <1>11
    <2> QED BY <1>6, <2>1, <2>2
  <1>13. \A k \in 1 .. cnt - c + v : T[k] = IF k + c <= cnt THEN S[k + c] ELSE st_q.req
    <2>1. \A k \in 1 .. Len(D) + Len(E) : (D \o E)[k] = IF k <= Len(D) THEN D[k] ELSE E[k - Len(D)]
      OBVIOUS
    <2>2. cnt \in Nat
      BY <1>1
    <2> TAKE k \in 1 .. cnt - c + v
    <2>3. T[k] = IF k <= cnt - c THEN D[k] ELSE E[k - (cnt - c)]
      BY <1>6, <1>8, <1>9, <1>10, <2>1
    <2>4. k > cnt - c => v = 1 /\ k - (cnt - c) = 1
      BY <1>6, <2>2
    <2> QED BY <1>6, <1>8, <2>2, <2>3, <2>4
  <1>14. DOMAIN S = 1 .. cnt /\ cnt \in Nat
    <2>1. DOMAIN S = 1 .. cnt
      BY DEF SpecContents, RingContents
    <2>2. cnt \in Nat
      BY <1>1
    <2> QED BY <2>1, <2>2
  <1>15. c = 1 => S[1] = committing.req
    BY <1>1, <1>2
  <1> HIDE DEF S
  <1> QED BY <1>4, <1>6, <1>10, <1>12, <1>13, <1>14, <1>15 DEF S

\* The store that retires leaves the executed ones, the one in the second
\* stage of the store unit joins them.
LEMMA DoneSet ==
    ASSUME CoreTypes, Calm, ScoreboardRing, OwnWork, LoadUnitOK, NoTrapYet,
           NEW ins \in Instr \cup {NoInstr}, NEW x, Inputs(x), Steps(ins, x), ~flush(x.amo_ack),
           NEW i \in TransId
    PROVE  /\ DoneStore(mem_sb'[i]) <=>
                 \/ DoneStore(mem_sb[i]) /\ ~(commit_lsu /\ i = commit_pointer_q)
                 \/ Stores /\ ~st_q.amo /\ i = st_trans_id_q
           /\ DoneStore(mem_sb'[i]) => /\ mem_sb'[i].ins = mem_sb[i].ins
                                       /\ Pos(i)' = Pos(i) - NRetired(x)
  <1>1. commit_lsu => commit_ack0(x.amo_ack)
    BY DEF commit_lsu, commit_ack0, FlushOp
  <1>2. DoneStore(mem_sb[i]) /\ Retired(i, x) => commit_lsu /\ i = commit_pointer_q
    BY DEF DoneStore, Retired, commit_ack0, commit_ack1, commit_lsu, c0, c1
  <1>3. ASSUME DoneStore(mem_sb'[i])
        PROVE  /\ \/ DoneStore(mem_sb[i]) /\ ~(commit_lsu /\ i = commit_pointer_q)
                  \/ Stores /\ ~st_q.amo /\ i = st_trans_id_q
               /\ mem_sb'[i].ins = mem_sb[i].ins
               /\ Pos(i)' = Pos(i) - NRetired(x)
    <2>1. /\ ~Retired(i, x) /\ mem_sb'[i].ins = mem_sb[i].ins
          /\ Pos(i)' = Pos(i) - NRetired(x) /\ ~mem_sb[i].ex
          /\ mem_sb[i].valid \/ (Stores /\ i = st_trans_id_q)
      BY <1>3, DoneStep DEF DoneStore
    <2>2. ~(commit_lsu /\ i = commit_pointer_q)
      BY <1>1, <2>1 DEF Retired
    <2>3. mem_sb[i].ins.op = "store"
      BY <1>3, <2>1 DEF DoneStore
    <2>4. Stores /\ i = st_trans_id_q => ~st_q.amo
      BY <2>3 DEF OwnWork
    <2> QED BY <2>1, <2>2, <2>3, <2>4 DEF DoneStore
  <1>4. ASSUME DoneStore(mem_sb[i]), ~(commit_lsu /\ i = commit_pointer_q)
        PROVE  DoneStore(mem_sb'[i])
    <2>1. ~Retired(i, x) /\ mem_sb[i].issued /\ mem_sb[i].valid
      BY <1>2, <1>4, EmptyEntryFields DEF DoneStore, ScoreboardRing
    <2>2. ~LoadFills(i) /\ ~OtherFills(i)
      BY <2>1 DEF LoadFills, OtherFills, OwnWork, Waits
    <2>3. ins = NoInstr \/ i # issue_pointer_q
      BY <2>1, EntryStep
    <2>4. mem_sb'[i] = mem_sb[i]
      BY <2>1, <2>2, <2>3, EntryStep
    <2> QED BY <1>4, <2>4
  <1>5. ASSUME Stores, ~st_q.amo, i = st_trans_id_q
        PROVE  DoneStore(mem_sb'[i])
    <2>1. Waits(i) /\ mem_sb[i].ins.op = "store"
      BY <1>5 DEF OwnWork
    <2>2. ~Retired(i, x) /\ OtherFills(i) /\ ~LoadFills(i)
      BY <1>5, <2>1, RetiredFacts DEF Waits, OtherFills, LoadFills, OwnWork
    <2>3. ins = NoInstr \/ i # issue_pointer_q
      BY <2>1, EntryStep DEF Waits
    <2>4. mem_sb'[i] = completed(mem_sb[i], zero.data, FALSE)
      BY <2>2, <2>3, EntryStep
    <2>5. mem_sb[i] \in SbEntry /\ ~mem_sb[i].ex
      BY <2>1 DEF CoreTypes, SbTypes, NoTrapYet
    <2>6. mem_sb'[i].valid /\ ~mem_sb'[i].ex /\ mem_sb'[i].ins = mem_sb[i].ins
      BY <2>4, <2>5 DEF completed, SbEntry
    <2> QED BY <2>1, <2>6 DEF DoneStore
  <1> QED BY <1>3, <1>4, <1>5

\* The transactions of the stores in the speculative queue, in their order.
Follows(id) ==
    /\ \A k \in 1 .. speculative_status_cnt_q : /\ DoneStore(mem_sb[id[k]])
                                                /\ SpecContents[k] = mem_sb[id[k]].ins.req
    /\ \A i \in TransId : DoneStore(mem_sb[i]) => \E k \in 1 .. speculative_status_cnt_q : id[k] = i
    /\ \A k, l \in 1 .. speculative_status_cnt_q : k < l => Pos(id[k]) < Pos(id[l])

LEMMA QueueIds ==
    ASSUME CoreTypes, SpeculativeQueueFollowsProgram
    PROVE  \E id \in [1 .. speculative_status_cnt_q -> TransId] : Follows(id)
  <1> DEFINE done == {i \in TransId : DoneStore(mem_sb[i])}
             dom == 1 .. speculative_status_cnt_q
  <1>1. DOMAIN SpecContents = dom
    BY DEF SpecContents, RingContents
  <1>2. PICK id \in [dom -> done] :
            /\ \A i \in done : \E k \in dom : id[k] = i
            /\ \A k, l \in dom : k < l => id[k] \in Older(id[l])
            /\ \A k \in dom : SpecContents[k] = mem_sb[id[k]].ins.req
    <2>1. \E id \in [DOMAIN SpecContents -> done] :
            /\ \A i \in done : \E k \in DOMAIN SpecContents : id[k] = i
            /\ \A k, l \in DOMAIN SpecContents : k < l => id[k] \in Older(id[l])
            /\ \A k \in DOMAIN SpecContents : SpecContents[k] = mem_sb[id[k]].ins.req
      BY Zenon DEF SpeculativeQueueFollowsProgram, SpecContents
    <2> HIDE DEF done, dom
    <2> QED BY <1>1, <2>1
  <1>3. \A k \in dom : id[k] \in TransId /\ DoneStore(mem_sb[id[k]])
    BY <1>2
  <1>4. \A k, l \in dom : k < l => Pos(id[k]) < Pos(id[l])
    BY <1>2, <1>3, OlderPos
  <1>5. id \in [dom -> TransId]
    BY <1>2, <1>3
  <1> QED BY <1>2, <1>3, <1>4, <1>5 DEF Follows

\* If the store at the commit pointer has been executed, it is the first one.
LEMMA HeadIsOldest ==
    ASSUME CoreTypes, NEW id \in [1 .. speculative_status_cnt_q -> TransId], Follows(id),
           DoneStore(mem_sb[commit_pointer_q])
    PROVE  speculative_status_cnt_q > 0 /\ id[1] = commit_pointer_q
  <1>1. commit_pointer_q \in TransId /\ speculative_status_cnt_q \in Nat
    BY DepthAssumption DEF CoreTypes, SbTypes, LsuTypes, TypeOK
  <1>2. PICK k \in 1 .. speculative_status_cnt_q : id[k] = commit_pointer_q
    BY <1>1 DEF Follows
  <1>3. 1 \in 1 .. speculative_status_cnt_q /\ k \in Int
    BY <1>1, <1>2
  <1>4. \A i \in TransId : Pos(i) >= 0 /\ Pos(i) \in Int
    BY PosFacts
  <1>5. Pos(commit_pointer_q) = 0
    BY <1>1, PosFacts
  <1>6. ~(1 < k)
    BY <1>2, <1>3, <1>4, <1>5 DEF Follows
  <1> QED BY <1>1, <1>2, <1>3, <1>6

LEMMA HeadRunning ==
    ASSUME CoreTypes, SpeculativeQueueFollowsProgram, AmoOK
    PROVE  HeadOK
  <1>1. commit_pointer_q \in TransId
    BY DEF CoreTypes, SbTypes
  <1>2. ASSUME retires0, c0.ins.op = "store"
        PROVE  speculative_status_cnt_q > 0 /\ SpecContents[1] = c0.ins.req
    <2>1. PICK id \in [1 .. speculative_status_cnt_q -> TransId] : Follows(id)
      BY QueueIds
    <2>2. DoneStore(mem_sb[commit_pointer_q])
      BY <1>2 DEF retires0, c0, DoneStore
    <2>3. speculative_status_cnt_q > 0 /\ id[1] = commit_pointer_q
      BY <2>1, <2>2, HeadIsOldest
    <2>4. 1 \in 1 .. speculative_status_cnt_q
      BY <2>3, DepthAssumption DEF CoreTypes, LsuTypes, TypeOK
    <2> QED BY <2>1, <2>3, <2>4 DEF Follows, c0
  <1>3. ASSUME retires0, c0.ins.op = "amo"
        PROVE  amo_data = c0.ins.req
    <2>1. DoneAmo(mem_sb[commit_pointer_q])
      BY <1>3 DEF retires0, c0, DoneAmo
    <2> QED BY <1>1, <2>1 DEF AmoOK, c0
  <1> QED BY <1>2, <1>3 DEF HeadOK

LEMMA SpecQueueStep ==
    ASSUME CoreTypes, Calm, ScoreboardRing, OwnWork, DoneInOrder, LoadUnitOK, NoTrapYet,
           ~SingleStep, HeadOK,
           IInv, SpeculativeQueueFollowsProgram, CoreTypes',
           NEW ins \in Instr \cup {NoInstr}, NEW x, Inputs(x), Steps(ins, x), ~flush(x.amo_ack)
    PROVE  SpeculativeQueueFollowsProgram'
  <1> DEFINE c == IF commit_lsu THEN 1 ELSE 0
             v == IF Stores /\ ~st_q.amo THEN 1 ELSE 0
             cnt == speculative_status_cnt_q
             P(i) == Wrap(i - commit_pointer_q', NR_SB_ENTRIES)
  <1>0. LSUStep(x)
    BY DEF Steps
  <1>1. /\ c \in 0..1 /\ v \in 0..1 /\ (commit_lsu <=> c = 1) /\ (Stores /\ ~st_q.amo <=> v = 1)
    OBVIOUS
  <1>2. /\ cnt \in Nat /\ cnt' = cnt - c + v /\ c <= cnt
        /\ DOMAIN SpecContents' = 1 .. cnt'
        /\ \A k \in 1 .. cnt' : SpecContents'[k] = IF k + c <= cnt THEN SpecContents[k + c]
                                                   ELSE st_q.req
    <2>1. st_in(x) \in Input /\ CommitContract(st_in(x)) /\ SUStep(st_in(x))
      BY <1>0, StoreUnitKept
    <2>2. ~st_in(x).flush /\ st_in(x).commit = commit_lsu
      BY StoreUnitInput
    <2>3. store_buffer_valid(st_in(x)) <=> Stores /\ ~st_q.amo
      BY <1>0, StoreStep
    <2> HIDE DEF c, v
    <2> QED BY <1>1, <2>1, <2>2, <2>3, SpecIndexing
  <1>3. PICK id \in [1 .. cnt -> TransId] : Follows(id)
    BY QueueIds
  <1>4. c = 1 => id[1] = commit_pointer_q
    <2>1. commit_lsu => DoneStore(mem_sb[commit_pointer_q])
      BY DEF commit_lsu, retires0, c0, DoneStore
    <2> QED BY <1>1, <1>3, <2>1, HeadIsOldest
  <1>5. ASSUME NEW i \in TransId
        PROVE  /\ DoneStore(mem_sb'[i]) <=> \/ DoneStore(mem_sb[i]) /\ ~(c = 1 /\ i = commit_pointer_q)
                                            \/ v = 1 /\ i = st_trans_id_q
               /\ DoneStore(mem_sb'[i]) => mem_sb'[i].ins = mem_sb[i].ins /\ P(i) = Pos(i) - NRetired(x)
    BY <1>1, DoneSet DEF Pos
  <1>6. v = 1 => /\ mem_sb[st_trans_id_q].ins.req = st_q.req
                 /\ \A i \in TransId : DoneStore(mem_sb[i]) => Pos(i) < Pos(st_trans_id_q)
    BY <1>1 DEF OwnWork, DoneInOrder
  <1>7. /\ st_trans_id_q \in TransId /\ NRetired(x) \in Int /\ \A i \in TransId : Pos(i) \in Int
    BY WorkType, RetiredFacts, PosFacts
  <1> HIDE DEF c, v, P
  <1> DEFINE nid == [k \in 1 .. cnt' |-> IF k + c <= cnt THEN id[k + c] ELSE st_trans_id_q]
             done == {i \in TransId : DoneStore(mem_sb'[i])}
  <1>8. ASSUME NEW k \in 1 .. cnt'
        PROVE  /\ k + c <= cnt => k + c \in 1 .. cnt /\ (c = 1 => id[k + c] # commit_pointer_q)
               /\ ~(k + c <= cnt) => v = 1 /\ k = cnt'
    <2>1. ~(k + c <= cnt) => v = 1 /\ k = cnt'
      BY <1>1, <1>2
    <2>2. k + c <= cnt => k + c \in 1 .. cnt
      BY <1>1, <1>2
    <2>3. ASSUME k + c <= cnt, c = 1 PROVE id[k + c] # commit_pointer_q
      <3>1. 1 \in 1 .. cnt /\ 1 < k + c /\ k + c \in 1 .. cnt
        BY <1>2, <2>2, <2>3
      <3>2. Pos(id[1]) < Pos(id[k + c])
        BY <1>3, <3>1 DEF Follows
      <3> QED BY <1>3, <1>4, <1>7, <2>3, <3>1, <3>2
    <2> QED BY <2>1, <2>2, <2>3
  <1>9. ASSUME NEW k \in 1 .. cnt'
        PROVE  nid[k] \in done /\ SpecContents'[k] = mem_sb'[nid[k]].ins.req
    <2>1. CASE k + c <= cnt
      <3>1. nid[k] = id[k + c] /\ k + c \in 1 .. cnt /\ SpecContents'[k] = SpecContents[k + c]
        BY <1>2, <1>8, <2>1
      <3>2. id[k + c] \in TransId /\ DoneStore(mem_sb[id[k + c]])
            /\ SpecContents[k + c] = mem_sb[id[k + c]].ins.req
        BY <1>3, <3>1 DEF Follows
      <3>3. DoneStore(mem_sb'[id[k + c]]) /\ mem_sb'[id[k + c]].ins = mem_sb[id[k + c]].ins
        BY <1>5, <1>8, <2>1, <3>2
      <3> QED BY <3>1, <3>2, <3>3
    <2>2. CASE ~(k + c <= cnt)
      <3>1. nid[k] = st_trans_id_q /\ v = 1 /\ SpecContents'[k] = st_q.req
        BY <1>2, <1>8, <2>2
      <3>2. DoneStore(mem_sb'[st_trans_id_q]) /\ mem_sb'[st_trans_id_q].ins = mem_sb[st_trans_id_q].ins
        BY <1>5, <1>7, <3>1
      <3> QED BY <1>6, <1>7, <3>1, <3>2
    <2> QED BY <2>1, <2>2
  <1>10. ASSUME NEW i \in done PROVE \E k \in 1 .. cnt' : nid[k] = i
    <2>1. CASE v = 1 /\ i = st_trans_id_q
      <3>1. cnt' \in 1 .. cnt' /\ ~(cnt' + c <= cnt)
        BY <1>1, <1>2, <2>1
      <3> QED BY <2>1, <3>1
    <2>2. CASE DoneStore(mem_sb[i]) /\ ~(c = 1 /\ i = commit_pointer_q)
      <3>1. PICK l \in 1 .. cnt : id[l] = i
        BY <1>3, <2>2 DEF Follows
      <3>2. c = 1 => l # 1
        BY <1>4, <2>2, <3>1
      <3>3. l - c \in 1 .. cnt' /\ l - c + c = l /\ l - c + c <= cnt
        BY <1>1, <1>2, <3>1, <3>2
      <3>4. nid[l - c] = id[l]
        BY <3>3
      <3> QED BY <3>1, <3>3, <3>4
    <2> QED BY <1>5, <2>1, <2>2
  <1>11. ASSUME NEW k \in 1 .. cnt', NEW l \in 1 .. cnt', k < l PROVE P(nid[k]) < P(nid[l])
    <2>1. k + c <= cnt /\ k + c \in 1 .. cnt /\ k \in Int /\ l \in Int /\ cnt' \in Int
      BY <1>1, <1>2, <1>8, <1>11
    <2>2. /\ nid[k] = id[k + c] /\ nid[k] \in TransId /\ nid[l] \in TransId
          /\ P(nid[k]) = Pos(nid[k]) - NRetired(x) /\ P(nid[l]) = Pos(nid[l]) - NRetired(x)
      BY <1>5, <1>9, <2>1
    <2>3. Pos(nid[k]) < Pos(nid[l])
      <3>1. CASE l + c <= cnt
        <4>1. nid[l] = id[l + c] /\ l + c \in 1 .. cnt /\ k + c < l + c
          BY <1>1, <1>8, <1>11, <2>1, <3>1
        <4> QED BY <1>3, <2>1, <2>2, <4>1 DEF Follows
      <3>2. CASE ~(l + c <= cnt)
        <4>1. nid[l] = st_trans_id_q /\ v = 1
          BY <1>8, <3>2
        <4> QED BY <1>3, <1>6, <2>1, <2>2, <4>1 DEF Follows
      <3> QED BY <3>1, <3>2
    <2> HIDE DEF nid
    <2> QED BY <1>7, <2>2, <2>3
  <1>12. PICK f \in [1 .. cnt' -> done] : f = nid
    <2>1. nid \in [1 .. cnt' -> done]
      BY <1>9
    <2> QED BY <2>1
  <1> HIDE DEF nid
  <1>13. \A k, l \in 1 .. cnt' : k < l => f[k] \in Older(f[l])'
    <2> SUFFICES ASSUME NEW k \in 1 .. cnt', NEW l \in 1 .. cnt', k < l
                 PROVE  f[k] \in Older(f[l])'
      OBVIOUS
    <2>1. f[k] \in TransId /\ f[l] \in TransId /\ commit_pointer_q' \in TransId
      BY <1>9, <1>12 DEF CoreTypes, SbTypes
    <2>2. P(f[k]) < P(f[l])
      BY <1>11, <1>12
    <2>3. (f[k] - commit_pointer_q') % NR_SB_ENTRIES < (f[l] - commit_pointer_q') % NR_SB_ENTRIES
      BY <2>1, <2>2, WrapOrder DEF P
    <2> QED BY <2>1, <2>3 DEF Older
  <1>14. /\ \A i \in done : \E k \in 1 .. cnt' : f[k] = i
         /\ \A k \in 1 .. cnt' : SpecContents'[k] = mem_sb'[f[k]].ins.req
    BY <1>9, <1>10, <1>12
  <1>15. DOMAIN SpecContents' = 1 .. cnt'
    BY <1>2
  <1>16. /\ f \in [DOMAIN SpecContents' -> done]
         /\ \A i \in done : \E k \in DOMAIN SpecContents' : f[k] = i
         /\ \A k, l \in DOMAIN SpecContents' : k < l => f[k] \in Older(f[l])'
         /\ \A k \in DOMAIN SpecContents' : SpecContents'[k] = mem_sb'[f[k]].ins.req
    BY <1>12, <1>13, <1>14, <1>15
  <1>17. \E g \in [DOMAIN SpecContents' -> done] :
            /\ \A i \in done : \E k \in DOMAIN SpecContents' : g[k] = i
            /\ \A k, l \in DOMAIN SpecContents' : k < l => g[k] \in Older(g[l])'
            /\ \A k \in DOMAIN SpecContents' : SpecContents'[k] = mem_sb'[g[k]].ins.req
    BY <1>16, Zenon
  <1> QED BY <1>17, Zenon DEF SpeculativeQueueFollowsProgram, SpecContents

-----------------------------------------------------------------------------
(* Memory *)

LEMMA Smallest ==
    ASSUME NEW T, T \subseteq Nat, T # {}
    PROVE  \E k \in T : \A l \in T : k <= l
  <1>1. \E R : IsWellFoundedOn(R, Nat) /\ \A k, l \in Nat : <<k, l>> \in R <=> k < l
    <2>1. IsWellFoundedOn(OpToRel(<, Nat), Nat)
      BY NatLessThanWellFounded
    <2>2. \A k, l \in Nat : <<k, l>> \in OpToRel(<, Nat) <=> k < l
      BY DEF OpToRel
    <2> QED BY <2>1, <2>2, Zenon
  <1>2. PICK R : IsWellFoundedOn(R, Nat) /\ \A k, l \in Nat : <<k, l>> \in R <=> k < l
    BY <1>1, Zenon
  <1>3. PICK k \in T : \A l \in T : ~(<<l, k>> \in R)
    <2>1. IsWellFoundedOn(R, Nat)
      BY <1>2
    <2> QED BY <2>1, WFMin, Zenon
  <1>4. ASSUME NEW l \in T PROVE k <= l
    <2>1. k \in Nat /\ l \in Nat /\ ~(<<l, k>> \in R)
      BY <1>3
    <2> QED BY <1>2, <2>1
  <1> QED BY <1>4

LEMMA Largest ==
    ASSUME NEW n \in Nat, NEW T, T \subseteq 1 .. n, T # {}
    PROVE  \E k \in T : \A l \in T : l <= k
  <1> DEFINE U == {n - k : k \in T}
  <1>1. \A k \in T : k \in Int /\ n - k \in Nat
    OBVIOUS
  <1>2. U \subseteq Nat /\ U # {}
    BY <1>1
  <1>3. PICK u \in U : \A l \in U : u <= l
    BY <1>2, Smallest
  <1>4. PICK k \in T : u = n - k
    BY <1>3
  <1>5. ASSUME NEW l \in T PROVE l <= k
    <2>1. n - k <= n - l
      BY <1>3, <1>4
    <2> QED BY <1>1, <2>1
  <1> QED BY <1>5

\* Youngest finds the last store to an address, if there is one.
LEMMA YoungestIs ==
    ASSUME NEW s \in Seq(Store), NEW a, NEW d, NEW k \in 1 .. Len(s), AddrOf(s[k]) = a,
           \A l \in 1 .. Len(s) : k < l => AddrOf(s[l]) # a
    PROVE  Youngest(s, a, d) = s[k].data
  <1> DEFINE ks == {l \in DOMAIN s : AddrOf(s[l]) = a}
  <1>1. k \in ks /\ \A l \in ks : l <= k
    OBVIOUS
  <1>2. \A m \in ks : (\A l \in ks : l <= m) => m = k
    BY <1>1
  <1> HIDE DEF ks
  <1>3. (CHOOSE m \in ks : \A l \in ks : l <= m) = k
    BY <1>1, <1>2
  <1>4. ks # {}
    BY <1>1
  <1> QED BY <1>3, <1>4 DEF Youngest, ks

LEMMA YoungestNone ==
    ASSUME NEW s \in Seq(Store), NEW a, NEW d, \A l \in 1 .. Len(s) : AddrOf(s[l]) # a
    PROVE  Youngest(s, a, d) = d
  <1>1. {k \in DOMAIN s : AddrOf(s[k]) = a} = {}
    OBVIOUS
  <1> QED BY <1>1 DEF Youngest

LEMMA YoungestCases ==
    ASSUME NEW s \in Seq(Store), NEW a
    PROVE  \/ \A l \in 1 .. Len(s) : AddrOf(s[l]) # a
           \/ \E k \in 1 .. Len(s) : /\ AddrOf(s[k]) = a
                                     /\ \A l \in 1 .. Len(s) : k < l => AddrOf(s[l]) # a
  <1> DEFINE ks == {l \in 1 .. Len(s) : AddrOf(s[l]) = a}
  <1>1. CASE ks = {}
    BY <1>1
  <1>2. CASE ks # {}
    <2>1. ks \subseteq 1 .. Len(s) /\ Len(s) \in Nat
      OBVIOUS
    <2>2. PICK k \in ks : \A l \in ks : l <= k
      BY <1>2, <2>1, Largest
    <2>3. k \in 1 .. Len(s) /\ AddrOf(s[k]) = a
      BY <2>2
    <2>4. ASSUME NEW l \in 1 .. Len(s), k < l PROVE AddrOf(s[l]) # a
      <3>1. l \in ks => l <= k
        BY <2>2
      <3> QED BY <2>3, <2>4, <3>1
    <2> QED BY <2>3, <2>4
  <1> QED BY <1>1, <1>2

\* A store behind the others is the youngest to its address.
LEMMA YoungestPush ==
    ASSUME NEW s \in Seq(Store), NEW r \in Store, NEW a, NEW d
    PROVE  Youngest(s \o <<r>>, a, d) = IF AddrOf(r) = a THEN r.data ELSE Youngest(s, a, d)
  <1>1. PICK t \in Seq(Store) : t = s \o <<r>>
    <2>1. s \o <<r>> \in Seq(Store)
      OBVIOUS
    <2> QED BY <2>1
  <1>2. /\ Len(t) = Len(s) + 1 /\ Len(s) \in Nat /\ t[Len(t)] = r
        /\ \A k \in 1 .. Len(s) : t[k] = s[k]
    BY <1>1
  <1>3. CASE AddrOf(r) = a
    <2>1. /\ Len(t) \in 1 .. Len(t) /\ AddrOf(t[Len(t)]) = a
          /\ \A l \in 1 .. Len(t) : Len(t) < l => AddrOf(t[l]) # a
      BY <1>2, <1>3
    <2>2. Youngest(t, a, d) = t[Len(t)].data
      BY <2>1, YoungestIs
    <2> QED BY <1>1, <1>2, <1>3, <2>2
  <1>4. CASE AddrOf(r) # a
    <2>1. CASE \A l \in 1 .. Len(s) : AddrOf(s[l]) # a
      <3>1. \A l \in 1 .. Len(t) : AddrOf(t[l]) # a
        BY <1>2, <1>4, <2>1
      <3>2. Youngest(t, a, d) = d /\ Youngest(s, a, d) = d
        BY <2>1, <3>1, YoungestNone
      <3> QED BY <1>1, <1>4, <3>2
    <2>2. CASE ~\A l \in 1 .. Len(s) : AddrOf(s[l]) # a
      <3>0. PICK k \in 1 .. Len(s) : /\ AddrOf(s[k]) = a
                                     /\ \A l \in 1 .. Len(s) : k < l => AddrOf(s[l]) # a
        BY <2>2, YoungestCases
      <3>1. k \in 1 .. Len(t) /\ AddrOf(t[k]) = a /\ t[k] = s[k]
        BY <1>2, <3>0
      <3>2. \A l \in 1 .. Len(t) : k < l => AddrOf(t[l]) # a
        BY <1>2, <1>4, <3>0
      <3>3. Youngest(t, a, d) = t[k].data
        BY <3>1, <3>2, YoungestIs
      <3>4. Youngest(s, a, d) = s[k].data
        BY <3>0, YoungestIs
      <3> QED BY <1>1, <1>4, <3>1, <3>3, <3>4
    <2> QED BY <2>1, <2>2
  <1> QED BY <1>3, <1>4

\* A store that moves from the head of the queue to memory changes nothing.
LEMMA YoungestPop ==
    ASSUME NEW s \in Seq(Store), s # <<>>, NEW a, NEW d
    PROVE  Youngest(s, a, d) = Youngest(Tail(s), a, IF AddrOf(s[1]) = a THEN s[1].data ELSE d)
  <1> DEFINE e == IF AddrOf(s[1]) = a THEN s[1].data ELSE d
  <1>1. PICK t \in Seq(Store) : t = Tail(s)
    <2>1. Tail(s) \in Seq(Store)
      OBVIOUS
    <2> QED BY <2>1
  <1>2. /\ Len(t) = Len(s) - 1 /\ Len(s) \in Nat /\ Len(s) >= 1
        /\ \A k \in 1 .. Len(s) - 1 : t[k] = s[k + 1]
    BY <1>1
  <1>3. CASE \A l \in 1 .. Len(t) : AddrOf(t[l]) # a
    <2>1. Youngest(t, a, e) = e
      BY <1>3, YoungestNone
    <2>2. \A l \in 1 .. Len(s) : 1 < l => AddrOf(s[l]) # a
      <3> SUFFICES ASSUME NEW l \in 1 .. Len(s), 1 < l PROVE AddrOf(s[l]) # a
        OBVIOUS
      <3>1. l - 1 \in 1 .. Len(t) /\ l - 1 \in 1 .. Len(s) - 1 /\ l - 1 + 1 = l
        BY <1>2
      <3>2. t[l - 1] = s[l - 1 + 1]
        BY <1>2, <3>1, Zenon
      <3>3. t[l - 1] = s[l]
        BY <3>1, <3>2, Zenon
      <3>4. AddrOf(t[l - 1]) # a
        BY <1>3, <3>1, Zenon
      <3> QED BY <3>3, <3>4, Zenon
    <2>3. CASE AddrOf(s[1]) = a
      <3>1. 1 \in 1 .. Len(s)
        BY <1>2
      <3>2. Youngest(s, a, d) = s[1].data
        BY <2>2, <2>3, <3>1, YoungestIs, Zenon
      <3>3. e = s[1].data
        BY <2>3
      <3>4. Youngest(s, a, d) = Youngest(t, a, e)
        BY <2>1, <3>2, <3>3, Zenon
      <3> QED BY <1>1, <3>4, Zenon
    <2>4. CASE AddrOf(s[1]) # a
      <3>1. \A l \in 1 .. Len(s) : AddrOf(s[l]) # a
        BY <1>2, <2>2, <2>4
      <3>2. Youngest(s, a, d) = d
        BY <3>1, YoungestNone
      <3> QED BY <1>1, <2>1, <2>4, <3>2
    <2> QED BY <2>3, <2>4
  <1>4. ASSUME NEW k \in 1 .. Len(t), AddrOf(t[k]) = a,
               \A l \in 1 .. Len(t) : k < l => AddrOf(t[l]) # a
        PROVE  Youngest(s, a, d) = Youngest(t, a, e)
    <2>1. k + 1 \in 1 .. Len(s) /\ s[k + 1] = t[k] /\ k \in Int
      BY <1>2
    <2>2. \A l \in 1 .. Len(s) : k + 1 < l => AddrOf(s[l]) # a
      <3> SUFFICES ASSUME NEW l \in 1 .. Len(s), k + 1 < l PROVE AddrOf(s[l]) # a
        OBVIOUS
      <3>1. l - 1 \in 1 .. Len(t) /\ l - 1 + 1 = l /\ k < l - 1
        BY <1>2, <2>1
      <3> QED BY <1>2, <1>4, <3>1
    <2>3. AddrOf(s[k + 1]) = a
      BY <1>4, <2>1
    <2>4. Youngest(s, a, d) = s[k + 1].data
      BY <2>1, <2>2, <2>3, YoungestIs
    <2> HIDE DEF e
    <2>5. Youngest(t, a, e) = t[k].data
      BY <1>4, YoungestIs
    <2> QED BY <2>1, <2>4, <2>5
  <1> HIDE DEF e
  <1>5. Youngest(s, a, d) = Youngest(t, a, e)
    <2>1. CASE \A l \in 1 .. Len(t) : AddrOf(t[l]) # a
      BY <1>1, <1>3, <2>1 DEF e
    <2> QED BY <1>4, <2>1, YoungestCases
  <1> QED BY <1>1, <1>5 DEF e

\* The store that the buffer commits is the one that retires.
LEMMA CommitsHead ==
    ASSUME CoreTypes, ~SingleStep, IInv, HeadOK, NEW x, Inputs(x), LSUStep(x), commit_lsu
    PROVE  committing.req = c0.ins.req /\ committing.req \in Store
  <1>1. st_in(x) \in Input /\ CommitContract(st_in(x)) /\ SUStep(st_in(x))
    BY StoreUnitKept
  <1>2. st_in(x).commit
    BY StoreUnitInput
  <1>3. speculative_status_cnt_q > 0 /\ SpecContents[1] = c0.ins.req
    BY DEF HeadOK, commit_lsu
  <1>4. 1 \in 1 .. speculative_status_cnt_q
    BY <1>3, DepthAssumption DEF IInv, TypeOK
  <1>5. SpecContents \in Seq(Store) /\ Len(SpecContents) = speculative_status_cnt_q
    BY ContentsBounded
  <1>6. SpecContents # <<>> /\ Head(SpecContents) = committing.req
    BY <1>1, <1>2, SpecRefines
  <1>7. committing.req = SpecContents[1] /\ committing.req \in Store
    BY <1>4, <1>5, <1>6
  <1> QED BY <1>3, <1>7

\* Memory and the commit queue in a cycle.
LEMMA MemoryStep ==
    ASSUME CoreTypes, ~SingleStep, IInv, HeadOK, CommittedStoresReachMemory,
           NEW ins \in Instr \cup {NoInstr}, NEW x, Inputs(x), Steps(ins, x)
    PROVE  CommittedStoresReachMemory'
  <1> DEFINE C == CommitContents
             evict == data_req /\ x.gnt
  <1>0. LSUStep(x)
    BY DEF Steps
  <1>1. st_in(x) \in Input /\ CommitContract(st_in(x)) /\ SUStep(st_in(x))
    BY <1>0, StoreUnitKept
  <1>2. /\ st_in(x).commit = commit_lsu /\ st_in(x).gnt = x.gnt
    BY StoreUnitInput
  <1>3. /\ C' = Queue!Drop(C, evict) \o (IF commit_lsu THEN <<committing.req>> ELSE <<>>)
        /\ evict => C # <<>>
    BY <1>1, <1>2, CommitRefines
  <1>4. C \in Seq(Store) /\ Len(C) = commit_status_cnt_q
    BY ContentsBounded
  <1>5. evict => data_out = C[1]
    <2> SUFFICES ASSUME evict PROVE data_out = C[1]
      OBVIOUS
    <2>1. Len(C) > 0
      BY <1>3, <1>4
    <2>2. 1 \in 1 .. commit_status_cnt_q
      BY <1>4, <2>1
    <2>3. C[1] = commit_queue_q[Wrap(commit_read_pointer_q + 1 - 1, DEPTH_COMMIT)].req
      BY <2>2 DEF CommitContents, RingContents
    <2>4. Wrap(commit_read_pointer_q + 1 - 1, DEPTH_COMMIT) = commit_read_pointer_q
      BY DepthAssumption DEF IInv, TypeOK, CommitIndex, Wrap
    <2> QED BY <2>3, <2>4 DEF data_out
  <1>6. commit_lsu => committing.req = c0.ins.req /\ committing.req \in Store
    BY <1>0, CommitsHead
  <1>7. mem \in [Addr -> Data] /\ arch \in [Addr -> Data]
    BY DEF CoreTypes, SbTypes
  <1>8. /\ mem' = Write(Write(mem, evict, data_out), x.amo_ack, amo_data)
        /\ arch' = Write(arch, commit_lsu \/ x.amo_ack, c0.ins.req)
    BY DEF Steps, memory
  <1>9. arch = [a \in Addr |-> Youngest(C, a, mem[a])]
    BY DEF CommittedStoresReachMemory, CommitContents
  <1> SUFFICES arch' = [a \in Addr |-> Youngest(C', a, mem'[a])]
    BY DEF CommittedStoresReachMemory, CommitContents
  <1>10. \A m \in [Addr -> Data], r \in Store, b \in BOOLEAN, a \in Addr :
            /\ Write(m, b, r)[a] = IF b /\ AddrOf(r) = a THEN r.data ELSE m[a]
            /\ Write(m, b, r) \in [Addr -> Data]
    BY DEF Write, AddrOf, Store, Addr
  <1>11. /\ evict \in BOOLEAN /\ data_out \in Store /\ x.amo_ack \in BOOLEAN /\ amo_data \in Store
         /\ commit_lsu \in BOOLEAN
    <2>1. commit_queue_q[commit_read_pointer_q] \in Entry
      BY DEF IInv, TypeOK
    <2>2. commit_queue_q[commit_read_pointer_q].valid \in BOOLEAN /\ data_out \in Store
      BY <2>1 DEF Entry, data_out
    <2>3. x.gnt \in BOOLEAN /\ x.amo_ack \in BOOLEAN /\ amo_data \in Store
      BY DEF Inputs, IInv, TypeOK
    <2> QED BY <2>2, <2>3 DEF data_req, commit_lsu
  <1>12. CASE ~x.amo_ack
    <2>1. mem' = Write(mem, evict, data_out) /\ arch' = Write(arch, commit_lsu, c0.ins.req)
      BY <1>8, <1>12 DEF Write
    <2>2. PICK D \in Seq(Store) : D = Queue!Drop(C, evict)
      <3>1. Queue!Drop(C, evict) \in Seq(Store)
        BY <1>3, <1>4 DEF Queue!Drop
      <3> QED BY <3>1
    <2> HIDE DEF C, evict
    <2>3. ASSUME NEW a \in Addr
          PROVE  Youngest(D, a, mem'[a]) = arch[a]
      <3>1. mem'[a] = IF evict /\ AddrOf(data_out) = a THEN data_out.data ELSE mem[a]
        BY <1>7, <1>10, <1>11, <2>1
      <3>2. arch[a] = Youngest(C, a, mem[a])
        BY <1>9
      <3>3. CASE evict
        <4>1. D = Tail(C) /\ C # <<>> /\ data_out = C[1]
          BY <1>3, <1>5, <2>2, <3>3 DEF Queue!Drop
        <4>2. mem'[a] = IF AddrOf(C[1]) = a THEN C[1].data ELSE mem[a]
          BY <3>1, <3>3, <4>1
        <4> QED BY <1>4, <3>2, <4>1, <4>2, YoungestPop
      <3>4. CASE ~evict
        <4>1. D = C /\ mem'[a] = mem[a]
          BY <2>2, <3>1, <3>4 DEF Queue!Drop
        <4> QED BY <3>2, <4>1
      <3> QED BY <3>3, <3>4
    <2>4. ASSUME NEW a \in Addr
          PROVE  Youngest(C', a, mem'[a]) = arch'[a]
      <3>1. CASE commit_lsu
        <4>1. C' = D \o <<committing.req>>
          BY <1>3, <2>2, <3>1
        <4>2. committing.req \in Store /\ committing.req = c0.ins.req
          BY <1>6, <3>1
        <4>3. Youngest(C', a, mem'[a])
                = IF AddrOf(committing.req) = a THEN committing.req.data ELSE Youngest(D, a, mem'[a])
          BY <4>1, <4>2, YoungestPush
        <4>4. arch'[a] = IF AddrOf(committing.req) = a THEN committing.req.data ELSE arch[a]
          <5>1. arch' = Write(arch, TRUE, committing.req)
            BY <2>1, <3>1, <4>2 DEF Write
          <5>2. Write(arch, TRUE, committing.req)[a]
                  = IF AddrOf(committing.req) = a THEN committing.req.data ELSE arch[a]
            BY <1>7, <4>2 DEF Write
          <5> QED BY <5>1, <5>2, Zenon
        <4> QED BY <2>3, <4>3, <4>4
      <3>2. CASE ~commit_lsu
        <4>1. C' = D \o <<>>
          BY <1>3, <2>2, <3>2
        <4>2. C' = D
          BY <4>1
        <4>3. arch' = arch
          BY <2>1, <3>2 DEF Write
        <4> QED BY <2>3, <4>2, <4>3
      <3> QED BY <3>1, <3>2
    <2>5. arch' \in [Addr -> Data]
      <3>1. CASE commit_lsu
        BY <1>6, <1>7, <1>10, <1>11, <2>1, <3>1, StoreAssumption DEF Write, Store, Addr, AddrOf
      <3>2. CASE ~commit_lsu
        BY <1>7, <2>1, <3>2 DEF Write
      <3> QED BY <3>1, <3>2
    <2> QED BY <2>4, <2>5
  <1>13. CASE x.amo_ack
    <2>1. retires0 /\ c0.ins.op = "amo" /\ no_st_pending_o
      BY <1>13, AmoAckFlushes
    <2>2. ~commit_lsu
      BY <2>1 DEF commit_lsu
    <2>3. C = <<>>
      BY <1>4, <2>1 DEF no_st_pending_o
    <2>4. ~evict
      BY <1>3, <2>3
    <2> HIDE DEF C, evict
    <2>5. C' = <<>> \o <<>>
      BY <1>3, <2>2, <2>3, <2>4 DEF Queue!Drop
    <2>6. C' = <<>>
      BY <2>5
    <2>7. amo_data = c0.ins.req
      BY <2>1 DEF HeadOK
    <2>8. mem' = Write(mem, TRUE, amo_data) /\ arch' = Write(arch, TRUE, amo_data)
      BY <1>8, <1>13, <2>4, <2>7 DEF Write
    <2>9. PICK e \in Seq(Store) : e = <<>>
      <3>1. <<>> \in Seq(Store)
        OBVIOUS
      <3> QED BY <3>1
    <2>10. \A a, d : Youngest(<<>>, a, d) = d
      <3>1. \A l \in 1 .. Len(e) : FALSE
        BY <2>9
      <3> QED BY <2>9, <3>1, YoungestNone
    <2>11. arch = mem
      BY <1>7, <1>9, <2>3, <2>10
    <2>12. mem' = arch' /\ mem' \in [Addr -> Data]
      BY <1>7, <1>11, <2>8, <2>11 DEF Write, Store, Addr, AddrOf
    <2>13. PICK m \in [Addr -> Data] : m = mem'
      BY <2>12
    <2>14. m = [a \in Addr |-> Youngest(<<>>, a, m[a])]
      BY <2>10, <2>13
    <2> QED BY <2>6, <2>12, <2>13, <2>14
  <1> QED BY <1>11, <1>12, <1>13

-----------------------------------------------------------------------------
(* A flush *)

\* A flush leaves nothing behind that would answer for a later instruction.
LEMMA FlushStep ==
    ASSUME CoreTypes,
           NEW ins \in Instr \cup {NoInstr}, NEW x, Inputs(x), Steps(ins, x), flush(x.amo_ack)
    PROVE  /\ mem_sb' = [i \in TransId |-> EmptyEntry]
           /\ issue_cnt_q' = 0 /\ issue_pointer_q' = 0 /\ commit_pointer_q' = 0
           /\ issue_q' = NoRequest /\ status_cnt_q' = 0
           /\ read_pointer_q' = 0 /\ write_pointer_q' = 0 /\ mem_q' = [i \in 0..1 |-> NoRequest]
           /\ state_q' = "IDLE" /\ ~Stores' /\ ld_state_q' = "WAIT_FLUSH"
           /\ ~Front'.valid /\ ~HasSecond' /\ ~Reads' /\ ~Returns'
  <1>0. LSUStep(x)
    BY DEF Steps
  <1>1. x.flush = TRUE
    BY DEF Inputs, flush
  <1>2. /\ mem_sb' = [i \in TransId |-> EmptyEntry]
        /\ issue_cnt_q' = 0 /\ issue_pointer_q' = 0 /\ commit_pointer_q' = 0
        /\ issue_q' = NoRequest
    BY <1>1 DEF Steps, scoreboard, id_ex
  <1>3. /\ status_cnt_q' = 0 /\ read_pointer_q' = 0 /\ write_pointer_q' = 0
        /\ mem_q' = [i \in 0..1 |-> NoRequest]
    BY <1>0, LsuParts DEF LB!LBStep
  <1>4. state_q' = "IDLE" /\ ~Stores'
    BY <1>0, StoreUnitStep DEF Stores
  <1>5. ld_state_q' = "WAIT_FLUSH"
    <2>1. LU!LUStep(ld(x)) /\ ld(x).flush = flush(x.amo_ack)
      BY <1>0, LsuParts, LoadUnitInput
    <2> QED BY <2>1 DEF LU!LUStep, LU!state_d
  <1>6. ~Front'.valid /\ ~HasSecond'
    BY <1>2, <1>3 DEF Front, HasSecond, NoRequest
  <1>7. ~Reads' /\ ~Returns'
    BY <1>5 DEF Reads, Returns
  <1> QED BY <1>2, <1>3, <1>4, <1>5, <1>6, <1>7

LEMMA FlushKeeps ==
    ASSUME CoreTypes,
           NEW ins \in Instr \cup {NoInstr}, NEW x, Inputs(x), Steps(ins, x), flush(x.amo_ack)
    PROVE  /\ ScoreboardRing' /\ FifoOK' /\ OwnWork' /\ InOrder' /\ DoneInOrder'
           /\ LoadUnitOK' /\ AmoOK' /\ AllFound' /\ LoadsClear'
           /\ RequestOK' /\ NoTrapYet' /\ Calm'
  <1>1. /\ mem_sb' = [i \in TransId |-> EmptyEntry]
        /\ issue_cnt_q' = 0 /\ issue_pointer_q' = 0 /\ commit_pointer_q' = 0
        /\ issue_q' = NoRequest /\ status_cnt_q' = 0
        /\ read_pointer_q' = 0 /\ write_pointer_q' = 0 /\ mem_q' = [i \in 0..1 |-> NoRequest]
        /\ state_q' = "IDLE" /\ ~Stores' /\ ld_state_q' = "WAIT_FLUSH"
        /\ ~Front'.valid /\ ~HasSecond' /\ ~Reads' /\ ~Returns'
    BY FlushStep
  <1>2. \A i \in TransId : mem_sb'[i] = EmptyEntry
    BY <1>1
  <1>3. ScoreboardRing'
    <2>1. \A i \in TransId : ~(Pos(i)' < 0)
      BY <1>1, LSUAssumption DEF Pos, Wrap, TransId
    <2>2. 0 = Wrap(0 + 0, NR_SB_ENTRIES)
      BY LSUAssumption DEF Wrap
    <2> QED BY <1>1, <1>2, <2>1, <2>2, EmptyEntryFields DEF ScoreboardRing
  <1>4. FifoOK'
    BY <1>1 DEF FifoOK, NoRequest
  <1>5. OwnWork' /\ InOrder'
    BY <1>1 DEF OwnWork, InOrder, NoRequest, FlushOp
  <1>6. DoneInOrder' /\ AmoOK' /\ AllFound'
    BY <1>2, EmptyEntryFields DEF DoneInOrder, AmoOK, AllFound, DoneStore, DoneAmo, Waits
  <1>7. LoadUnitOK'
    BY <1>1 DEF LoadUnitOK, PortOK, Limbo, Aborts
  <1>8. LoadsClear'
    BY <1>1, <1>2, EmptyEntryFields DEF LoadsClear
  <1>9. NoTrapYet'
    BY <1>1, <1>2, EmptyEntryFields DEF NoTrapYet, WillTrap, is_lsu, NoInstr
  <1>10. RequestOK'
    <2>1. ptw_state_q' \notin {"WAIT_GRANT", "PTE_LOOKUP", "PROPAGATE_ERROR"}
      <3>1. LSUStep(x)
        BY DEF Steps
      <3>2. LET in == walk_in(x, translation_req(x))
            IN  PTW!WStep(in) /\ in.flush = x.flush
        BY <3>1, LsuParts DEF walk_in
      <3>3. x.flush = TRUE
        BY DEF Inputs, flush
      <3> QED BY <3>2, <3>3 DEF PTW!WStep, PTW!state_d
    <2>2. /\ ~Stores' /\ ld_state_q' = "WAIT_FLUSH"
          /\ state_q' \notin {"WAIT_TRANSLATION", "WAIT_STORE_READY"}
      BY <1>1
    <2> QED BY <2>1, <2>2, Zenon DEF RequestOK
  <1>11. Calm'
    BY <1>1 DEF Calm
  <1> QED BY <1>3, <1>4, <1>5, <1>6, <1>7, <1>8, <1>9, <1>10, <1>11

LEMMA SpecQueueFlush ==
    ASSUME CoreTypes, ~SingleStep, IInv, HeadOK,
           NEW ins \in Instr \cup {NoInstr}, NEW x, Inputs(x), Steps(ins, x), flush(x.amo_ack)
    PROVE  SpeculativeQueueFollowsProgram'
  <1>1. \A i \in TransId : ~DoneStore(mem_sb'[i])
    BY FlushStep, EmptyEntryFields DEF DoneStore
  <1>2. SpecContents' = <<>>
    <2>1. LSUStep(x)
      BY DEF Steps
    <2>2. /\ st_in(x) \in Input /\ CommitContract(st_in(x)) /\ SUStep(st_in(x))
          /\ st_in(x).flush = flush(x.amo_ack)
      BY <2>1, StoreUnitKept, StoreUnitInput
    <2> QED BY <2>2, SpecRefines
  <1>3. DOMAIN SpecContents' = {}
    BY <1>2
  <1> DEFINE done == {i \in TransId : DoneStore(mem_sb'[i])}
  <1>4. done = {}
    BY <1>1
  <1>5. \E g \in [DOMAIN SpecContents' -> done] :
            /\ \A i \in done : \E k \in DOMAIN SpecContents' : g[k] = i
            /\ \A k, l \in DOMAIN SpecContents' : k < l => g[k] \in Older(g[l])'
            /\ \A k \in DOMAIN SpecContents' : SpecContents'[k] = mem_sb'[g[k]].ins.req
    <2>1. [k \in {} |-> k] \in [{} -> {}]
      OBVIOUS
    <2> HIDE DEF done
    <2> QED BY <1>3, <1>4, <2>1
  <1> QED BY <1>5, Zenon DEF SpeculativeQueueFollowsProgram, SpecContents

-----------------------------------------------------------------------------
(* Nothing is lost *)

\* What is completed has its result.
LEMMA CompletedFields ==
    ASSUME CoreTypes, NEW i \in TransId, NEW d
    PROVE  completed(mem_sb[i], d, FALSE).valid
  <1>1. mem_sb[i] \in SbEntry
    BY DEF CoreTypes, SbTypes
  <1> QED BY <1>1 DEF completed, SbEntry

LEMMA AllFoundStep ==
    ASSUME CoreTypes, Calm, ScoreboardRing, FifoOK, OwnWork, InOrder, LoadUnitOK, AllFound,
           NEW ins \in Instr \cup {NoInstr}, NEW x, Inputs(x), Steps(ins, x), ~flush(x.amo_ack)
    PROVE  AllFound'
  <1> DEFINE Found(i) == \/ Front'.valid /\ Front'.trans_id = i
                         \/ HasSecond' /\ Second'.trans_id = i
                         \/ Stores' /\ st_trans_id_q' = i
                         \/ Reads' /\ load_data_q' = i
                         \/ Returns' /\ load_pipe_q'.trans_id = i
  <1> SUFFICES ASSUME NEW i \in TransId, mem_sb'[i].issued, ~mem_sb'[i].valid,
                      is_lsu(mem_sb'[i].ins)
               PROVE  Found(i)
    BY DEF AllFound, Waits
  <1>0. LSUStep(x)
    BY DEF Steps
  <1>1. ~Retired(i, x)
    BY EntryStep, EmptyEntryFields
  <1>2. CASE ins # NoInstr /\ i = issue_pointer_q
    <2>1. mem_sb'[i] = NewEntry(ins)
      BY <1>2, EntryStep
    <2>2. mem_sb'[i].ins = ins
      BY <2>1, NewEntryFields, Zenon
    <2>3. issue_q'.valid /\ issue_q'.trans_id = i
      BY <1>2, <2>2, IssueStep
    <2> QED BY <2>3, FrontStep
  <1>3. CASE ins = NoInstr \/ i # issue_pointer_q
    <2>1. mem_sb'[i] = IF LoadFills(i) THEN completed(mem_sb[i], load_pipe_q.data, FALSE)
                       ELSE IF OtherFills(i) THEN completed(mem_sb[i], zero.data, FALSE)
                       ELSE mem_sb[i]
      BY <1>1, <1>3, EntryStep
    <2>2. ~LoadFills(i) /\ ~OtherFills(i) /\ mem_sb'[i] = mem_sb[i]
      BY <2>1, CompletedFields
    <2>3. \/ Front.valid /\ Front.trans_id = i
          \/ HasSecond /\ Second.trans_id = i
          \/ Reads /\ load_data_q = i
      BY <2>2 DEF AllFound, Waits, LoadFills, OtherFills
    <2>4. /\ Pops(x) => Reads' /\ (Reads => Answers(x))
          /\ Reads /\ ~Answers(x) => Reads'
          /\ ld_state_q' # "WAIT_FLUSH"
      BY <1>0, LoadStep DEF LoadUnitOK
    <2>5. load_data_q' = IF Pops(x) THEN Front.trans_id ELSE load_data_q
      BY <1>0, LoadUnitStep
    <2>6. PopsStore(x) => Stores' /\ st_trans_id_q' = Front.trans_id
      BY <1>0, StoreStep
    <2>7. CASE Front.valid /\ Front.trans_id = i
      BY <2>4, <2>5, <2>6, <2>7, FrontStep
    <2>8. CASE HasSecond /\ Second.trans_id = i
      BY <2>8, FrontStep
    <2>9. CASE Reads /\ load_data_q = i
      <3>1. Answers(x) => Returns' /\ load_pipe_q'.trans_id = load_data_q
        <4>1. load_pipe_q' = IF Answers(x)
                               THEN [valid |-> TRUE, trans_id |-> load_data_q,
                                     data |-> mem[rd_addr(dc_in(x))], ex |-> FALSE]
                               ELSE NoResult
          BY <1>0, LoadUnitStep
        <4> QED BY <2>4, <4>1 DEF Returns
      <3>2. ~Answers(x) => Reads' /\ load_data_q' = load_data_q
        BY <2>4, <2>5, <2>9
      <3> QED BY <2>9, <3>1, <3>2
    <2> QED BY <2>3, <2>7, <2>8, <2>9
  <1> QED BY <1>2, <1>3

-----------------------------------------------------------------------------
(* Loads and older stores *)

\* The offsets of all older stores are compared with that of the load.
LEMMA NoMatchClear ==
    ASSUME CoreTypes, ScoreboardRing, OwnWork, InOrder, AllFound, MmuOK, NoTrapYet, IInv,
           SpeculativeQueueFollowsProgram, NEW x, Inputs(x),
           Front.valid, ~page_offset_matches(x)
    PROVE  Clear(Front.trans_id)
  <1>1. lsu_ctrl(x) = Front
    BY FrontType DEF Inputs
  <1>2. mem_sb[Front.trans_id].ins.req = Front.req
    BY DEF OwnWork, WaitsFor, OwnRequest
  <1>3. /\ \A k \in CommitIndex : commit_queue_q[k].valid
                                    => commit_queue_q[k].req.off # Front.req.off
        /\ \A k \in SpecIndex : speculative_queue_q[k].valid
                                    => speculative_queue_q[k].req.off # Front.req.off
        /\ Stores => st_q.req.off # Front.req.off
    BY <1>1 DEF page_offset_matches, page_offset_matches_o, st_valid_without_flush, Stores,
                MmuOK, AddrOf
  <1>4. ASSUME NEW j \in TransId, mem_sb[j].ins.op = "store", Pos(j) < Pos(Front.trans_id)
        PROVE  mem_sb[j].ins.req.off # Front.req.off
    <2>1. mem_sb[j].issued
      BY <1>4, EmptyEntryFields DEF ScoreboardRing, NoInstr
    <2>2. CASE mem_sb[j].valid
      <3>1. DoneStore(mem_sb[j])
        BY <1>4, <2>2 DEF DoneStore, NoTrapYet
      <3>2. PICK id \in [1 .. speculative_status_cnt_q -> TransId] : Follows(id)
        BY QueueIds
      <3>3. PICK k \in 1 .. speculative_status_cnt_q : id[k] = j
        BY <3>1, <3>2 DEF Follows
      <3>4. SpecContents[k] = mem_sb[j].ins.req
        BY <3>2, <3>3 DEF Follows
      <3> DEFINE w == Wrap(speculative_read_pointer_q + k - 1, DEPTH_SPEC)
      <3>5. SpecContents[k] = speculative_queue_q[w].req
        BY DEF SpecContents, RingContents
      <3>6. w \in SpecIndex /\ speculative_queue_q[w].valid
        <4>1. /\ speculative_read_pointer_q \in 0 .. DEPTH_SPEC - 1
              /\ DEPTH_SPEC \in Nat /\ k \in Int /\ k >= 1 /\ k <= speculative_status_cnt_q
              /\ speculative_status_cnt_q \in Nat /\ speculative_status_cnt_q <= DEPTH_SPEC
          BY DepthAssumption DEF IInv, TypeOK, RingsConsistent, RingOK, SpecIndex
        <4>2. w \in 0 .. DEPTH_SPEC - 1
              /\ Wrap(w - speculative_read_pointer_q, DEPTH_SPEC) < speculative_status_cnt_q
          BY <4>1 DEF Wrap
        <4> QED BY <4>2 DEF IInv, RingsConsistent, RingOK, InWindow, SpecIndex
      <3> QED BY <1>3, <3>4, <3>5, <3>6
    <2>3. CASE ~mem_sb[j].valid
      <3>1. /\ Waits(j) /\ is_lsu(mem_sb[j].ins)
        BY <1>4, <2>1, <2>3 DEF Waits, is_lsu
      <3>2. /\ ~(Front.valid /\ Front.trans_id = j)
            /\ ~(HasSecond /\ Second.trans_id = j)
        <4>1. Pos(j) \in Int /\ Pos(Front.trans_id) \in Int
          BY WorkType, PosFacts
        <4> QED BY <1>4, <4>1 DEF InOrder
      <3>3. /\ ~(Reads /\ load_data_q = j) /\ ~(Returns /\ load_pipe_q.trans_id = j)
        BY <1>4 DEF OwnWork
      <3>4. Stores /\ st_trans_id_q = j
        BY <3>1, <3>2, <3>3 DEF AllFound
      <3> QED BY <1>3, <3>4 DEF OwnWork
    <2> QED BY <2>2, <2>3
  <1> QED BY <1>2, <1>3, <1>4 DEF Clear

\* An older store of an instruction was there before, and older.
LEMMA OlderStep ==
    ASSUME CoreTypes, ScoreboardRing,
           NEW ins \in Instr \cup {NoInstr}, NEW x, Inputs(x), Steps(ins, x), ~flush(x.amo_ack),
           NEW i \in TransId, mem_sb[i].issued, ~Retired(i, x)
    PROVE  /\ mem_sb'[i].ins = mem_sb[i].ins
           /\ \A j \in TransId : mem_sb'[j].ins.op = "store" /\ Pos(j)' < Pos(i)'
                => mem_sb[j].ins = mem_sb'[j].ins /\ Pos(j) < Pos(i)
  <1> DEFINE n == NRetired(x)
             P(j) == Wrap(j - commit_pointer_q', NR_SB_ENTRIES)
  <1>1. ASSUME NEW j \in TransId, ~Retired(j, x)
        PROVE  P(j) = Pos(j) - n
    <2>1. ~(Pos(j) < n) /\ Pos(j) \in Int /\ n \in Int
      BY <1>1, RetiredFacts, PosFacts
    <2>2. Pos(j) >= n
      BY <2>1
    <2>3. Pos(j)' = Pos(j) - n
      BY <2>2, PointerStep
    <2> QED BY <2>3 DEF Pos
  <1>2. ASSUME NEW j \in TransId, ~Retired(j, x), ins = NoInstr \/ j # issue_pointer_q
        PROVE  mem_sb'[j].ins = mem_sb[j].ins
    BY <1>2, FieldStep
  <1>3. ins # NoInstr => i # issue_pointer_q
    BY WriteStep
  <1>4. Pos(i) < issue_cnt_q
    BY DEF ScoreboardRing
  <1>5. ASSUME NEW j \in TransId, mem_sb'[j].ins.op = "store", P(j) < P(i)
        PROVE  mem_sb[j].ins = mem_sb'[j].ins /\ Pos(j) < Pos(i)
    <2>0. EmptyEntry.ins.op = "none"
      BY EmptyEntryFields DEF NoInstr
    <2>1. ~Retired(j, x)
      <3>1. Retired(j, x) => mem_sb'[j] = EmptyEntry
        BY WriteStep
      <3> QED BY <1>5, <2>0, <3>1
    <2>2. P(j) = Pos(j) - n /\ P(i) = Pos(i) - n
      BY <1>1, <2>1
    <2>3. Pos(j) \in Int /\ Pos(i) \in Int /\ n \in Int /\ issue_cnt_q \in Int
      BY RetiredFacts, PosFacts, TransIdType DEF CoreTypes, SbTypes
    <2> HIDE DEF P, n
    <2>4. Pos(j) < Pos(i)
      BY <1>5, <2>2, <2>3
    <2>5. Pos(issue_pointer_q) = issue_cnt_q
      BY PointerStep
    <2>6. j # issue_pointer_q
      BY <1>4, <2>3, <2>4, <2>5
    <2> QED BY <1>2, <2>1, <2>4, <2>6
  <1> QED BY <1>2, <1>3, <1>5 DEF Pos, P

\* Once no older store lies at the offset of a load, none will, and memory
\* does not change at its address.
LEMMA ClearStep ==
    ASSUME CoreTypes, ScoreboardRing, ~SingleStep, IInv, HeadOK,
           NEW ins \in Instr \cup {NoInstr}, NEW x, Inputs(x), Steps(ins, x), ~flush(x.amo_ack),
           NEW i \in TransId, mem_sb[i].issued, ~Retired(i, x), Clear(i)
    PROVE  /\ Clear(i)' /\ mem_sb'[i].ins = mem_sb[i].ins
           /\ mem_sb[i].ins.req \in Store
                => mem'[AddrOf(mem_sb[i].ins.req)] = mem[AddrOf(mem_sb[i].ins.req)]
  <1> DEFINE off == mem_sb[i].ins.req.off
  <1>0. LSUStep(x)
    BY DEF Steps
  <1>1. mem_sb'[i].ins = mem_sb[i].ins
    BY OlderStep
  <1>2. \A j \in TransId : mem_sb'[j].ins.op = "store" /\ Pos(j)' < Pos(i)'
            => mem_sb'[j].ins.req.off # off
    BY OlderStep DEF Clear
  <1>3. \A k \in CommitIndex : commit_queue_q[k].valid => commit_queue_q[k].req.off # off
    BY DEF Clear
  <1>4. commit_lsu => committing.req.off # off
    <2> SUFFICES ASSUME commit_lsu PROVE committing.req.off # off
      OBVIOUS
    <2>1. committing.req = c0.ins.req
      BY <1>0, CommitsHead
    <2>2. commit_ack0(x.amo_ack) /\ c0.ins.op = "store"
      BY DEF commit_lsu, commit_ack0, FlushOp
    <2>3. i # commit_pointer_q /\ commit_pointer_q \in TransId
      BY <2>2 DEF Retired, CoreTypes, SbTypes
    <2>4. Pos(commit_pointer_q) = 0 /\ Pos(i) # 0 /\ Pos(i) \in 0 .. NR_SB_ENTRIES - 1
      BY <2>3, PosFacts
    <2>5. Pos(commit_pointer_q) < Pos(i)
      BY <2>4, LSUAssumption
    <2> QED BY <2>1, <2>2, <2>3, <2>5 DEF Clear, c0
  <1>5. \A k \in CommitIndex : commit_queue_q'[k].valid => commit_queue_q'[k].req.off # off
    <2>1. store_if(commit_lsu, x.gnt)
      <3>1. SUStep(st_in(x)) /\ st_in(x).commit = commit_lsu /\ st_in(x).gnt = x.gnt
        BY <1>0, LsuParts, StoreUnitInput
      <3> QED BY <3>1 DEF SUStep, SBStep
    <2>2. /\ commit_queue_q \in [CommitIndex -> Entry] /\ commit_read_pointer_q \in CommitIndex
          /\ commit_write_pointer_q \in CommitIndex
      BY DEF IInv, TypeOK
    <2> DEFINE drained == IF data_req /\ x.gnt
                            THEN [commit_queue_q EXCEPT ![commit_read_pointer_q] = Invalid(@)]
                            ELSE commit_queue_q
    <2>3. commit_queue_q' = IF commit_lsu THEN [drained EXCEPT ![commit_write_pointer_q] = committing]
                                          ELSE drained
      BY <2>1 DEF store_if
    <2>4. \A k \in CommitIndex : drained[k].valid => drained[k] = commit_queue_q[k]
      BY <2>2 DEF Invalid, Entry
    <2>5. drained \in [CommitIndex -> Entry]
      BY <2>2 DEF Invalid, Entry
    <2> HIDE DEF drained
    <2> TAKE k \in CommitIndex
    <2>6. commit_queue_q'[k] = IF commit_lsu /\ k = commit_write_pointer_q THEN committing ELSE drained[k]
      BY <2>2, <2>3, <2>5
    <2> QED BY <1>3, <1>4, <2>4, <2>6
  <1>6. ASSUME mem_sb[i].ins.req \in Store
        PROVE  mem'[AddrOf(mem_sb[i].ins.req)] = mem[AddrOf(mem_sb[i].ins.req)]
    <2>1. ~x.amo_ack
      BY AmoAckFlushes
    <2>2. mem' = Write(mem, data_req /\ x.gnt, data_out)
      BY <2>1 DEF Steps, memory, Write
    <2>3. data_req => data_out.off # off
      BY <1>3 DEF data_req, data_out, IInv, TypeOK
    <2>4. data_req => AddrOf(data_out) # AddrOf(mem_sb[i].ins.req)
      BY <2>3 DEF AddrOf
    <2>5. mem \in [Addr -> Data] /\ AddrOf(mem_sb[i].ins.req) \in Addr
      BY <1>6 DEF CoreTypes, SbTypes, AddrOf, Store, Addr
    <2> QED BY <2>2, <2>4, <2>5 DEF Write
  <1>7. Clear(i)'
    BY <1>1, <1>2, <1>5 DEF Clear
  <1> QED BY <1>1, <1>6, <1>7

LEMMA LoadsClearStep ==
    ASSUME CoreTypes, Calm, ScoreboardRing, FifoOK, OwnWork, InOrder, LoadUnitOK, ~SingleStep, NoTrapYet, HeadOK,
           IInv, SpeculativeQueueFollowsProgram, AllFound, MmuOK, LoadsClear,
           NEW ins \in Instr \cup {NoInstr}, NEW x, Inputs(x), Steps(ins, x), ~flush(x.amo_ack)
    PROVE  LoadsClear'
  <1> DEFINE req == LU!data_req(ld(x))
             gnt == DC!data_gnt(dc_in(x))
             takes == Front.valid /\ Front.op = "load" /\ ld_state_q \in {"IDLE", "SEND_TAG"}
             Address(i) == AddrOf(mem_sb[i].ins.req)
  <1>0. LSUStep(x)
    BY DEF Steps
  <1>1. /\ req = ((takes /\ ~page_offset_matches(x)) \/ ld_state_q = "WAIT_GNT")
        /\ Pops(x) = (req /\ gnt /\ dtlb_hit(x) /\ ~StallNC(x))
        /\ load_data_q' = IF Pops(x) THEN Front.trans_id ELSE load_data_q
        /\ load_pipe_q' = IF Answers(x)
                            THEN [valid |-> TRUE, trans_id |-> load_data_q,
                                  data |-> mem[rd_addr(dc_in(x))], ex |-> FALSE]
                            ELSE NoResult
        /\ req => ld_state_q' = IF ~gnt THEN "WAIT_GNT"
                                ELSE IF ~dtlb_hit(x) THEN "ABORT_TRANSACTION"
                                ELSE IF StallNC(x) THEN "ABORT_TRANSACTION_NC"
                                ELSE "SEND_TAG"
        /\ ~req /\ takes => ld_state_q' = "WAIT_PAGE_OFFSET"
        /\ ~req /\ ~takes =>
             CASE ld_state_q = "WAIT_PAGE_OFFSET" ->
                    ld_state_q' = IF page_offset_matches(x) THEN "WAIT_PAGE_OFFSET"
                                                            ELSE "WAIT_GNT"
               [] ld_state_q = "ABORT_TRANSACTION" -> ld_state_q' = "WAIT_TRANSLATION"
               [] ld_state_q = "ABORT_TRANSACTION_NC" -> ld_state_q' = "WAIT_WB_EMPTY"
               [] ld_state_q = "WAIT_WB_EMPTY" ->
                    ld_state_q' \in {"WAIT_TRANSLATION", "WAIT_WB_EMPTY"}
               [] ld_state_q = "WAIT_TRANSLATION" ->
                    ld_state_q' \in {"WAIT_GNT", "WAIT_TRANSLATION"}
               [] OTHER -> ld_state_q' = "IDLE"
    BY <1>0, LoadUnitStep
  <1>2. ld_state_q \in LU!State
    BY DEF CoreTypes, LsuTypes, LU!TypeOK
  <1>3. /\ ld_state_q \notin {"IDLE", "SEND_TAG", "WAIT_FLUSH"} => Front.valid /\ Front.op = "load"
        /\ ld_state_q \notin {"IDLE", "SEND_TAG", "WAIT_FLUSH", "WAIT_PAGE_OFFSET"}
             => Clear(Front.trans_id)
    BY DEF LoadUnitOK, PortOK, LoadsClear
  <1>4. Front.valid /\ ~page_offset_matches(x) => Clear(Front.trans_id)
    BY NoMatchClear
  <1>5. /\ Front.trans_id \in TransId /\ load_data_q \in TransId /\ load_pipe_q.trans_id \in TransId
    BY WorkType
  <1>6. ASSUME NEW i \in TransId, mem_sb[i].issued
        PROVE  mem_sb[i].ins.req \in Store
    <2>1. mem_sb[i].ins \in Instr
      BY <1>6 DEF ScoreboardRing
    <2>2. mem_sb[i].ins \in [op : Op, req : Store, misaligned : BOOLEAN]
      BY <2>1, ConstantTypes
    <2> QED BY <2>2
  <1>7. ASSUME NEW i \in TransId, mem_sb[i].issued, ~Retired(i, x), Clear(i)
        PROVE  /\ Clear(i)' /\ mem_sb'[i].ins = mem_sb[i].ins
               /\ mem'[Address(i)] = mem[Address(i)]
    BY <1>6, <1>7, ClearStep
  <1>8. \A i \in TransId : Waits(i) => mem_sb[i].issued /\ ~Retired(i, x)
    BY RetiredFacts DEF Waits
  <1>9. /\ Front.valid => Waits(Front.trans_id) /\ mem_sb[Front.trans_id].ins.req = Front.req
        /\ Reads => Waits(load_data_q)
    BY DEF OwnWork, WaitsFor, OwnRequest
  <1> HIDE DEF req, gnt
  <1>10. ASSUME ld_state_q' \notin {"IDLE", "SEND_TAG", "WAIT_FLUSH", "WAIT_PAGE_OFFSET"}
         PROVE  Clear(Front.trans_id)'
    <2>1. Front.valid /\ Front.op = "load" /\ ~Pops(x) /\ Clear(Front.trans_id)
      BY <1>1, <1>2, <1>3, <1>4, <1>10 DEF LU!State
    <2>2. Front' = Front
      <3>1. ~PopsStore(x)
        BY <1>0, <2>1, StoreStep
      <3> QED BY <2>1, <3>1, FrontStep
    <2>3. PICK i \in TransId : i = Front.trans_id
      BY <1>5
    <2>4. Clear(i)'
      BY <1>7, <1>8, <1>9, <2>1, <2>3
    <2> QED BY <2>2, <2>3, <2>4 DEF Clear, Pos
  <1>11. ASSUME Reads'
         PROVE  /\ Clear(load_data_q)'
                /\ address_idx_q' = mem_sb'[load_data_q'].ins.req.off
                /\ (IF dc_state_q' = "READ" THEN lsu_q'.addr.page ELSE address_tag_q')
                     = mem_sb'[load_data_q'].ins.req.page
    <2>1. CASE Pops(x)
      <3>1. req /\ gnt /\ load_data_q' = Front.trans_id /\ Front.valid
        BY <1>0, <1>1, <2>1, LoadStep DEF LoadUnitOK
      <3>2. Clear(Front.trans_id)
        BY <1>1, <1>3, <1>4, <3>1
      <3>3. dc_state_q' = "READ" /\ address_idx_q' = Front.req.off
        BY <1>0, <3>1, LoadPortStep DEF gnt, LoadUnitOK
      <3>4. lsu_q' = [req |-> translation_req(x),
                      addr |-> [page |-> Front.req.page, off |-> Front.req.off],
                      misaligned |-> Front.misaligned /\ translation_req(x),
                      hit |-> dtlb_hit(x)]
        BY <1>0, LsuParts
      <3>5. lsu_q'.addr.page = Front.req.page
        BY <3>4
      <3>6. PICK i \in TransId : i = Front.trans_id
        BY <1>5
      <3>7. Clear(i)' /\ mem_sb'[i].ins = mem_sb[i].ins /\ mem_sb[i].ins.req = Front.req
        BY <1>7, <1>8, <1>9, <3>1, <3>2, <3>6
      <3>8. Clear(load_data_q)'
        BY <3>1, <3>6, <3>7 DEF Clear, Pos
      <3> QED BY <3>1, <3>3, <3>5, <3>6, <3>7, <3>8
    <2>2. CASE ~Pops(x)
      <3>1. Reads /\ ~Answers(x) /\ load_data_q' = load_data_q
        BY <1>0, <1>1, <1>11, <2>2, LoadStep DEF LoadUnitOK
      <3>2. dc_state_q \in Busy /\ ~Kills
        BY <3>1, CalmFacts DEF Reads, Busy, Kills, Aborts, LoadUnitOK, PortOK
      <3>3. ~DC!data_rvalid(dc_in(x))
        <4>1. Answers(x) = /\ ~Aborts /\ ld_state_q \notin {"WAIT_TRANSLATION", "WAIT_FLUSH"}
                           /\ DC!data_rvalid(dc_in(x))
          BY <1>0, LoadUnitStep
        <4>2. ld_state_q # "WAIT_TRANSLATION"
          BY <3>1 DEF Reads, LoadUnitOK, PortOK
        <4> QED BY <3>1, <3>2, <4>1, <4>2 DEF Kills
      <3>4. ~gnt /\ address_tag_q' = ReadPage
        <4>1. dc_state_q # "IDLE"
          BY <3>2 DEF Busy
        <4> QED BY <1>0, <3>2, <3>3, <4>1, LoadPortStep DEF gnt, LoadUnitOK
      <3>5. dc_state_q' # "READ" /\ address_idx_q' = address_idx_q
        BY <1>0, <3>4, LoadPortStep DEF gnt, LoadUnitOK
      <3>6. /\ Clear(load_data_q) /\ address_idx_q = mem_sb[load_data_q].ins.req.off
            /\ ReadPage = mem_sb[load_data_q].ins.req.page
        BY <3>1 DEF LoadsClear, ReadPage
      <3>7. PICK i \in TransId : i = load_data_q
        BY <1>5
      <3>8. Clear(i)' /\ mem_sb'[i].ins = mem_sb[i].ins
        BY <1>7, <1>8, <1>9, <3>1, <3>6, <3>7
      <3>9. Clear(load_data_q)'
        BY <3>1, <3>7, <3>8 DEF Clear, Pos
      <3> QED BY <3>1, <3>4, <3>5, <3>6, <3>7, <3>8, <3>9
    <2> QED BY <2>1, <2>2
  <1>12. ASSUME Returns'
         PROVE  /\ Clear(load_pipe_q.trans_id)'
                /\ load_pipe_q'.data = mem'[AddrOf(mem_sb'[load_pipe_q'.trans_id].ins.req)]
    <2>1. Answers(x)
      BY <1>1, <1>12 DEF Returns, NoResult
    <2>2. Reads
      BY <1>0, <2>1, LoadStep DEF LoadUnitOK
    <2>3. load_pipe_q'.trans_id = load_data_q /\ load_pipe_q'.data = mem[rd_addr(dc_in(x))]
      BY <1>1, <2>1
    <2>4. dc_state_q \in Busy /\ ~Kills
      BY <2>2, CalmFacts DEF Reads, Busy, Kills, Aborts, LoadUnitOK, PortOK
    <2>5. DC!data_rvalid(dc_in(x))
      BY <1>0, <2>1, LoadUnitStep
    <2>6. rd_addr(dc_in(x)) = [page |-> ReadPage, off |-> address_idx_q]
      BY <1>0, <2>4, <2>5, LoadPortStep DEF LoadUnitOK
    <2>7. /\ Clear(load_data_q) /\ address_idx_q = mem_sb[load_data_q].ins.req.off
          /\ ReadPage = mem_sb[load_data_q].ins.req.page
      BY <2>2 DEF LoadsClear, ReadPage
    <2>8. rd_addr(dc_in(x)) = Address(load_data_q)
      BY <2>6, <2>7 DEF AddrOf
    <2>9. PICK i \in TransId : i = load_data_q
      BY <1>5
    <2>10. Clear(i)' /\ mem_sb'[i].ins = mem_sb[i].ins /\ mem'[Address(i)] = mem[Address(i)]
      BY <1>7, <1>8, <1>9, <2>2, <2>7, <2>9
    <2>11. Clear(load_pipe_q.trans_id)'
      BY <2>3, <2>9, <2>10 DEF Clear, Pos
    <2> QED BY <2>3, <2>8, <2>9, <2>10, <2>11
  <1>13. ASSUME NEW i \in TransId, mem_sb'[i].valid, mem_sb'[i].ins.op = "load"
         PROVE  Clear(i)' /\ mem_sb'[i].result = mem'[AddrOf(mem_sb'[i].ins.req)]
    <2>1. /\ ~Retired(i, x) /\ mem_sb[i].issued /\ mem_sb'[i].ins = mem_sb[i].ins
          /\ \/ mem_sb[i].valid /\ mem_sb'[i] = mem_sb[i]
             \/ LoadFills(i) /\ mem_sb'[i].result = load_pipe_q.data
             \/ Stores /\ i = st_trans_id_q /\ mem_sb[i].ins.op # "load"
      BY <1>13, DoneStep
    <2>2. Clear(i) /\ mem_sb'[i].result = mem[Address(i)]
      <3>1. CASE mem_sb[i].valid /\ mem_sb'[i] = mem_sb[i]
        BY <1>13, <3>1 DEF LoadsClear
      <3>2. CASE LoadFills(i) /\ mem_sb'[i].result = load_pipe_q.data
        BY <3>2 DEF LoadsClear, LoadFills
      <3> QED BY <1>13, <2>1, <3>1, <3>2
    <2> QED BY <1>7, <2>1, <2>2
  <1> QED BY <1>10, <1>11, <1>12, <1>13 DEF LoadsClear

-----------------------------------------------------------------------------
(* The MMU *)

\* What the MMU registers in a cycle.
LEMMA MmuInput ==
    ASSUME CoreTypes, NEW x, Inputs(x), LSUStep(x)
    PROVE  /\ lsu_q'.req = translation_req(x) /\ lsu_q'.addr = AddrOf(Front.req)
           /\ lsu_q'.misaligned = (Front.misaligned /\ translation_req(x))
           /\ lsu_q'.hit = dtlb_hit(x)
           /\ Translate => (dtlb_hit(x) <=> Front.req.page \in dtlb)
           /\ translation_req(x) <=>
                \/ Front.op = "load" /\ LU!translation_req_o(ld(x))
                \/ is_store(Front) /\ translation_req_o(st_in(x))
  <1>1. lsu_q' = [req |-> translation_req(x),
                  addr |-> [page |-> Front.req.page, off |-> Front.req.off],
                  misaligned |-> Front.misaligned /\ translation_req(x),
                  hit |-> dtlb_hit(x)]
    BY LsuParts
  <1>2. lsu_ctrl(x) = Front
    BY FrontType DEF Inputs
  <1>3. LU!translation_req_o(ld_req_in(x)) = LU!translation_req_o(ld(x))
    BY LoadUnitInput
  <1> QED BY <1>1, <1>2, <1>3 DEF AddrOf, dtlb_hit, translation_req, is_load

\* The walker in a cycle: what it reports is what the page table holds.
LEMMA WalkStep ==
    ASSUME CoreTypes, NEW x, Inputs(x), LSUStep(x)
    PROVE  LET in == walk_in(x, translation_req(x))
           IN  /\ PTW!WStep(in)
               /\ in.access = (Translate /\ translation_req(x)) /\ in.hit = dtlb_hit(x)
               /\ in.page = Front.req.page /\ in.flush = flush(x.amo_ack)
               /\ PTW!dtlb_update(in) => ptw_page_q \notin Unmapped
               /\ PTW!fails(in) /\ ~is_instr_ptw_q => ptw_page_q \in Unmapped
               /\ PTW!dtlb_update(in) \/ dtlb' \subseteq dtlb
               /\ dtlb' \subseteq dtlb \cup {ptw_page_q}
  <1> DEFINE in == walk_in(x, translation_req(x))
  <1>1. PTW!WStep(in)
    BY LsuParts
  <1>2. /\ in.access = (Translate /\ translation_req(x)) /\ in.hit = dtlb_hit(x)
        /\ in.page = Front.req.page /\ in.flush = flush(x.amo_ack)
        /\ in.rvalid = x.w.rvalid /\ in.pte = x.w.pte
    <2>1. lsu_ctrl(x) = Front
      BY FrontType DEF Inputs
    <2> QED BY <2>1 DEF walk_in, Inputs
  <1>3. in.rvalid => in.pte \in PTW!Entries(ptw_page_q, ptw_lvl_q, is_instr_ptw_q)
    <2>1. x.w \in WalkAnswers
      BY DEF Inputs
    <2> QED BY <1>2, <2>1, WalkAnswerType
  <1> HIDE DEF in
  <1>4. PTW!dtlb_update(in) => ptw_page_q \notin Unmapped
    BY <1>3 DEF PTW!dtlb_update, PTW!looked_up, PTW!Entries
  <1>5. PTW!fails(in) /\ ~is_instr_ptw_q => ptw_page_q \in Unmapped
    BY <1>3 DEF PTW!fails, PTW!looked_up, PTW!descends, PTW!Entries
  <1>6. /\ PTW!dtlb_update(in) \/ dtlb' \subseteq dtlb
        /\ dtlb' \subseteq dtlb \cup {ptw_page_q}
    BY <1>1 DEF PTW!WStep, PTW!update_flush
  <1> QED BY <1>1, <1>2, <1>4, <1>5, <1>6 DEF in

LEMMA MmuStep ==
    ASSUME CoreTypes, PortOK, MmuOK, IInv, NEW x, Inputs(x), LSUStep(x)
    PROVE  MmuOK'
  <1> DEFINE in == walk_in(x, translation_req(x))
  <1>1. /\ lsu_q'.req = translation_req(x) /\ lsu_q'.addr = AddrOf(Front.req)
        /\ lsu_q'.misaligned = (Front.misaligned /\ translation_req(x))
        /\ lsu_q'.hit = dtlb_hit(x)
        /\ Translate => (dtlb_hit(x) <=> Front.req.page \in dtlb)
        /\ translation_req(x) <=>
             \/ Front.op = "load" /\ LU!translation_req_o(ld(x))
             \/ is_store(Front) /\ translation_req_o(st_in(x))
    BY MmuInput
  <1>2. lsu_q'.misaligned => lsu_q'.req
    BY <1>1
  <1>3. Stores' => lsu_q'.req /\ lsu_q'.hit /\ lsu_q'.addr = AddrOf(st_q'.req)
    <2> SUFFICES ASSUME Stores' PROVE lsu_q'.req /\ lsu_q'.hit /\ lsu_q'.addr = AddrOf(st_q'.req)
      OBVIOUS
    <2>1. starts(st_in(x)) /\ st_in(x).hit /\ is_store(Front) /\ st_q'.req = Front.req
      <3>1. st_q' = [req |-> Front.req, amo |-> Front.op = "amo"]
        BY StoreUnitStep
      <3>2. starts(st_in(x)) /\ st_in(x).hit
        BY StoreUnitStep
      <3>3. is_store(Front)
        BY <3>2, StoreUnitStep
      <3> QED BY <3>1, <3>2, <3>3
    <2>2. st_in(x).hit = dtlb_hit(x)
      BY StoreUnitInput
    <2> QED BY <1>1, <2>1, <2>2 DEF translation_req_o
  <1>4. ld_state_q' = "SEND_TAG" => lsu_q'.req /\ lsu_q'.hit
    <2> SUFFICES ASSUME ld_state_q' = "SEND_TAG" PROVE lsu_q'.req /\ lsu_q'.hit
      OBVIOUS
    <2>1. ld_state_q' = LU!state_d(ld(x))
      BY LsuParts DEF LU!LUStep
    <2>2. LU!data_req(ld(x)) /\ ld(x).hit
      BY <2>1 DEF LU!state_d, LU!requested
    <2>3. LU!translation_req_o(ld(x))
      BY <2>2 DEF LU!data_req, LU!translation_req_o
    <2>4. Front.op = "load"
      <3>1. LU!takes(ld(x)) \/ ld_state_q = "WAIT_GNT"
        BY <2>2 DEF LU!data_req
      <3>2. ld(x).valid = (Front.valid /\ Front.op = "load")
        BY LoadUnitInput
      <3> QED BY <3>1, <3>2 DEF LU!takes, PortOK
    <2>5. ld(x).hit = dtlb_hit(x)
      BY LoadUnitInput
    <2> QED BY <1>1, <2>2, <2>3, <2>4, <2>5
  <1>5. ASSUME Translate
        PROVE  /\ dtlb' \cap Unmapped = {}
               /\ lsu_q'.req /\ lsu_q'.hit => lsu_q'.addr.page \notin Unmapped
               /\ PTW!data_error' => ptw_page_q' \in Unmapped
    <2>1. /\ PTW!WStep(in)
          /\ PTW!dtlb_update(in) => ptw_page_q \notin Unmapped
          /\ PTW!fails(in) /\ ~is_instr_ptw_q => ptw_page_q \in Unmapped
          /\ PTW!dtlb_update(in) \/ dtlb' \subseteq dtlb
          /\ dtlb' \subseteq dtlb \cup {ptw_page_q}
      BY WalkStep
    <2> HIDE DEF in
    <2>2. dtlb \cap Unmapped = {}
      BY <1>5 DEF MmuOK
    <2>3. dtlb' \cap Unmapped = {}
      BY <2>1, <2>2
    <2>4. lsu_q'.hit => lsu_q'.addr.page \notin Unmapped
      BY <1>1, <1>5, <2>2 DEF AddrOf
    <2>5. ASSUME PTW!data_error' PROVE ptw_page_q' \in Unmapped
      <3>1. ptw_state_q' = "PROPAGATE_ERROR" /\ ~is_instr_ptw_q'
        BY <2>5 DEF PTW!data_error
      <3>2. ptw_state_q' = PTW!state_d(in)
        BY <2>1 DEF PTW!WStep
      <3>3. ptw_state_q \in {"IDLE", "WAIT_GRANT", "PTE_LOOKUP", "WAIT_RVALID", "PROPAGATE_ERROR"}
        BY DEF CoreTypes, WalkTypes, PTW!TypeOK
      <3>4. PTW!fails(in)
        BY <3>1, <3>2, <3>3 DEF PTW!state_d
      <3>5. ptw_state_q = "PTE_LOOKUP"
        BY <3>4 DEF PTW!fails, PTW!looked_up
      <3>6. is_instr_ptw_q' = is_instr_ptw_q /\ ptw_page_q' = ptw_page_q
        BY <2>1, <3>5 DEF PTW!WStep, PTW!starts
      <3> QED BY <2>1, <3>1, <3>4, <3>6
    <2> QED BY <2>3, <2>4, <2>5
  <1>6. ASSUME Translate, NEW k \in SpecIndex, speculative_queue_q'[k].valid
        PROVE  speculative_queue_q'[k].req.page \notin Unmapped \cup Forbidden
    <2> DEFINE v == store_buffer_valid(st_in(x))
               pushed == IF v THEN [speculative_queue_q EXCEPT ![speculative_write_pointer_q] =
                                      [req |-> st_q.req, valid |-> TRUE]]
                              ELSE speculative_queue_q
               popped == IF st_in(x).commit
                           THEN [pushed EXCEPT ![speculative_read_pointer_q] = Invalid(@)]
                           ELSE pushed
    <2>1. speculative_queue_q' = IF st_in(x).flush THEN [i \in SpecIndex |-> Invalid(popped[i])]
                                                   ELSE popped
      <3>1. SUStep(st_in(x))
        BY LsuParts
      <3> QED BY <3>1 DEF SUStep, SBStep, core_if
    <2>2. /\ speculative_queue_q \in [SpecIndex -> Entry] /\ st_q.req \in Store
          /\ speculative_write_pointer_q \in SpecIndex /\ speculative_read_pointer_q \in SpecIndex
      BY DEF IInv, TypeOK, Request
    <2>3. pushed \in [SpecIndex -> Entry]
      BY <2>2 DEF Entry
    <2>4. pushed[k] = IF v /\ k = speculative_write_pointer_q THEN [req |-> st_q.req, valid |-> TRUE]
                                                            ELSE speculative_queue_q[k]
      BY <2>2
    <2> HIDE DEF pushed
    <2>5. popped[k].valid => popped[k] = pushed[k]
      BY <2>3 DEF Invalid
    <2> HIDE DEF popped
    <2>6. speculative_queue_q'[k] = pushed[k]
      BY <1>6, <2>1, <2>5 DEF Invalid
    <2>7. CASE v /\ k = speculative_write_pointer_q
      <3>1. Stores /\ ~mmu_exception
        BY <2>7, StoreUnitStep
      <3>2. lsu_q.req /\ lsu_q.hit /\ lsu_q.addr = AddrOf(st_q.req) /\ lsu_q.addr.page \notin Unmapped
        BY <1>6, <3>1 DEF MmuOK
      <3>3. lsu_q.addr.page \notin Forbidden
        BY <1>6, <3>1, <3>2 DEF mmu_exception
      <3> QED BY <2>4, <2>6, <2>7, <3>2, <3>3 DEF AddrOf
    <2>8. CASE ~(v /\ k = speculative_write_pointer_q)
      BY <1>6, <2>4, <2>6, <2>8 DEF MmuOK
    <2> QED BY <2>7, <2>8
  <1> QED BY <1>2, <1>3, <1>4, <1>5, <1>6 DEF MmuOK

\* An access that the MMU answers without an exception does not trap.
LEMMA NoFault ==
    ASSUME MmuOK, NEW ins, Asked(ins), lsu_q.req, lsu_q.hit, ~mmu_exception
    PROVE  ~WillTrap(ins)
  <1>1. ~ins.misaligned /\ ins.req.page = lsu_q.addr.page
    BY DEF Asked, mmu_exception, AddrOf
  <1>2. Translate => lsu_q.addr.page \notin Unmapped /\ lsu_q.addr.page \notin Forbidden
    BY DEF MmuOK, mmu_exception
  <1> QED BY <1>1, <1>2 DEF WillTrap

\* What the load unit or the second stage of the store unit just asked for
\* does not trap, if nobody takes an exception.
LEMMA AnsweredIsSafe ==
    ASSUME CoreTypes, Calm, LoadUnitOK, RequestOK, MmuOK
    PROVE  /\ Stores => ~WillTrap(mem_sb[st_trans_id_q].ins)
           /\ ld_state_q = "SEND_TAG" => ~WillTrap(mem_sb[load_data_q].ins)
  <1>1. Stores => ~mmu_exception
    BY CalmFacts DEF Stores
  <1>2. ld_state_q = "SEND_TAG" => ~mmu_exception
    BY CalmFacts
  <1>3. Stores => Asked(mem_sb[st_trans_id_q].ins) /\ lsu_q.req /\ lsu_q.hit
    BY DEF RequestOK, MmuOK
  <1>4. ld_state_q = "SEND_TAG" => Asked(mem_sb[load_data_q].ins) /\ lsu_q.req /\ lsu_q.hit
    BY DEF RequestOK, MmuOK
  <1> QED BY <1>1, <1>2, <1>3, <1>4, NoFault

\* A request that asks for a translation is in front, and stays there unless
\* the translation is found.
LEMMA AskerStays ==
    ASSUME CoreTypes, Calm, ScoreboardRing, FifoOK, OwnWork, InOrder, LoadUnitOK, RequestOK,
           NEW ins \in Instr \cup {NoInstr}, NEW x, Inputs(x), Steps(ins, x), ~flush(x.amo_ack)
    PROVE  /\ translation_req(x) => Front.valid
           /\ ld_state_q' = "SEND_TAG" <=> Pops(x)
           /\ PopsStore(x) => Stores'
           /\ Pops(x) \/ PopsStore(x) => dtlb_hit(x) /\ translation_req(x)
           /\ Front.valid /\ ld_state_q' # "SEND_TAG" /\ ~Stores' => Front' = Front
           /\ Front.valid /\ ~dtlb_hit(x) => Front' = Front
           /\ state_q' \in {"WAIT_TRANSLATION", "WAIT_STORE_READY"}
                => Front.valid /\ is_store(Front) /\ ~Stores' /\ Front' = Front
  <1>0. LSUStep(x)
    BY DEF Steps
  <1> DEFINE req == LU!data_req(ld(x))
             gnt == DC!data_gnt(dc_in(x))
             takes == Front.valid /\ Front.op = "load" /\ ld_state_q \in {"IDLE", "SEND_TAG"}
  <1>1. /\ req = ((takes /\ ~page_offset_matches(x)) \/ ld_state_q = "WAIT_GNT")
        /\ Pops(x) = (req /\ gnt /\ dtlb_hit(x) /\ ~StallNC(x))
        /\ req => ld_state_q' = IF ~gnt THEN "WAIT_GNT"
                                ELSE IF ~dtlb_hit(x) THEN "ABORT_TRANSACTION"
                                ELSE IF StallNC(x) THEN "ABORT_TRANSACTION_NC"
                                ELSE "SEND_TAG"
        /\ ~req /\ takes => ld_state_q' = "WAIT_PAGE_OFFSET"
        /\ ~req /\ ~takes =>
             CASE ld_state_q = "WAIT_PAGE_OFFSET" ->
                    ld_state_q' = IF page_offset_matches(x) THEN "WAIT_PAGE_OFFSET"
                                                            ELSE "WAIT_GNT"
               [] ld_state_q = "ABORT_TRANSACTION" -> ld_state_q' = "WAIT_TRANSLATION"
               [] ld_state_q = "ABORT_TRANSACTION_NC" -> ld_state_q' = "WAIT_WB_EMPTY"
               [] ld_state_q = "WAIT_WB_EMPTY" ->
                    ld_state_q' \in {"WAIT_TRANSLATION", "WAIT_WB_EMPTY"}
               [] ld_state_q = "WAIT_TRANSLATION" ->
                    ld_state_q' \in {"WAIT_GNT", "WAIT_TRANSLATION"}
               [] OTHER -> ld_state_q' = "IDLE"
    BY <1>0, LoadUnitStep
  <1> HIDE DEF req, gnt, takes
  <1>2. ld_state_q' = "SEND_TAG" <=> Pops(x)
    BY <1>1
  <1>3. LU!translation_req_o(ld(x)) <=> takes \/ ld_state_q \in {"WAIT_TRANSLATION", "WAIT_GNT"}
    <2>1. ld(x).valid = (Front.valid /\ Front.op = "load")
      BY LoadUnitInput
    <2> QED BY <2>1 DEF LU!translation_req_o, LU!takes, takes
  <1>4. translation_req(x) <=> \/ Front.op = "load" /\ LU!translation_req_o(ld(x))
                               \/ is_store(Front) /\ translation_req_o(st_in(x))
    BY <1>0, MmuInput
  <1>5. ld_state_q \in {"WAIT_TRANSLATION", "WAIT_GNT"} => Front.valid /\ Front.op = "load"
    BY DEF LoadUnitOK, PortOK
  <1>6. Pops(x) => Front.valid /\ Front.op = "load" /\ dtlb_hit(x) /\ LU!translation_req_o(ld(x))
    BY <1>1, <1>3, <1>5 DEF takes
  <1>7. /\ PopsStore(x) => Front.valid /\ Front.op \in {"store", "amo"}
        /\ Stores' = (PopsStore(x) /\ ~flush(x.amo_ack))
    BY <1>0, StoreStep
  <1>8. ~Raised
    BY CalmFacts DEF Raised
  <1>9. /\ PopsStore(x) = (Raised \/ (starts(st_in(x)) /\ st_in(x).hit /\ st_ready(st_in(x))))
        /\ starts(st_in(x)) => Front.valid /\ is_store(Front)
        /\ state_q' # "IDLE" => starts(st_in(x)) \/ state_q \in {"WAIT_TRANSLATION", "WAIT_STORE_READY"}
    BY <1>0, StoreUnitStep, Zenon
  <1>10. st_in(x).hit = dtlb_hit(x)
    BY StoreUnitInput
  <1>11. state_q \in {"WAIT_TRANSLATION", "WAIT_STORE_READY"} => Front.valid /\ is_store(Front)
    BY DEF RequestOK
  <1>12. translation_req_o(st_in(x)) => Front.valid
    BY <1>9, <1>11 DEF translation_req_o
  <1>13. PopsStore(x) => dtlb_hit(x) /\ is_store(Front) /\ translation_req_o(st_in(x)) /\ Stores'
    BY <1>7, <1>8, <1>9, <1>10 DEF translation_req_o
  <1>14. translation_req(x) => Front.valid
    BY <1>3, <1>4, <1>5, <1>12 DEF takes
  <1>15. Front.valid /\ ~Pops(x) /\ ~PopsStore(x) => Front' = Front
    BY FrontStep
  <1>16. state_q' \in {"WAIT_TRANSLATION", "WAIT_STORE_READY"}
           => Front.valid /\ is_store(Front) /\ ~Stores' /\ ~PopsStore(x) /\ ~Pops(x)
    <2>1. state_q' \in {"WAIT_TRANSLATION", "WAIT_STORE_READY"} => Front.valid /\ is_store(Front)
      BY <1>9, <1>11
    <2>2. state_q' \in {"WAIT_TRANSLATION", "WAIT_STORE_READY"} => ~Stores'
      BY DEF Stores
    <2> QED BY <1>6, <1>13, <2>1, <2>2 DEF is_store
  <1> QED BY <1>2, <1>4, <1>6, <1>13, <1>14, <1>15, <1>16

LEMMA RequestStep ==
    ASSUME CoreTypes, Calm, ScoreboardRing, FifoOK, OwnWork, InOrder, LoadUnitOK, RequestOK, MmuOK',
           NEW ins \in Instr \cup {NoInstr}, NEW x, Inputs(x), Steps(ins, x), ~flush(x.amo_ack)
    PROVE  RequestOK'
  <1>0. LSUStep(x)
    BY DEF Steps
  <1>1. /\ lsu_q'.req = translation_req(x) /\ lsu_q'.addr = AddrOf(Front.req)
        /\ lsu_q'.misaligned = (Front.misaligned /\ translation_req(x))
        /\ Translate => (dtlb_hit(x) <=> Front.req.page \in dtlb)
    BY <1>0, MmuInput
  <1>2. /\ translation_req(x) => Front.valid
        /\ ld_state_q' = "SEND_TAG" <=> Pops(x)
        /\ Front.valid /\ ld_state_q' # "SEND_TAG" /\ ~Stores' => Front' = Front
        /\ Front.valid /\ ~dtlb_hit(x) => Front' = Front
        /\ state_q' \in {"WAIT_TRANSLATION", "WAIT_STORE_READY"}
             => Front.valid /\ is_store(Front) /\ ~Stores' /\ Front' = Front
    BY AskerStays
  <1>3. Front \in LsuRequest
    BY WorkType
  <1>4. ASSUME lsu_q'.req
        PROVE  lsu_q'.misaligned = Front.misaligned
    BY <1>1, <1>3, <1>4 DEF LsuRequest
  <1>5. Front.valid => /\ mem_sb'[Front.trans_id].ins.req = Front.req
                       /\ mem_sb'[Front.trans_id].ins.misaligned = Front.misaligned
    <2>1. Front.valid => mem_sb'[Front.trans_id] = mem_sb[Front.trans_id]
      BY KeptStep
    <2> QED BY <2>1 DEF OwnWork, WaitsFor, OwnRequest
  <1>6. Stores' => Asked(mem_sb[st_trans_id_q].ins)'
    <2>1. st_trans_id_q' = Front.trans_id /\ (Stores' => Front.valid)
      BY <1>0, StoreStep
    <2>2. Stores' => lsu_q'.req
      BY DEF MmuOK
    <2> QED BY <1>1, <1>4, <1>5, <2>1, <2>2 DEF Asked
  <1>7. ld_state_q' = "SEND_TAG" => Asked(mem_sb[load_data_q].ins)'
    <2>1. Pops(x) => Front.valid
      BY <1>0, LoadStep DEF LoadUnitOK
    <2>2. load_data_q' = IF Pops(x) THEN Front.trans_id ELSE load_data_q
      BY <1>0, LoadUnitStep
    <2>3. ld_state_q' = "SEND_TAG" => lsu_q'.req
      BY DEF MmuOK
    <2> QED BY <1>1, <1>2, <1>4, <1>5, <2>1, <2>2, <2>3 DEF Asked
  <1>8. lsu_q'.req /\ ~Stores' /\ ld_state_q' \notin {"SEND_TAG", "WAIT_FLUSH"}
          => Front'.valid /\ Asked(Front)'
    BY <1>1, <1>2, <1>4 DEF Asked
  <1>9. state_q' \in {"WAIT_TRANSLATION", "WAIT_STORE_READY"} => Front'.valid /\ is_store(Front')
    BY <1>2
  <1>10. ASSUME Translate, ~is_instr_ptw_q',
                ptw_state_q' \in {"WAIT_GRANT", "PTE_LOOKUP", "PROPAGATE_ERROR"}
         PROVE  Front'.valid /\ Front'.req.page = ptw_page_q' /\ ptw_page_q' \notin dtlb'
    <2> DEFINE in == walk_in(x, translation_req(x))
    <2>1. /\ PTW!WStep(in) /\ in.flush = flush(x.amo_ack)
          /\ in.access = (Translate /\ translation_req(x)) /\ in.hit = dtlb_hit(x)
          /\ in.page = Front.req.page
          /\ PTW!dtlb_update(in) \/ dtlb' \subseteq dtlb
      BY <1>0, WalkStep
    <2> HIDE DEF in
    <2>2. ptw_state_q' = PTW!state_d(in) /\ ~in.flush
      BY <2>1 DEF PTW!WStep
    <2>3. ptw_state_q \in {"IDLE", "WAIT_GRANT", "PTE_LOOKUP", "WAIT_RVALID", "PROPAGATE_ERROR"}
      BY DEF CoreTypes, WalkTypes, PTW!TypeOK
    <2>4. CASE PTW!starts(in)
      <3>1. ptw_state_q = "IDLE" /\ in.access /\ ~in.hit /\ ptw_page_q' = in.page
        BY <1>10, <2>1, <2>4 DEF PTW!starts, PTW!WStep
      <3>2. dtlb' \subseteq dtlb
        BY <2>1, <3>1 DEF PTW!dtlb_update, PTW!looked_up
      <3> QED BY <1>1, <1>2, <1>10, <2>1, <3>1, <3>2
    <2>5. CASE ~PTW!starts(in)
      <3>1. ptw_state_q \in {"WAIT_GRANT", "PTE_LOOKUP"} /\ ~PTW!dtlb_update(in)
        BY <1>10, <2>2, <2>3, <2>5 DEF PTW!state_d, PTW!descends, PTW!fails, PTW!looked_up, PTW!dtlb_update
      <3>2. ptw_page_q' = ptw_page_q /\ is_instr_ptw_q' = is_instr_ptw_q
        BY <2>1, <2>5, <3>1 DEF PTW!WStep
      <3>3. Front.valid /\ Front.req.page = ptw_page_q /\ ptw_page_q \notin dtlb
        BY <1>10, <3>1, <3>2 DEF RequestOK
      <3> QED BY <1>1, <1>2, <1>10, <2>1, <3>1, <3>2, <3>3
    <2> QED BY <2>4, <2>5
  <1> QED BY <1>6, <1>7, <1>8, <1>9, <1>10 DEF RequestOK

LEMMA NoTrapStep ==
    ASSUME CoreTypes, Calm, ScoreboardRing, FifoOK, OwnWork, InOrder, LoadUnitOK, RequestOK, MmuOK,
           NoTrapYet,
           NEW ins \in Instr \cup {NoInstr}, NEW x, Inputs(x), Steps(ins, x), ~flush(x.amo_ack)
    PROVE  NoTrapYet'
  <1>0. LSUStep(x)
    BY DEF Steps
  <1>1. /\ Stores => ~WillTrap(mem_sb[st_trans_id_q].ins)
        /\ ld_state_q = "SEND_TAG" => ~WillTrap(mem_sb[load_data_q].ins)
    BY AnsweredIsSafe
  <1>2. Reads => ~WillTrap(mem_sb[load_data_q].ins)
    BY <1>1 DEF NoTrapYet, Reads
  <1>3. ASSUME NEW i \in TransId, WillTrap(mem_sb'[i].ins) PROVE ~mem_sb'[i].valid
    <2> SUFFICES ASSUME mem_sb'[i].valid PROVE FALSE
      OBVIOUS
    <2>1. mem_sb'[i].ins.op \in {"load", "store", "amo"}
      BY <1>3 DEF WillTrap, is_lsu
    <2>2. /\ mem_sb'[i].ins = mem_sb[i].ins
          /\ \/ mem_sb[i].valid
             \/ LoadFills(i)
             \/ Stores /\ i = st_trans_id_q
      BY <2>1, DoneStep
    <2> QED BY <1>1, <1>3, <2>2 DEF NoTrapYet, LoadFills
  <1>4. ASSUME NEW i \in TransId, mem_sb'[i].ex PROVE mem_sb'[i].ins.op = "trap"
    <2>1. ~Retired(i, x)
      BY <1>4, EntryStep, EmptyEntryFields
    <2>2. CASE ins # NoInstr /\ i = issue_pointer_q
      <3>1. mem_sb'[i] = NewEntry(ins)
        BY <2>2, EntryStep
      <3>2. ins.op = "trap" /\ mem_sb'[i].ins = ins
        BY <1>4, <3>1, NewEntryFields, Zenon
      <3> QED BY <3>2
    <2>3. CASE ins = NoInstr \/ i # issue_pointer_q
      <3>1. mem_sb'[i] = IF LoadFills(i) THEN completed(mem_sb[i], load_pipe_q.data, FALSE)
                         ELSE IF OtherFills(i) THEN completed(mem_sb[i], zero.data, FALSE)
                         ELSE mem_sb[i]
        BY <2>1, <2>3, EntryStep
      <3>2. mem_sb[i] \in SbEntry
        BY DEF CoreTypes, SbTypes
      <3>3. \A d : /\ completed(mem_sb[i], d, FALSE).ins = mem_sb[i].ins
                   /\ completed(mem_sb[i], d, FALSE).ex => mem_sb[i].ex
        BY <3>2 DEF completed, SbEntry
      <3>4. mem_sb[i].ex /\ mem_sb'[i].ins = mem_sb[i].ins
        BY <1>4, <3>1, <3>3
      <3> QED BY <3>4 DEF NoTrapYet
    <2> QED BY <2>2, <2>3
  <1>5. Reads => mem_sb'[load_data_q] = mem_sb[load_data_q]
    BY KeptStep
  <1>6. /\ Pops(x) => dc_state_q' = "READ"
        /\ Answers(x) => Reads
        /\ Reads' => Pops(x) \/ (Reads /\ ~Answers(x))
    BY <1>0, LoadStep DEF LoadUnitOK
  <1>7. /\ load_data_q' = IF Pops(x) THEN Front.trans_id ELSE load_data_q
        /\ load_pipe_q' = IF Answers(x)
                            THEN [valid |-> TRUE, trans_id |-> load_data_q,
                                  data |-> mem[rd_addr(dc_in(x))], ex |-> FALSE]
                            ELSE NoResult
    BY <1>0, LoadUnitStep
  <1>8. Reads' /\ dc_state_q' # "READ" => ~WillTrap(mem_sb'[load_data_q'].ins)
    BY <1>2, <1>5, <1>6, <1>7
  <1>9. Returns' => ~WillTrap(mem_sb'[load_pipe_q'.trans_id].ins)
    <2>1. Returns' => Answers(x) /\ load_pipe_q'.trans_id = load_data_q
      BY <1>7 DEF Returns, NoResult
    <2> QED BY <1>2, <1>5, <1>6, <2>1
  <1> QED BY <1>3, <1>4, <1>8, <1>9 DEF NoTrapYet

-----------------------------------------------------------------------------
(* The first exception of an access *)

\* What is sound stays so towards the older entries.
LEMMA SoundOrder ==
    ASSUME CoreTypes, NEW i \in TransId, NEW j \in TransId, Pos(i) <= Pos(j)
    PROVE  /\ Sound(j) => Sound(i)
           /\ Live(j) => Live(i)
  <1>1. \A k \in TransId : Pos(k) \in Int
    BY PosFacts
  <1>2. \A k \in TransId : Pos(k) <= Pos(i) => Pos(k) <= Pos(j)
    BY <1>1
  <1>3. Sound(j) => Sound(i)
    BY <1>2 DEF Sound
  <1> QED BY <1>2, <1>3 DEF Live

LEMMA TrapIsUnsound ==
    ASSUME CoreTypes, NEW i \in TransId, NEW j \in TransId, Pos(i) <= Pos(j),
           WillTrap(mem_sb[i].ins)
    PROVE  ~Sound(j)
  BY DEF Sound

\* The mapping of the speculative queue to the scoreboard while there is a trap.
Leads(id) ==
    /\ \A i \in TransId : LiveStore(i) => \E k \in 1 .. speculative_status_cnt_q : id[k] = i
    /\ \A k, l \in 1 .. speculative_status_cnt_q : k < l /\ LiveStore(id[l])
         => LiveStore(id[k]) /\ Pos(id[k]) < Pos(id[l])
    /\ \A k \in 1 .. speculative_status_cnt_q : LiveStore(id[k])
         => SpecContents[k] = mem_sb[id[k]].ins.req

LEMMA QueueLeads ==
    QueueDoomed <=> \E id \in [1 .. speculative_status_cnt_q -> TransId] : Leads(id)
  <1>1. DOMAIN SpecContents = 1 .. speculative_status_cnt_q
    BY DEF SpecContents, RingContents
  <1> DEFINE Q(D) == \E id \in [D -> TransId] :
                       /\ \A i \in TransId : LiveStore(i) => \E k \in D : id[k] = i
                       /\ \A k, l \in D : k < l /\ LiveStore(id[l])
                            => LiveStore(id[k]) /\ Pos(id[k]) < Pos(id[l])
                       /\ \A k \in D : LiveStore(id[k]) => SpecContents[k] = mem_sb[id[k]].ins.req
  <1>2. QueueDoomed <=> Q(DOMAIN SpecContents)
    BY Zenon DEF QueueDoomed, SpecContents
  <1>3. Q(1 .. speculative_status_cnt_q)
          <=> \E id \in [1 .. speculative_status_cnt_q -> TransId] : Leads(id)
    BY Zenon DEF Leads
  <1> HIDE DEF Q
  <1>4. Q(DOMAIN SpecContents) <=> Q(1 .. speculative_status_cnt_q)
    BY <1>1
  <1> QED BY <1>2, <1>3, <1>4

\* The unit that asked the MMU is there to take the exception, and its access
\* must trap.
LEMMA AskerTraps ==
    ASSUME CoreTypes, MmuOK, OwnWork, RequestOK, PortOK, mmu_exception, ld_state_q # "WAIT_FLUSH"
    PROVE  /\ Stores => WillTrap(mem_sb[st_trans_id_q].ins)
           /\ ld_state_q = "SEND_TAG" => WillTrap(mem_sb[load_data_q].ins)
           /\ ~Stores /\ ld_state_q # "SEND_TAG"
                => Front.valid /\ WillTrap(mem_sb[Front.trans_id].ins)
  <1>1. ASSUME NEW ins, is_lsu(ins), Asked(ins), lsu_q.req, lsu_q.hit
        PROVE  WillTrap(ins)
    <2>1. ins.misaligned \/ (Translate /\ ins.req.page \in Forbidden)
      BY <1>1 DEF Asked, mmu_exception, AddrOf
    <2> QED BY <1>1, <2>1 DEF WillTrap
  <1>2. Stores => WillTrap(mem_sb[st_trans_id_q].ins)
    <2>1. Stores => is_lsu(mem_sb[st_trans_id_q].ins)
      BY DEF OwnWork, is_lsu
    <2> QED BY <1>1, <2>1 DEF RequestOK, MmuOK
  <1>3. ld_state_q = "SEND_TAG" => WillTrap(mem_sb[load_data_q].ins)
    <2>1. ld_state_q = "SEND_TAG" => Reads
      BY DEF PortOK, Reads
    <2>2. Reads => is_lsu(mem_sb[load_data_q].ins)
      BY DEF OwnWork, is_lsu
    <2> QED BY <1>1, <2>1, <2>2 DEF RequestOK, MmuOK
  <1>4. ASSUME ~Stores, ld_state_q # "SEND_TAG"
        PROVE  Front.valid /\ WillTrap(mem_sb[Front.trans_id].ins)
    <2>1. Front.valid => /\ is_lsu(mem_sb[Front.trans_id].ins)
                         /\ Asked(Front) => Asked(mem_sb[Front.trans_id].ins)
                         /\ mem_sb[Front.trans_id].ins.req = Front.req
      BY DEF OwnWork, WaitsFor, OwnRequest, is_lsu, Asked
    <2>2. lsu_q.req => Front.valid /\ Asked(Front)
      BY <1>4 DEF RequestOK
    <2>3. CASE lsu_q.req /\ lsu_q.hit
      BY <1>1, <2>1, <2>2, <2>3
    <2>4. CASE lsu_q.misaligned
      BY <2>1, <2>2, <2>4 DEF MmuOK, Asked, WillTrap
    <2>5. CASE ~(lsu_q.req /\ lsu_q.hit) /\ ~lsu_q.misaligned
      <3>1. Translate /\ PTW!data_error
        BY <2>5 DEF mmu_exception
      <3>2. Front.valid /\ Front.req.page = ptw_page_q /\ ptw_page_q \in Unmapped
        BY <3>1 DEF RequestOK, MmuOK, PTW!data_error
      <3> QED BY <2>1, <3>1, <3>2 DEF WillTrap
    <2> QED BY <2>3, <2>4, <2>5
  <1> QED BY <1>2, <1>3, <1>4

\* After a flush nobody is there to take an exception.
LEMMA FlushedIsCalm ==
    ASSUME CoreTypes, ScoreboardRing, OwnWork, LoadUnitOK, RequestOK, ~Calm
    PROVE  mmu_exception /\ ld_state_q # "WAIT_FLUSH"
  <1>1. state_q \in {"IDLE", "VALID_STORE", "WAIT_TRANSLATION", "WAIT_STORE_READY"}
    BY DEF CoreTypes, LsuTypes, TypeOK
  <1>2. ld_state_q = "WAIT_FLUSH" => ~Front.valid /\ ~Stores
    BY WorkIsIssued
  <1> QED BY <1>1, <1>2 DEF Calm, RequestOK, Stores

\* From the order of the program to what the first exception leaves of it.
LEMMA TrapComes ==
    ASSUME CoreTypes, MmuOK, Running, ~Calm
    PROVE  Trapping
  <1> USE DEF Running
  <1>0. mmu_exception /\ ld_state_q # "WAIT_FLUSH" /\ PortOK
    BY FlushedIsCalm DEF LoadUnitOK
  <1>1. /\ Stores => WillTrap(mem_sb[st_trans_id_q].ins)
        /\ ld_state_q = "SEND_TAG" => WillTrap(mem_sb[load_data_q].ins)
        /\ ~Stores /\ ld_state_q # "SEND_TAG" => Front.valid /\ WillTrap(mem_sb[Front.trans_id].ins)
    BY <1>0, AskerTraps
  <1>2. /\ Front.trans_id \in TransId /\ Second.trans_id \in TransId
        /\ st_trans_id_q \in TransId /\ load_data_q \in TransId
        /\ load_pipe_q.trans_id \in TransId /\ issue_q.trans_id \in TransId
    BY WorkType
  <1>3. \A i \in TransId : Pos(i) \in Int
    BY PosFacts
  <1>4. ld_state_q = "SEND_TAG" => Reads
    BY <1>0 DEF PortOK, Reads
  <1>5. HasSecond => Front.valid
    BY DEF HasSecond, Front, FifoOK
  <1>6. Stores => ~Sound(st_trans_id_q)
    BY <1>1, <1>2, <1>3, TrapIsUnsound
  <1>7. Front.valid => ~Sound(Front.trans_id)
    <2>1. CASE Stores
      BY <1>1, <1>2, <1>3, <2>1, TrapIsUnsound DEF InOrder
    <2>2. CASE ld_state_q = "SEND_TAG"
      BY <1>1, <1>2, <1>3, <1>4, <2>2, TrapIsUnsound DEF InOrder
    <2>3. CASE ~Stores /\ ld_state_q # "SEND_TAG"
      BY <1>1, <1>2, <1>3, <2>3, TrapIsUnsound
    <2> QED BY <2>1, <2>2, <2>3
  <1>8. HasSecond => ~Sound(Second.trans_id)
    BY <1>2, <1>3, <1>5, <1>7, SoundOrder DEF InOrder
  <1>9. Doomed
    <2>1. \E j \in TransId : WillTrap(mem_sb[j].ins)
      BY <1>1, <1>2
    <2>2. ASSUME NEW r \in {issue_q, mem_q[0], mem_q[1]}, r.valid
          PROVE  (r = Front /\ Front.valid) \/ (r = Second /\ HasSecond)
      <3>1. read_pointer_q \in 0..1
        BY DEF CoreTypes, LsuTypes
      <3> QED BY <2>2, <3>1 DEF FifoOK, Front, Second, HasSecond
    <2>3. ASSUME NEW r \in {issue_q, mem_q[0], mem_q[1]}, r.valid
          PROVE  mem_sb[r.trans_id].issued /\ ~Sound(r.trans_id) /\ OwnRequest(r)
      <3>1. CASE r = Front /\ Front.valid
        BY <1>7, <3>1 DEF OwnWork, WaitsFor, Waits
      <3>2. CASE r = Second /\ HasSecond
        BY <1>8, <3>2 DEF OwnWork, WaitsFor, Waits
      <3> QED BY <2>2, <2>3, <3>1, <3>2
    <2>4. issue_q.op \in FlushOp => /\ mem_sb[issue_q.trans_id].issued
                                    /\ mem_sb[issue_q.trans_id].ins.op = issue_q.op
      BY DEF OwnWork, Waits
    <2> QED BY <2>1, <2>3, <2>4 DEF Doomed
  <1>10. FifoDoomed
    <2>1. read_pointer_q \in 0..1
      BY DEF CoreTypes, LsuTypes
    <2>2. write_pointer_q = (read_pointer_q + status_cnt_q) % 2
      BY <2>1 DEF FifoOK
    <2> QED BY <2>1, <2>2 DEF FifoDoomed, FifoOK
  <1>11. StoresDoomed
    BY <1>0, <1>6 DEF StoresDoomed, OwnWork, Waits
  <1>12. ReadsDoomed
    <2> SUFFICES ASSUME Reads
                 PROVE  ReadsDoomed
      BY DEF ReadsDoomed
    <2>1. Waits(load_data_q) /\ mem_sb[load_data_q].ins.op = "load"
      BY DEF OwnWork
    <2>2. WillTrap(mem_sb[load_data_q].ins) => dc_state_q = "READ" /\ mmu_exception
      BY <1>0 DEF NoTrapYet
    <2>3. Sound(load_data_q) => dc_state_q # "READ"
      <3>1. dc_state_q = "READ" => ld_state_q = "SEND_TAG"
        BY DEF Reads
      <3> QED BY <1>1, <1>2, <1>3, <3>1, TrapIsUnsound
    <2>4. Returns => load_pipe_q.trans_id # load_data_q
      BY <1>2, <1>3 DEF InOrder
    <2>5. /\ Clear(load_data_q) /\ address_idx_q = mem_sb[load_data_q].ins.req.off
          /\ dc_state_q # "READ" => address_tag_q = mem_sb[load_data_q].ins.req.page
      BY DEF LoadsClear
    <2> QED BY <2>1, <2>2, <2>3, <2>4, <2>5 DEF ReadsDoomed, Waits
  <1>13. ReturnsDoomed
    BY DEF ReturnsDoomed, OwnWork, Waits, NoTrapYet, LoadsClear, Delivers
  <1>14. DoneDoomed
    BY DEF DoneDoomed, NoTrapYet, LoadsClear, Delivers
  <1>15. FoundDoomed
    BY <1>6, <1>7, <1>8 DEF FoundDoomed, AllFound
  <1>16. AmoDoomed
    BY DEF AmoDoomed, SoundAmo, AmoOK, DoneAmo
  <1>17. QueueDoomed
    <2>1. PICK id \in [1 .. speculative_status_cnt_q -> TransId] : Follows(id)
      BY QueueIds
    <2>2. \A i \in TransId : LiveStore(i) => \E k \in 1 .. speculative_status_cnt_q : id[k] = i
      BY <2>1 DEF Follows, LiveStore
    <2>3. ASSUME NEW k \in 1 .. speculative_status_cnt_q, NEW l \in 1 .. speculative_status_cnt_q,
                 k < l, LiveStore(id[l])
          PROVE  LiveStore(id[k]) /\ Pos(id[k]) < Pos(id[l])
      <3>1. DoneStore(mem_sb[id[k]]) /\ Pos(id[k]) < Pos(id[l]) /\ id[k] \in TransId /\ id[l] \in TransId
        BY <2>1, <2>3 DEF Follows
      <3>2. Pos(id[k]) <= Pos(id[l])
        BY <1>3, <3>1
      <3> QED BY <2>3, <3>1, <3>2, SoundOrder DEF LiveStore
    <2>4. \A k \in 1 .. speculative_status_cnt_q : LiveStore(id[k])
            => SpecContents[k] = mem_sb[id[k]].ins.req
      BY <2>1 DEF Follows
    <2> QED BY <2>1, <2>2, <2>3, <2>4, QueueLeads DEF Leads
  <1> QED BY <1>0, <1>9, <1>10, <1>11, <1>12, <1>13, <1>14, <1>15, <1>16, <1>17 DEF Trapping

\* The entry at the commit pointer retires only if it is sound, and then the
\* store unit holds its store or AMO.
LEMMA HeadIsLive ==
    ASSUME CoreTypes, DoneDoomed, retires0
    PROVE  Live(commit_pointer_q) /\ Pos(commit_pointer_q) = 0
  <1>1. commit_pointer_q \in TransId
    BY DEF CoreTypes, SbTypes
  <1>2. Pos(commit_pointer_q) = 0
    BY <1>1, PosFacts
  <1>3. \A j \in TransId : Pos(j) <= Pos(commit_pointer_q) => j = commit_pointer_q
    <2> TAKE j \in TransId
    <2>1. Pos(j) >= 0 /\ Pos(j) \in Int
      BY PosFacts
    <2> QED BY <1>2, <2>1, PosFacts
  <1>4. ~WillTrap(mem_sb[commit_pointer_q].ins) /\ ~mem_sb[commit_pointer_q].ex
    BY <1>1 DEF retires0, c0, DoneDoomed
  <1> QED BY <1>2, <1>3, <1>4 DEF Live, Sound

LEMMA HeadTrapping ==
    ASSUME CoreTypes, DoneDoomed, AmoDoomed, QueueDoomed
    PROVE  HeadOK
  <1>1. commit_pointer_q \in TransId
    BY DEF CoreTypes, SbTypes
  <1>2. ASSUME retires0, c0.ins.op = "store"
        PROVE  speculative_status_cnt_q > 0 /\ SpecContents[1] = c0.ins.req
    <2>1. LiveStore(commit_pointer_q) /\ Pos(commit_pointer_q) = 0
      BY <1>2, HeadIsLive DEF LiveStore, DoneStore, retires0, c0
    <2>2. PICK id \in [1 .. speculative_status_cnt_q -> TransId] : Leads(id)
      BY QueueLeads
    <2>3. PICK k \in 1 .. speculative_status_cnt_q : id[k] = commit_pointer_q
      BY <1>1, <2>1, <2>2 DEF Leads
    <2>4. speculative_status_cnt_q \in Nat /\ k \in Int
      BY DepthAssumption DEF CoreTypes, LsuTypes, TypeOK
    <2>5. 1 \in 1 .. speculative_status_cnt_q
      BY <2>3, <2>4
    <2>6. Pos(id[1]) \in Int /\ Pos(id[1]) >= 0
      BY <2>2, <2>5, PosFacts
    <2>7. ~(1 < k)
      BY <2>1, <2>2, <2>3, <2>5, <2>6 DEF Leads
    <2>8. k = 1
      BY <2>4, <2>5, <2>7
    <2> QED BY <2>1, <2>2, <2>3, <2>4, <2>5, <2>8 DEF Leads, c0
  <1>3. ASSUME retires0, c0.ins.op = "amo"
        PROVE  amo_data = c0.ins.req
    <2>1. SoundAmo(commit_pointer_q)
      BY <1>3, HeadIsLive DEF SoundAmo, Live, retires0, c0
    <2> QED BY <1>1, <2>1 DEF AmoDoomed, c0
  <1> QED BY <1>2, <1>3 DEF HeadOK

-----------------------------------------------------------------------------
(* A cycle between the first exception and the flush *)

LEMMA RetiredIsLive ==
    ASSUME CoreTypes, DoneDoomed, NEW x, NEW i \in TransId, Retired(i, x)
    PROVE  Live(i)
  <1>1. retires0
    BY DEF Retired, commit_ack0, commit_ack1
  <1>2. Live(commit_pointer_q) /\ Pos(commit_pointer_q) = 0 /\ commit_pointer_q \in TransId
    BY <1>1, HeadIsLive DEF CoreTypes, SbTypes
  <1>3. CASE i = commit_pointer_q
    BY <1>2, <1>3
  <1>4. CASE i # commit_pointer_q
    <2>1. i = Next1(commit_pointer_q) /\ mem_sb[i].valid /\ ~mem_sb[i].ex
      BY <1>4 DEF Retired, commit_ack1, c1
    <2>2. Pos(i) = 1 /\ ~WillTrap(mem_sb[i].ins)
      BY <2>1, PosFacts DEF DoneDoomed
    <2>3. ASSUME NEW j \in TransId, Pos(j) <= Pos(i)
          PROVE  j = i \/ Pos(j) <= Pos(commit_pointer_q)
      <3>1. Pos(j) \in Int
        BY PosFacts
      <3>2. Pos(j) = 1 \/ Pos(j) <= 0
        BY <2>2, <2>3, <3>1
      <3> QED BY <1>2, <2>2, <3>2, PosFacts
    <2> QED BY <1>2, <2>1, <2>2, <2>3 DEF Live, Sound
  <1> QED BY <1>3, <1>4

\* What a cycle does to an issued entry, and to what comes before it.
LEMMA SoundStep ==
    ASSUME CoreTypes, ScoreboardRing, DoneDoomed,
           NEW ins \in Instr \cup {NoInstr}, NEW x, Inputs(x), Steps(ins, x), ~flush(x.amo_ack),
           NEW i \in TransId, mem_sb[i].issued, ~Retired(i, x)
    PROVE  /\ mem_sb'[i].issued /\ mem_sb'[i].ins = mem_sb[i].ins
           /\ ins = NoInstr \/ i # issue_pointer_q
           /\ Pos(i)' = Pos(i) - NRetired(x) /\ Pos(i) < issue_cnt_q
           /\ Sound(i)' <=> Sound(i)
           /\ Live(i)' => Live(i)
  <1>1. /\ \A j \in TransId : Pos(j) \in Int
        /\ \A j \in TransId : Retired(j, x) <=> Pos(j) < NRetired(x)
        /\ NRetired(x) \in Int /\ issue_cnt_q \in Int
    <2>1. issue_cnt_q \in Int
      BY TransIdType DEF CoreTypes, SbTypes
    <2>2. \A j \in TransId : Pos(j) \in Int
      BY PosFacts
    <2> QED BY <2>1, <2>2, RetiredFacts
  <1>2. \A j \in TransId : ~Retired(j, x) => Pos(j)' = Pos(j) - NRetired(x)
    BY <1>1, PointerStep
  <1>3. Pos(issue_pointer_q) = issue_cnt_q /\ issue_pointer_q \in TransId
    BY PointerStep DEF CoreTypes, SbTypes
  <1>4. Pos(i) < issue_cnt_q
    BY DEF ScoreboardRing
  <1>5. i # issue_pointer_q
    BY <1>1, <1>3, <1>4
  <1>6. mem_sb'[i].issued /\ mem_sb'[i].ins = mem_sb[i].ins
    BY <1>5, FieldStep
  <1>7. ASSUME NEW j \in TransId, Pos(j)' <= Pos(i)', mem_sb'[j].ins # NoInstr
        PROVE  /\ Pos(j) <= Pos(i) /\ ~Retired(j, x) /\ mem_sb'[j].ins = mem_sb[j].ins
               /\ mem_sb[j].ex => mem_sb'[j].ex
    <2>1. CASE Retired(j, x)
      BY <1>7, <2>1, WriteStep, EmptyEntryFields
    <2>2. CASE ~Retired(j, x) /\ j = issue_pointer_q
      <3>1. Pos(j)' > Pos(i)'
        BY <1>1, <1>2, <1>3, <1>4, <2>2
      <3>2. Pos(j)' \in Int /\ Pos(i)' \in Int
        BY <1>1, <1>2, <2>2
      <3> QED BY <1>7, <3>1, <3>2
    <2>3. CASE ~Retired(j, x) /\ j # issue_pointer_q
      <3>1. Pos(j) <= Pos(i)
        BY <1>1, <1>2, <1>7, <2>3
      <3> QED BY <2>3, <3>1, FieldStep
    <2> QED BY <2>1, <2>2, <2>3
  <1>8. ASSUME NEW j \in TransId, Pos(j) <= Pos(i), ~Retired(j, x)
        PROVE  /\ Pos(j)' <= Pos(i)' /\ mem_sb'[j].ins = mem_sb[j].ins
               /\ mem_sb[j].ex => mem_sb'[j].ex
    <2>1. j # issue_pointer_q
      BY <1>1, <1>3, <1>4, <1>8
    <2>2. Pos(j)' <= Pos(i)'
      BY <1>1, <1>2, <1>8
    <2> QED BY <1>8, <2>1, <2>2, FieldStep
  <1>9. \A j \in TransId : Retired(j, x) => Live(j)
    BY RetiredIsLive
  <1>10. ~WillTrap(NoInstr)
    BY DEF WillTrap, is_lsu, NoInstr
  <1>11. ASSUME Sound(i)
         PROVE  Sound(i)'
    <2>1. ASSUME NEW j \in TransId, Pos(j)' <= Pos(i)'
          PROVE  ~WillTrap(mem_sb'[j].ins)
      <3>1. CASE mem_sb'[j].ins = NoInstr
        BY <1>10, <3>1
      <3>2. CASE mem_sb'[j].ins # NoInstr
        BY <1>7, <1>11, <2>1, <3>2 DEF Sound
      <3> QED BY <3>1, <3>2
    <2>2. ASSUME NEW j \in TransId, Pos(j)' <= Pos(i)'
          PROVE  ~WillTrap(mem_sb[j].ins)'
      BY <2>1, <2>2 DEF WillTrap
    <2> QED BY <2>2 DEF Sound
  <1>12. ASSUME Sound(i)', NEW j \in TransId, Pos(j) <= Pos(i)
         PROVE  ~WillTrap(mem_sb[j].ins)
    <2>1. CASE Retired(j, x)
      <3>1. Pos(j) <= Pos(j)
        BY <1>1
      <3> QED BY <1>9, <2>1, <3>1 DEF Live, Sound
    <2>2. CASE ~Retired(j, x)
      <3>1. ~WillTrap(mem_sb[j].ins)'
        BY <1>8, <1>12, <2>2 DEF Sound
      <3> QED BY <1>8, <1>12, <2>2, <3>1 DEF WillTrap
    <2> QED BY <2>1, <2>2
  <1>13. Sound(i)' => Sound(i)
    BY <1>12 DEF Sound
  <1>14. ASSUME Live(i)', NEW j \in TransId, Pos(j) <= Pos(i), mem_sb[j].ex
         PROVE  mem_sb[j].ins.op = "trap"
    <2>1. CASE Retired(j, x)
      <3>1. Pos(j) <= Pos(j)
        BY <1>1
      <3> QED BY <1>9, <1>14, <2>1, <3>1 DEF Live
    <2>2. CASE ~Retired(j, x)
      BY <1>8, <1>14, <2>2 DEF Live
    <2> QED BY <2>1, <2>2
  <1>15. Live(i)' => Live(i)
    BY <1>13, <1>14 DEF Live
  <1>16. Pos(i)' = Pos(i) - NRetired(x)
    BY <1>2
  <1> QED BY <1>4, <1>5, <1>6, <1>11, <1>13, <1>15, <1>16

\* What comes after an access that must trap is not retired.
LEMMA UnsoundStep ==
    ASSUME CoreTypes, ScoreboardRing, DoneDoomed,
           NEW ins \in Instr \cup {NoInstr}, NEW x, Inputs(x), Steps(ins, x), ~flush(x.amo_ack),
           NEW i \in TransId, mem_sb[i].issued, ~Sound(i)
    PROVE  ~Retired(i, x) /\ mem_sb'[i].issued /\ mem_sb'[i].ins = mem_sb[i].ins /\ ~Sound(i)'
  <1>1. ~Retired(i, x)
    BY RetiredIsLive DEF Live
  <1> QED BY <1>1, SoundStep

LEMMA NewUnsound ==
    ASSUME CoreTypes, ScoreboardRing, DoneDoomed,
           NEW ins \in Instr \cup {NoInstr}, NEW x, Inputs(x), Steps(ins, x), ~flush(x.amo_ack),
           NEW j \in TransId, WillTrap(mem_sb[j].ins)
    PROVE  /\ WillTrap(mem_sb[j].ins)'
           /\ \A k \in TransId : k = issue_pointer_q => ~Sound(k)'
  <1>1. mem_sb[j].issued
    BY EmptyEntryFields DEF ScoreboardRing, WillTrap, is_lsu, NoInstr
  <1>2. Pos(j) \in Int /\ NRetired(x) \in Int /\ issue_cnt_q \in Int
    BY PosFacts, RetiredFacts DEF CoreTypes, SbTypes, TransId
  <1>3. ~Retired(j, x)
    BY <1>2, RetiredIsLive DEF Live, Sound
  <1>4. mem_sb'[j].ins = mem_sb[j].ins /\ Pos(j)' = Pos(j) - NRetired(x) /\ Pos(j) < issue_cnt_q
    BY <1>1, <1>3, SoundStep
  <1>5. WillTrap(mem_sb[j].ins)'
    BY <1>4 DEF WillTrap
  <1>6. /\ issue_pointer_q \in TransId /\ Pos(issue_pointer_q) = issue_cnt_q
        /\ issue_cnt_q >= NRetired(x)
    BY PointerStep, RetiredFacts DEF CoreTypes, SbTypes
  <1>7. ASSUME NEW k \in TransId, k = issue_pointer_q
        PROVE  ~Sound(k)'
    <2>1. Pos(k) >= NRetired(x)
      BY <1>6, <1>7
    <2>2. Pos(k)' = issue_cnt_q - NRetired(x)
      BY <1>6, <1>7, <2>1, PointerStep
    <2>3. Pos(j)' <= Pos(k)'
      BY <1>2, <1>4, <2>2
    <2> QED BY <1>5, <2>3 DEF Sound
  <1> QED BY <1>5, <1>7

\* The FIFO, when the exception of one request also pops another.
LEMMA FifoTrapStep ==
    ASSUME CoreTypes, FifoDoomed, NEW pl \in BOOLEAN, NEW ps \in BOOLEAN,
           LB!LBStep(issue_q, pl, ps, FALSE),
           issue_q'.valid => status_cnt_q = 0,
           pl => Front.valid,
           ps => (state_q # "IDLE" /\ state_q' = "IDLE") \/ (Front.valid /\ ~pl),
           state_q' # "IDLE" => state_q # "IDLE" \/ Front.valid
    PROVE  /\ FifoDoomed'
           /\ \A k \in 0..1 : mem_q'[k].valid => mem_q'[k] \in {issue_q, mem_q[0], mem_q[1]}
           /\ ~pl /\ ~ps /\ Front.valid => Front' = Front
  <1> DEFINE r == read_pointer_q
             w == write_pointer_q
             s == status_cnt_q
             pops == (IF pl THEN 1 ELSE 0) + (IF ps THEN 1 ELSE 0)
             push == IF issue_q.valid THEN 1 ELSE 0
             written == IF issue_q.valid THEN [mem_q EXCEPT ![w] = issue_q] ELSE mem_q
  <1>1. /\ mem_q \in [0..1 -> LsuRequest] /\ issue_q \in LsuRequest
        /\ r \in {0, 1} /\ w \in {0, 1} /\ s \in {0, 1, 2, 3}
        /\ issue_q.valid \in BOOLEAN
    BY DEF CoreTypes, LsuTypes, SbTypes, LsuRequest
  <1>2. /\ mem_q' = IF pops = 2 THEN [i \in 0..1 |-> NoRequest]
                    ELSE IF pops = 1 THEN [written EXCEPT ![r].valid = FALSE] ELSE written
        /\ r' = (r + pops) % 2 /\ w' = (w + push) % 2 /\ s' = (s + push - pops) % 4
    BY DEF LB!LBStep
  <1>3. /\ pops \in {0, 1, 2} /\ push \in {0, 1}
        /\ pops = 0 <=> ~pl /\ ~ps
        /\ pops = 2 <=> pl /\ ps
        /\ push = 1 <=> issue_q.valid
    OBVIOUS
  <1>4. written \in [0..1 -> LsuRequest]
    BY <1>1
  <1>5. \A k \in 0..1 : written[k] = IF issue_q.valid /\ k = w THEN issue_q ELSE mem_q[k]
    BY <1>1
  <1>6. \A k \in 0..1 :
           /\ pops = 2 => ~mem_q'[k].valid
           /\ pops = 1 /\ k = r => ~mem_q'[k].valid
           /\ pops = 0 \/ (pops = 1 /\ k # r) => mem_q'[k] = written[k]
    <2> HIDE DEF pops, written
    <2> TAKE k \in 0..1
    <2>1. pops = 2 => ~mem_q'[k].valid
      BY <1>2 DEF NoRequest
    <2>2. pops = 1 /\ k = r => ~mem_q'[k].valid
      <3>1. pops = 1 => mem_q' = [written EXCEPT ![r].valid = FALSE]
        BY <1>2
      <3>2. r \in 0..1
        BY <1>1
      <3>3. pops = 1 => mem_q'[r] = [written[r] EXCEPT !.valid = FALSE]
        BY <1>4, <3>1, <3>2
      <3> QED BY <1>4, <3>2, <3>3 DEF LsuRequest
    <2>3. pops = 0 \/ (pops = 1 /\ k # r) => mem_q'[k] = written[k]
      BY <1>1, <1>2, <1>4
    <2> QED BY <2>1, <2>2, <2>3
  <1>7. /\ Front = IF s = 0 THEN issue_q ELSE mem_q[r]
        /\ Front' = IF s' = 0 THEN issue_q' ELSE mem_q'[r']
    BY DEF Front
  <1>8. /\ w = (r + s) % 2
        /\ issue_q.valid => s # 2
        /\ s = 3 => ~mem_q[r].valid /\ state_q = "IDLE"
        /\ s = 0 /\ mem_q[1 - r].valid => state_q = "IDLE"
    BY DEF FifoDoomed
  <1> HIDE DEF r, w, s, pops, push, written
  <1>9. /\ s = 3 => pops = 0 /\ ~Front.valid
        /\ s = 0 /\ push = 0 => ~Front.valid /\ pops # 2
    BY <1>1, <1>3, <1>7, <1>8
  <1>10. w' = (r' + s') % 2
    <2>1. CASE pops = 0 /\ push = 0
      BY <1>1, <1>2, <1>8, <2>1
    <2>2. CASE pops = 1 /\ push = 0
      BY <1>1, <1>2, <1>8, <2>2
    <2>3. CASE pops = 2 /\ push = 0
      BY <1>1, <1>2, <1>8, <2>3
    <2>4. CASE pops = 0 /\ push = 1
      BY <1>1, <1>2, <1>8, <2>4
    <2>5. CASE pops = 1 /\ push = 1
      BY <1>1, <1>2, <1>8, <2>5
    <2>6. CASE pops = 2 /\ push = 1
      BY <1>1, <1>2, <1>8, <2>6
    <2> QED BY <1>3, <2>1, <2>2, <2>3, <2>4, <2>5, <2>6
  <1>11. issue_q'.valid => s' # 2
    <2> SUFFICES ASSUME issue_q'.valid PROVE s' # 2
      OBVIOUS
    <2>1. s = 0
      BY DEF s
    <2> QED BY <1>2, <1>3, <1>9, <2>1
  <1>12. s' = 3 => ~mem_q'[r'].valid /\ state_q' = "IDLE"
    <2> SUFFICES ASSUME s' = 3 PROVE ~mem_q'[r'].valid /\ state_q' = "IDLE"
      OBVIOUS
    <2>1. \/ s = 3 /\ pops = 0 /\ push = 0
          \/ s = 0 /\ pops = 1 /\ push = 0
          \/ s + push = 1 /\ pops = 2
      <3>1. s' = (s + push - pops) % 4
        BY <1>2
      <3>2. s = 2 => push = 0
        BY <1>3, <1>8
      <3>3. CASE s = 0
        BY <1>3, <1>9, <3>1, <3>3
      <3>4. CASE s = 1
        BY <1>3, <3>1, <3>4
      <3>5. CASE s = 2
        BY <1>3, <3>1, <3>2, <3>5
      <3>6. CASE s = 3
        BY <1>3, <1>9, <3>1, <3>6
      <3> QED BY <1>1, <3>3, <3>4, <3>5, <3>6
    <2>2. CASE s = 3 /\ pops = 0 /\ push = 0
      <3>1. r' = r /\ mem_q'[r] = mem_q[r]
        BY <1>1, <1>2, <1>3, <1>5, <1>6, <2>2
      <3> QED BY <1>8, <1>9, <2>2, <3>1
    <2>3. CASE s = 0 /\ pops = 1 /\ push = 0
      <3>1. state_q # "IDLE" /\ state_q' = "IDLE"
        BY <1>3, <1>9, <2>3
      <3>2. r' = 1 - r /\ mem_q'[1 - r] = mem_q[1 - r]
        BY <1>1, <1>2, <1>3, <1>5, <1>6, <2>3
      <3> QED BY <1>8, <2>3, <3>1, <3>2
    <2>4. CASE s + push = 1 /\ pops = 2
      <3>1. r' \in 0..1
        BY <1>1, <1>2, <2>4
      <3>2. state_q' = "IDLE"
        BY <1>3, <2>4
      <3> QED BY <1>6, <2>4, <3>1, <3>2
    <2> QED BY <2>1, <2>2, <2>3, <2>4
  <1>13. s' = 0 /\ mem_q'[1 - r'].valid => state_q' = "IDLE"
    <2> SUFFICES ASSUME s' = 0, mem_q'[1 - r'].valid PROVE state_q' = "IDLE"
      OBVIOUS
    <2>1. pops # 2
      <3>1. 1 - r' \in 0..1
        BY <1>1, <1>2, <1>3
      <3> QED BY <1>6, <3>1
    <2>2. pops # 1
      <3>1. pops = 1 => 1 - r' = r
        BY <1>1, <1>2
      <3> QED BY <1>1, <1>6, <3>1
    <2>3. pops = 0
      BY <1>3, <2>1, <2>2
    <2>4. (s = 0 /\ push = 0) \/ (s = 3 /\ push = 1)
      BY <1>1, <1>2, <1>3, <2>3
    <2>5. r' = r
      BY <1>1, <1>2, <2>3
    <2>6. CASE s = 0 /\ push = 0
      <3>1. mem_q'[1 - r] = mem_q[1 - r]
        BY <1>1, <1>3, <1>5, <1>6, <2>3, <2>6
      <3> QED BY <1>8, <1>9, <2>5, <2>6, <3>1
    <2>7. CASE s = 3 /\ push = 1
      BY <1>8, <1>9, <2>7
    <2> QED BY <2>4, <2>6, <2>7
  <1>14. FifoDoomed'
    BY <1>10, <1>11, <1>12, <1>13 DEF FifoDoomed, r, w, s
  <1>15. \A k \in 0..1 : mem_q'[k].valid => mem_q'[k] \in {issue_q, mem_q[0], mem_q[1]}
    <2> TAKE k \in 0..1
    <2>1. mem_q'[k].valid => mem_q'[k] = written[k]
      BY <1>3, <1>6
    <2> QED BY <1>5, <2>1
  <1>16. ~pl /\ ~ps /\ Front.valid => Front' = Front
    <2> SUFFICES ASSUME ~pl, ~ps, Front.valid PROVE Front' = Front
      OBVIOUS
    <2>1. pops = 0 /\ s # 3
      BY <1>3, <1>9
    <2>2. CASE s = 0
      <3>1. issue_q.valid /\ push = 1 /\ w = r
        BY <1>1, <1>3, <1>7, <1>8, <2>2
      <3>2. s' = 1 /\ r' = r /\ mem_q'[r] = issue_q
        BY <1>1, <1>2, <1>5, <1>6, <2>1, <2>2, <3>1
      <3> QED BY <1>7, <2>2, <3>2
    <2>3. CASE s \in {1, 2}
      <3>1. s' # 0 /\ r' = r
        BY <1>1, <1>2, <1>3, <2>1, <2>3
      <3>2. issue_q.valid => w # r
        BY <1>1, <1>8, <2>3
      <3>3. mem_q'[r] = mem_q[r]
        BY <1>1, <1>5, <1>6, <2>1, <3>2
      <3> QED BY <1>1, <1>7, <2>3, <3>1, <3>3
    <2> QED BY <1>1, <2>1, <2>2, <2>3
  <1> QED BY <1>14, <1>15, <1>16

\* The load unit, with or without an exception.
LEMMA LoadTrapStep ==
    ASSUME CoreTypes, PortOK, ld_state_q # "WAIT_FLUSH",
           NEW x, Inputs(x), LSUStep(x), ~flush(x.amo_ack)
    PROVE  LET rv == DC!data_rvalid(dc_in(x))
           IN  /\ Pops(x) => Front.valid /\ Front.op = "load"
               /\ Pops(x) /\ ~mmu_exception => DC!data_gnt(dc_in(x)) /\ dtlb_hit(x)
                                               /\ translation_req(x)
               /\ load_data_q' = IF Pops(x) /\ ~mmu_exception THEN Front.trans_id ELSE load_data_q
               /\ mmu_exception => ld_state_q' = "IDLE"
               /\ ld_state_q' # "WAIT_FLUSH"
               /\ load_pipe_q'.valid => load_pipe_q'.ex = mmu_exception
               /\ load_pipe_q'.valid /\ ~rv => Front.valid /\ load_pipe_q'.trans_id = Front.trans_id
               /\ rv /\ ld_state_q # "WAIT_TRANSLATION" /\ ~Kills
                    => load_pipe_q'.valid /\ load_pipe_q'.trans_id = load_data_q
  <1> DEFINE in == ld(x)
             rv == DC!data_rvalid(dc_in(x))
             gnt == DC!data_gnt(dc_in(x))
             load == Front.valid /\ Front.op = "load"
  <1>1. /\ in.valid = load /\ in.trans_id = Front.trans_id /\ in.hit = dtlb_hit(x)
        /\ in.ex = mmu_exception /\ in.flush = FALSE
        /\ in.gnt = gnt /\ in.rvalid = rv
        /\ LU!translation_req_o(ld_req_in(x)) = LU!translation_req_o(in)
    <2>1. flush(x.amo_ack) = FALSE
      BY DEF flush
    <2> QED BY <2>1, LoadUnitInput
  <1>2. /\ LU!LUStep(in)
        /\ load_pipe_q' = IF LU!valid_o(in)
                            THEN [valid |-> TRUE, trans_id |-> LU!trans_id_o(in),
                                  data |-> mem[rd_addr(dc_in(x))], ex |-> LU!ex_o(in)]
                            ELSE NoResult
    BY LsuParts
  <1>3. Pops(x) = LU!pop_ld_o(in)
    BY DEF Pops
  <1>4. /\ ld_state_q \in LU!State
        /\ ld_state_q \notin {"IDLE", "SEND_TAG"} => load
    BY DEF CoreTypes, LsuTypes, LU!TypeOK, PortOK
  <1>5. mmu_exception \in BOOLEAN /\ load \in BOOLEAN
    BY DEF mmu_exception
  <1>6. translation_req(x) <=> \/ Front.op = "load" /\ LU!translation_req_o(in)
                               \/ is_store(Front) /\ translation_req_o(st_in(x))
    BY <1>1, MmuInput
  <1> HIDE DEF in, rv, gnt, load
  <1>7. /\ LU!traps(in) <=> mmu_exception /\ load
        /\ LU!traps_now(in) <=> mmu_exception /\ load /\ ~rv
        /\ LU!takes(in) => load
        /\ LU!data_req(in) => load /\ LU!translation_req_o(in)
        /\ LU!granted(in) => LU!data_req(in) /\ gnt
    BY <1>1, <1>4 DEF LU!traps, LU!traps_now, LU!takes, LU!data_req, LU!granted, LU!translation_req_o
  <1>8. Pops(x) => load
    BY <1>3, <1>7 DEF LU!pop_ld_o
  <1>9. Pops(x) /\ ~mmu_exception => LU!granted(in) /\ dtlb_hit(x)
    BY <1>1, <1>3, <1>7 DEF LU!pop_ld_o
  <1>10. Pops(x) /\ ~mmu_exception => gnt /\ dtlb_hit(x) /\ translation_req(x)
    BY <1>6, <1>7, <1>9 DEF load
  <1>11. load_data_q' = IF Pops(x) /\ ~mmu_exception THEN Front.trans_id ELSE load_data_q
    BY <1>1, <1>2, <1>3 DEF LU!LUStep
  <1>12. mmu_exception => ld_state_q' = "IDLE"
    <2> SUFFICES ASSUME mmu_exception PROVE ld_state_q' = "IDLE"
      OBVIOUS
    <2>1. CASE load
      BY <1>1, <1>2, <1>7, <2>1 DEF LU!LUStep, LU!state_d
    <2>2. CASE ~load
      <3>1. ~LU!traps(in) /\ ~LU!data_req(in) /\ ~LU!takes(in) /\ ld_state_q \in {"IDLE", "SEND_TAG"}
        BY <1>4, <1>7, <2>2
      <3> QED BY <1>1, <1>2, <3>1 DEF LU!LUStep, LU!state_d
    <2> QED BY <2>1, <2>2
  <1>13. ld_state_q' # "WAIT_FLUSH"
    BY <1>1, <1>2, <1>4 DEF LU!LUStep, LU!state_d, LU!requested, LU!State
  <1>14. load_pipe_q'.valid => /\ LU!valid_o(in) /\ load_pipe_q'.trans_id = LU!trans_id_o(in)
                               /\ load_pipe_q'.ex = mmu_exception
    BY <1>1, <1>2 DEF NoResult, LU!ex_o
  <1>15. load_pipe_q'.valid /\ ~rv => Front.valid /\ load_pipe_q'.trans_id = Front.trans_id
    <2>1. LU!valid_o(in) /\ ~rv => LU!traps_now(in)
      BY <1>1 DEF LU!valid_o
    <2>2. LU!traps_now(in) => LU!trans_id_o(in) = Front.trans_id /\ Front.valid
      BY <1>1, <1>7 DEF LU!trans_id_o, load
    <2> QED BY <1>14, <2>1, <2>2
  <1>16. rv /\ ld_state_q # "WAIT_TRANSLATION" /\ ~Kills
           => load_pipe_q'.valid /\ load_pipe_q'.trans_id = load_data_q
    <2>1. ~Kills => ~LU!kill_req(in.ex)
      BY <1>1 DEF LU!kill_req, Kills, Aborts
    <2>2. rv /\ ld_state_q # "WAIT_TRANSLATION" /\ ~Kills => LU!valid_o(in)
      BY <1>1, <2>1 DEF LU!valid_o
    <2>3. rv => LU!trans_id_o(in) = load_data_q
      BY <1>7 DEF LU!trans_id_o
    <2> QED BY <1>2, <2>2, <2>3
  <1> QED BY <1>8, <1>10, <1>11, <1>12, <1>13, <1>14, <1>15, <1>16 DEF load, gnt, rv

LEMMA StoreTrapStep ==
    ASSUME CoreTypes, NEW x, Inputs(x), LSUStep(x), ~flush(x.amo_ack)
    PROVE  /\ PopsStore(x) => \/ Raised /\ state_q # "IDLE" /\ state_q' = "IDLE"
                              \/ Front.valid /\ is_store(Front)
           /\ state_q' # "IDLE" => state_q # "IDLE" \/ Front.valid
           /\ Stores' => /\ Front.valid /\ is_store(Front) /\ st_trans_id_q' = Front.trans_id
                         /\ dtlb_hit(x) /\ translation_req(x)
           /\ mmu_exception /\ state_q # "IDLE" => ~Stores' /\ state_q' = "IDLE"
  <1> DEFINE start == starts(st_in(x)) /\ st_in(x).hit /\ st_ready(st_in(x))
  <1>1. /\ PopsStore(x) => Raised \/ start
        /\ starts(st_in(x)) => Front.valid /\ is_store(Front)
        /\ Stores' => start /\ ~Raised
        /\ Raised => state_q' = "IDLE"
        /\ state_q' # "IDLE" => starts(st_in(x)) \/ state_q \in {"WAIT_TRANSLATION", "WAIT_STORE_READY"}
        /\ st_trans_id_q' = Front.trans_id
    <2>1. PopsStore(x) = (Raised \/ start)
      BY StoreUnitStep
    <2>2. Stores' = (start /\ ~Raised /\ ~flush(x.amo_ack))
      BY StoreUnitStep
    <2>3. PopsStore(x) => Raised \/ start
      BY <2>1
    <2>4. Stores' => start /\ ~Raised
      BY <2>2
    <2>5. /\ starts(st_in(x)) => Front.valid /\ is_store(Front)
          /\ Raised => state_q' = "IDLE"
          /\ state_q' # "IDLE" => starts(st_in(x)) \/ state_q \in {"WAIT_TRANSLATION", "WAIT_STORE_READY"}
          /\ st_trans_id_q' = Front.trans_id
      BY StoreUnitStep
    <2> QED BY <2>3, <2>4, <2>5
  <1>2. start => dtlb_hit(x) /\ translation_req_o(st_in(x))
    <2>1. st_in(x).hit = dtlb_hit(x)
      BY StoreUnitInput
    <2> QED BY <2>1 DEF translation_req_o
  <1>3. translation_req(x) <=> \/ Front.op = "load" /\ LU!translation_req_o(ld(x))
                               \/ is_store(Front) /\ translation_req_o(st_in(x))
    BY MmuInput
  <1>4. Raised <=> mmu_exception /\ state_q # "IDLE"
    BY DEF Raised
  <1>5. start => Front.valid /\ is_store(Front)
    BY <1>1
  <1> HIDE DEF start
  <1> QED BY <1>1, <1>2, <1>3, <1>4, <1>5 DEF Stores

LEMMA RequestsInTrap ==
    ASSUME CoreTypes, ScoreboardRing, PortOK, ld_state_q # "WAIT_FLUSH", FifoDoomed,
           NEW ins \in Instr \cup {NoInstr}, NEW x, Inputs(x), Steps(ins, x), ~flush(x.amo_ack)
    PROVE  /\ FifoDoomed'
           /\ \A k \in 0..1 : mem_q'[k].valid => mem_q'[k] \in {issue_q, mem_q[0], mem_q[1]}
           /\ ~Pops(x) /\ ~PopsStore(x) /\ Front.valid => Front' = Front
  <1>1. LSUStep(x)
    BY DEF Steps
  <1>2. Pops(x) \in BOOLEAN /\ PopsStore(x) \in BOOLEAN
    BY DEF Pops, PopsStore, LU!pop_ld_o, pop_st_o
  <1>3. LB!LBStep(issue_q, Pops(x), PopsStore(x), FALSE)
    <2>1. flush(x.amo_ack) = FALSE
      BY DEF flush
    <2> QED BY <1>1, <2>1, LsuParts DEF Pops, PopsStore
  <1>4. issue_q'.valid => status_cnt_q = 0
    BY IssueStep
  <1>5. Pops(x) => Front.valid /\ Front.op = "load"
    BY <1>1, LoadTrapStep
  <1>6. /\ PopsStore(x) => (state_q # "IDLE" /\ state_q' = "IDLE") \/ (Front.valid /\ ~Pops(x))
        /\ state_q' # "IDLE" => state_q # "IDLE" \/ Front.valid
    BY <1>1, <1>5, StoreTrapStep DEF is_store
  <1> QED BY <1>2, <1>3, <1>4, <1>5, <1>6, FifoTrapStep

LEMMA PortInTrap ==
    ASSUME CoreTypes, ScoreboardRing, PortOK, ld_state_q # "WAIT_FLUSH", FifoDoomed,
           NEW ins \in Instr \cup {NoInstr}, NEW x, Inputs(x), Steps(ins, x), ~flush(x.amo_ack)
    PROVE  PortOK'
  <1>0. LSUStep(x)
    BY DEF Steps
  <1>1. CASE mmu_exception
    <2>1. ld_state_q' = "IDLE"
      BY <1>0, <1>1, LoadTrapStep
    <2> QED BY <2>1 DEF PortOK, Aborts
  <1>2. CASE ~mmu_exception
    <2> DEFINE req == LU!data_req(ld(x))
               gnt == DC!data_gnt(dc_in(x))
               takes == Front.valid /\ Front.op = "load" /\ ld_state_q \in {"IDLE", "SEND_TAG"}
    <2>0. Calm
      BY <1>2 DEF Calm
    <2>1. /\ req = ((takes /\ ~page_offset_matches(x)) \/ ld_state_q = "WAIT_GNT")
          /\ Pops(x) = (req /\ gnt /\ dtlb_hit(x) /\ ~StallNC(x))
          /\ req => ld_state_q' = IF ~gnt THEN "WAIT_GNT"
                                  ELSE IF ~dtlb_hit(x) THEN "ABORT_TRANSACTION"
                                  ELSE IF StallNC(x) THEN "ABORT_TRANSACTION_NC"
                                  ELSE "SEND_TAG"
          /\ ~req /\ takes => ld_state_q' = "WAIT_PAGE_OFFSET"
          /\ ~req /\ ~takes =>
               CASE ld_state_q = "WAIT_PAGE_OFFSET" ->
                      ld_state_q' = IF page_offset_matches(x) THEN "WAIT_PAGE_OFFSET"
                                                              ELSE "WAIT_GNT"
                 [] ld_state_q = "ABORT_TRANSACTION" -> ld_state_q' = "WAIT_TRANSLATION"
                 [] ld_state_q = "ABORT_TRANSACTION_NC" -> ld_state_q' = "WAIT_WB_EMPTY"
                 [] ld_state_q = "WAIT_WB_EMPTY" ->
                      ld_state_q' \in {"WAIT_TRANSLATION", "WAIT_WB_EMPTY"}
                 [] ld_state_q = "WAIT_TRANSLATION" ->
                      ld_state_q' \in {"WAIT_GNT", "WAIT_TRANSLATION"}
                 [] OTHER -> ld_state_q' = "IDLE"
      BY <1>0, <2>0, LoadUnitStep
    <2>2. /\ gnt => req /\ dc_state_q' = "READ"
          /\ ~gnt /\ ~Limbo => dc_state_q' # "READ"
          /\ dc_state_q = "IDLE" => dc_state_q' \in {"IDLE", "READ"}
          /\ Kills /\ dc_state_q = "READ" => dc_state_q' = "IDLE"
      BY <1>0, LoadPortStep
    <2>3. PopsStore(x) => Front.op \in {"store", "amo"}
      BY <1>0, <2>0, StoreStep
    <2>4. Front.valid /\ ~Pops(x) /\ ~PopsStore(x) => Front' = Front
      BY RequestsInTrap
    <2>5. ld_state_q \in LU!State
      BY DEF CoreTypes, LsuTypes, LU!TypeOK
    <2>6. /\ ld_state_q \notin {"IDLE", "SEND_TAG", "WAIT_FLUSH"} => Front.valid /\ Front.op = "load"
          /\ Aborts => dc_state_q = "READ" /\ Kills
          /\ ld_state_q \in {"WAIT_TRANSLATION", "WAIT_WB_EMPTY"} => dc_state_q = "IDLE"
          /\ dc_state_q = "IDLE" => ~Limbo
      BY DEF PortOK, Kills, Limbo
    <2> HIDE DEF req, gnt
    <2>7. ld_state_q' \notin {"IDLE", "SEND_TAG", "WAIT_FLUSH"}
            => Front.valid /\ Front.op = "load" /\ ~Pops(x)
      BY <2>1, <2>5, <2>6 DEF LU!State
    <2>8. Aborts' \/ ld_state_q' = "SEND_TAG" => dc_state_q' = "READ"
      BY <2>1, <2>2, <2>5 DEF Aborts, LU!State
    <2>9. ld_state_q' \in {"WAIT_TRANSLATION", "WAIT_WB_EMPTY"}
             => ~req /\ ld_state_q \in {"ABORT_TRANSACTION", "ABORT_TRANSACTION_NC",
                                         "WAIT_TRANSLATION", "WAIT_WB_EMPTY"}
      BY <2>1, <2>5 DEF LU!State
    <2>10. ld_state_q' \in {"WAIT_TRANSLATION", "WAIT_WB_EMPTY"} => dc_state_q' = "IDLE"
      BY <2>2, <2>6, <2>9 DEF Aborts
    <2> QED BY <2>3, <2>4, <2>7, <2>8, <2>10 DEF PortOK
  <1> QED BY <1>1, <1>2

\* Requests, new or old, come after the access that must trap.
LEMMA DoomedStep ==
    ASSUME CoreTypes, ScoreboardRing, DoneDoomed, Doomed, FifoDoomed, PortOK,
           ld_state_q # "WAIT_FLUSH",
           NEW ins \in Instr \cup {NoInstr}, NEW x, Inputs(x), Steps(ins, x), ~flush(x.amo_ack)
    PROVE  Doomed'
  <1>1. PICK j \in TransId : WillTrap(mem_sb[j].ins)
    BY DEF Doomed
  <1>2. WillTrap(mem_sb'[j].ins)
    <2>1. WillTrap(mem_sb[j].ins)'
      BY <1>1, NewUnsound
    <2> QED BY <2>1 DEF WillTrap
  <1>3. ASSUME NEW r \in {issue_q, mem_q[0], mem_q[1]}, r.valid
        PROVE  /\ mem_sb'[r.trans_id].issued /\ is_lsu(r)
               /\ mem_sb'[r.trans_id].ins = mem_sb[r.trans_id].ins
               /\ mem_sb[r.trans_id].ins.op = r.op /\ mem_sb[r.trans_id].ins.req = r.req
               /\ mem_sb[r.trans_id].ins.misaligned = r.misaligned
               /\ \A i \in TransId : i = r.trans_id => ~Sound(i)'
    <2>1. mem_sb[r.trans_id].issued /\ ~Sound(r.trans_id) /\ OwnRequest(r)
      BY <1>3 DEF Doomed
    <2>2. r.trans_id \in TransId
      BY DEF CoreTypes, LsuTypes, SbTypes, LsuRequest
    <2>3. PICK i \in TransId : i = r.trans_id
      BY <2>2
    <2>4. mem_sb'[i].issued /\ mem_sb'[i].ins = mem_sb[i].ins /\ ~Sound(i)'
      BY <2>1, <2>3, UnsoundStep
    <2> QED BY <2>1, <2>3, <2>4 DEF OwnRequest
  <1>4. issue_q'.valid \/ issue_q'.op \in FlushOp =>
            /\ ins # NoInstr /\ issue_q'.trans_id = issue_pointer_q
            /\ Waits(issue_q.trans_id)' /\ issue_q'.op = ins.op
            /\ mem_sb'[issue_q'.trans_id].ins = ins
    BY IssueStep
  <1>5. issue_q'.valid => WaitsFor(issue_q)'
    BY IssueStep
  <1>6. \A k \in 0..1 : mem_q'[k].valid => mem_q'[k] \in {issue_q, mem_q[0], mem_q[1]}
    BY RequestsInTrap
  <1>7. \A i \in TransId : i = issue_pointer_q => ~Sound(i)'
    BY <1>1, NewUnsound
  <1>8. issue_pointer_q \in TransId
    BY DEF CoreTypes, SbTypes
  <1>9. ASSUME NEW r \in {issue_q', mem_q'[0], mem_q'[1]}, r.valid
        PROVE  /\ mem_sb'[r.trans_id].issued /\ is_lsu(r)
               /\ mem_sb'[r.trans_id].ins.op = r.op /\ mem_sb'[r.trans_id].ins.req = r.req
               /\ mem_sb'[r.trans_id].ins.misaligned = r.misaligned
               /\ r.trans_id \in TransId
               /\ \A i \in TransId : i = r.trans_id => ~Sound(i)'
    <2>1. CASE r = issue_q'
      <3>1. Waits(issue_q.trans_id)' /\ OwnRequest(issue_q)' /\ issue_q'.trans_id = issue_pointer_q
        BY <1>4, <1>5, <1>9, <2>1 DEF WaitsFor
      <3> QED BY <1>7, <1>8, <2>1, <3>1 DEF OwnRequest, Waits
    <2>2. CASE r \in {mem_q'[0], mem_q'[1]}
      <3>1. r \in {issue_q, mem_q[0], mem_q[1]}
        BY <1>6, <1>9, <2>2
      <3>2. r.trans_id \in TransId
        BY <3>1 DEF CoreTypes, LsuTypes, SbTypes, LsuRequest
      <3> QED BY <1>3, <1>9, <3>1, <3>2
    <2> QED BY <2>1, <2>2
  <1>10. \A r \in {issue_q', mem_q'[0], mem_q'[1]} : r.valid =>
            mem_sb'[r.trans_id].issued /\ ~Sound(r.trans_id)' /\ OwnRequest(r)'
    BY <1>9 DEF OwnRequest
  <1>11. issue_q'.op \in FlushOp => /\ mem_sb'[issue_q'.trans_id].issued
                                    /\ mem_sb'[issue_q'.trans_id].ins.op = issue_q'.op
    BY <1>4 DEF Waits
  <1> QED BY <1>2, <1>10, <1>11 DEF Doomed

LEMMA FrontDoomed ==
    ASSUME CoreTypes, Doomed, Front.valid
    PROVE  /\ mem_sb[Front.trans_id].issued /\ ~Sound(Front.trans_id) /\ OwnRequest(Front)
           /\ Front.trans_id \in TransId
  <1>1. Front \in {issue_q, mem_q[0], mem_q[1]}
    BY DEF Front, CoreTypes, LsuTypes
  <1> QED BY <1>1, WorkType DEF Doomed

\* An access that gets its translation and must trap does so a cycle later.
LEMMA AnswerTraps ==
    ASSUME CoreTypes, NEW x, Inputs(x), LSUStep(x), MmuOK', translation_req(x), dtlb_hit(x),
           OwnRequest(Front), WillTrap(mem_sb[Front.trans_id].ins)
    PROVE  mmu_exception'
  <1>1. /\ lsu_q'.req = translation_req(x) /\ lsu_q'.addr = AddrOf(Front.req)
        /\ lsu_q'.misaligned = (Front.misaligned /\ translation_req(x))
        /\ lsu_q'.hit = dtlb_hit(x)
    BY MmuInput
  <1>2. Front.misaligned \/ (Translate /\ Front.req.page \in Unmapped \cup Forbidden)
    BY DEF WillTrap, OwnRequest
  <1>3. lsu_q'.req /\ lsu_q'.hit
    BY <1>1
  <1>4. CASE Front.misaligned
    <2>1. lsu_q'.misaligned
      BY <1>1, <1>4
    <2> QED BY <2>1 DEF mmu_exception
  <1>5. CASE Translate /\ Front.req.page \in Unmapped \cup Forbidden
    <2>1. lsu_q'.addr.page = Front.req.page
      BY <1>1 DEF AddrOf
    <2>2. lsu_q'.addr.page \in Forbidden
      BY <1>3, <1>5, <2>1 DEF MmuOK
    <2> QED BY <1>3, <1>5, <2>2 DEF mmu_exception
  <1> QED BY <1>2, <1>4, <1>5

\* What a cycle writes to an issued access that does not retire.
LEMMA EntryInTrap ==
    ASSUME CoreTypes, Trapping,
           NEW ins \in Instr \cup {NoInstr}, NEW x, Inputs(x), Steps(ins, x), ~flush(x.amo_ack),
           NEW i \in TransId, mem_sb[i].issued, ~Retired(i, x), is_lsu(mem_sb[i].ins)
    PROVE  /\ mem_sb[i].ex => mem_sb'[i].ex
           /\ mem_sb[i].valid \/ (Returns /\ load_pipe_q.trans_id = i) => mem_sb'[i].valid
           /\ mem_sb'[i].valid /\ ~mem_sb'[i].ex =>
                /\ ~mem_sb[i].ex
                /\ \/ mem_sb[i].valid /\ (mem_sb[i].ins.op = "load" => mem_sb'[i].result = mem_sb[i].result)
                   \/ /\ Returns /\ load_pipe_q.trans_id = i /\ ~load_pipe_q.ex
                      /\ mem_sb[i].ins.op = "load" /\ mem_sb'[i].result = load_pipe_q.data
                   \/ /\ Stores /\ st_trans_id_q = i /\ ~mmu_exception
                      /\ mem_sb[i].ins.op \in {"store", "amo"}
  <1>1. ins = NoInstr \/ i # issue_pointer_q
    BY SoundStep DEF Trapping
  <1>2. /\ mem_sb'[i].valid = (mem_sb[i].valid \/ Writes(i))
        /\ mem_sb'[i].ex = \/ mem_sb[i].ex
                           \/ mem_sb[i].issued /\ LoadWrites(i) /\ load_pipe_q.ex
                           \/ mem_sb[i].issued /\ StoreWrites(i) /\ mmu_exception
        /\ mem_sb'[i].result =
             IF mem_sb[i].issued /\ (StoreWrites(i) \/ FlushWrites(i)) THEN zero.data
             ELSE IF mem_sb[i].issued /\ LoadWrites(i) THEN load_pipe_q.data
             ELSE mem_sb[i].result
    BY <1>1, FieldStep DEF Trapping
  <1>3. ~FlushWrites(i)
    BY DEF Trapping, Doomed, FlushWrites, is_lsu, FlushOp
  <1>4. LoadWrites(i) <=> Returns /\ load_pipe_q.trans_id = i
    BY DEF LoadWrites, Returns, Trapping
  <1>5. LoadWrites(i) /\ ~load_pipe_q.ex => mem_sb[i].ins.op = "load"
    BY <1>4 DEF Trapping, ReturnsDoomed
  <1>6. StoreWrites(i) /\ ~mmu_exception => /\ Stores /\ st_trans_id_q = i
                                            /\ mem_sb[i].ins.op \in {"store", "amo"}
    BY DEF StoreWrites, Raised, Trapping, StoresDoomed
  <1>7. /\ mem_sb[i].valid \/ Writes(i) => mem_sb'[i].valid
        /\ mem_sb'[i].valid => mem_sb[i].valid \/ Writes(i)
        /\ mem_sb[i].ex => mem_sb'[i].ex
        /\ ~mem_sb'[i].ex => /\ LoadWrites(i) => ~load_pipe_q.ex
                             /\ StoreWrites(i) => ~mmu_exception
    BY <1>2
  <1>8. Writes(i) <=> LoadWrites(i) \/ StoreWrites(i)
    BY <1>3 DEF Writes
  <1>9. ASSUME mem_sb'[i].valid, ~mem_sb'[i].ex
        PROVE  /\ ~mem_sb[i].ex
               /\ \/ mem_sb[i].valid /\ (mem_sb[i].ins.op = "load" => mem_sb'[i].result = mem_sb[i].result)
                  \/ /\ Returns /\ load_pipe_q.trans_id = i /\ ~load_pipe_q.ex
                     /\ mem_sb[i].ins.op = "load" /\ mem_sb'[i].result = load_pipe_q.data
                  \/ /\ Stores /\ st_trans_id_q = i /\ ~mmu_exception
                     /\ mem_sb[i].ins.op \in {"store", "amo"}
    <2>1. CASE LoadWrites(i)
      <3>1. mem_sb[i].ins.op = "load" /\ ~StoreWrites(i)
        BY <1>5, <1>6, <1>7, <1>9, <2>1
      <3> QED BY <1>2, <1>3, <1>4, <1>7, <1>9, <2>1, <3>1
    <2>2. CASE ~LoadWrites(i) /\ StoreWrites(i)
      BY <1>6, <1>7, <1>9, <2>2
    <2>3. CASE ~LoadWrites(i) /\ ~StoreWrites(i)
      BY <1>2, <1>3, <1>7, <1>8, <1>9, <2>3
    <2> QED BY <2>1, <2>2, <2>3
  <1> QED BY <1>4, <1>7, <1>8, <1>9

\* What has no result, or a marked one, does not retire.
LEMMA StaysIssued ==
    ASSUME CoreTypes, ScoreboardRing, DoneDoomed, NEW x, NEW i \in TransId,
           Sound(i) /\ mem_sb[i].valid => mem_sb[i].ex
    PROVE  ~Retired(i, x)
  <1>1. Retired(i, x) => mem_sb[i].valid /\ ~mem_sb[i].ex
    BY DEF Retired, commit_ack0, commit_ack1, retires0, c0, c1
  <1> QED BY <1>1, RetiredIsLive DEF Live

LEMMA StoresInTrap ==
    ASSUME CoreTypes, Trapping, MmuOK',
           NEW ins \in Instr \cup {NoInstr}, NEW x, Inputs(x), Steps(ins, x), ~flush(x.amo_ack)
    PROVE  StoresDoomed'
  <1> SUFFICES ASSUME Stores'
               PROVE  StoresDoomed'
    BY DEF StoresDoomed
  <1>0. LSUStep(x)
    BY DEF Steps
  <1>1. /\ Front.valid /\ is_store(Front) /\ st_trans_id_q' = Front.trans_id
        /\ dtlb_hit(x) /\ translation_req(x)
    BY <1>0, StoreTrapStep
  <1>2. /\ mem_sb[Front.trans_id].issued /\ ~Sound(Front.trans_id) /\ OwnRequest(Front)
        /\ Front.trans_id \in TransId
    BY <1>1, FrontDoomed DEF Trapping
  <1>3. PICK i \in TransId : i = Front.trans_id
    BY <1>2
  <1>4. mem_sb'[i].issued /\ mem_sb'[i].ins = mem_sb[i].ins /\ ~Sound(i)'
    BY <1>2, <1>3, UnsoundStep DEF Trapping
  <1>5. WillTrap(mem_sb[i].ins) => mmu_exception'
    BY <1>0, <1>1, <1>2, <1>3, AnswerTraps
  <1>6. mem_sb[i].ins.op \in {"store", "amo"}
    BY <1>1, <1>2, <1>3 DEF OwnRequest, is_store
  <1>7. WillTrap(mem_sb'[i].ins) => mmu_exception'
    BY <1>4, <1>5
  <1>8. ~Sound(st_trans_id_q)'
    BY <1>1, <1>3, <1>4 DEF Sound, Pos
  <1> QED BY <1>1, <1>3, <1>4, <1>6, <1>7, <1>8 DEF StoresDoomed

\* The load the cache works on: a new one, or still the same.
LEMMA ReadTrapStep ==
    ASSUME CoreTypes, PortOK, ld_state_q # "WAIT_FLUSH",
           NEW x, Inputs(x), LSUStep(x), ~flush(x.amo_ack)
    PROVE  LET rv == DC!data_rvalid(dc_in(x))
               new == /\ dc_state_q' = "READ" /\ ~mmu_exception
                      /\ Front.valid /\ Front.op = "load" /\ load_data_q' = Front.trans_id
                      /\ dtlb_hit(x) /\ translation_req(x)
               same == /\ Reads /\ ~Kills /\ ~rv /\ dc_state_q' # "READ"
                       /\ load_data_q' = load_data_q /\ address_idx_q' = address_idx_q
                       /\ address_tag_q' = ReadPage
           IN  /\ Reads' => new \/ same
               /\ Reads /\ dc_state_q # "READ" =>
                    /\ ~Kills
                    /\ IF rv THEN load_pipe_q'.valid /\ load_pipe_q'.trans_id = load_data_q
                       ELSE Reads' /\ load_data_q' = load_data_q
  <1> DEFINE rv == DC!data_rvalid(dc_in(x))
             gnt == DC!data_gnt(dc_in(x))
  <1>1. /\ gnt => ~Kills /\ dc_state_q' = "READ"
        /\ ~gnt => address_idx_q' = address_idx_q
        /\ ~gnt /\ ~Limbo => dc_state_q' # "READ"
        /\ dc_state_q = "IDLE" \/ dc_state_q \in Killed
             => dc_state_q' \in {"IDLE", "READ"} \cup Killed
        /\ Limbo => ~gnt /\ dc_state_q' = "READ"
        /\ Kills => dc_state_q' = "IDLE" \/ dc_state_q' \in Killed
        /\ ~Kills /\ dc_state_q \in Busy /\ ~Limbo
             => IF rv THEN dc_state_q' \in {"IDLE", "READ"}
                ELSE dc_state_q' \in Busy /\ address_tag_q' = ReadPage
        /\ gnt => dc_state_q = "IDLE" \/ rv
    BY LoadPortStep
  <1>2. /\ Pops(x) => Front.valid /\ Front.op = "load"
        /\ Pops(x) /\ ~mmu_exception => gnt /\ dtlb_hit(x) /\ translation_req(x)
        /\ load_data_q' = IF Pops(x) /\ ~mmu_exception THEN Front.trans_id ELSE load_data_q
        /\ mmu_exception => ld_state_q' = "IDLE"
        /\ ld_state_q' # "WAIT_FLUSH"
        /\ rv /\ ld_state_q # "WAIT_TRANSLATION" /\ ~Kills
             => load_pipe_q'.valid /\ load_pipe_q'.trans_id = load_data_q
    BY LoadTrapStep
  <1>3. dc_state_q \in DC!State
    BY DEF CoreTypes, LsuTypes, DC!TypeOK
  <1>4. ld_state_q' = "SEND_TAG" => ~mmu_exception /\ Pops(x)
    <2> SUFFICES ASSUME ld_state_q' = "SEND_TAG" PROVE ~mmu_exception /\ Pops(x)
      OBVIOUS
    <2>1. ~mmu_exception
      BY <1>2
    <2>2. Calm
      BY <2>1 DEF Calm
    <2>3. ld_state_q \in LU!State
      BY DEF CoreTypes, LsuTypes, LU!TypeOK
    <2> DEFINE req == LU!data_req(ld(x))
               takes == Front.valid /\ Front.op = "load" /\ ld_state_q \in {"IDLE", "SEND_TAG"}
    <2>4. /\ Pops(x) = (req /\ gnt /\ dtlb_hit(x) /\ ~StallNC(x))
          /\ req => ld_state_q' = IF ~gnt THEN "WAIT_GNT"
                                  ELSE IF ~dtlb_hit(x) THEN "ABORT_TRANSACTION"
                                  ELSE IF StallNC(x) THEN "ABORT_TRANSACTION_NC"
                                  ELSE "SEND_TAG"
          /\ ~req /\ takes => ld_state_q' = "WAIT_PAGE_OFFSET"
          /\ ~req /\ ~takes =>
               CASE ld_state_q = "WAIT_PAGE_OFFSET" ->
                      ld_state_q' = IF page_offset_matches(x) THEN "WAIT_PAGE_OFFSET"
                                                              ELSE "WAIT_GNT"
                 [] ld_state_q = "ABORT_TRANSACTION" -> ld_state_q' = "WAIT_TRANSLATION"
                 [] ld_state_q = "ABORT_TRANSACTION_NC" -> ld_state_q' = "WAIT_WB_EMPTY"
                 [] ld_state_q = "WAIT_WB_EMPTY" ->
                      ld_state_q' \in {"WAIT_TRANSLATION", "WAIT_WB_EMPTY"}
                 [] ld_state_q = "WAIT_TRANSLATION" ->
                      ld_state_q' \in {"WAIT_GNT", "WAIT_TRANSLATION"}
                 [] OTHER -> ld_state_q' = "IDLE"
      BY <2>2, LoadUnitStep
    <2> HIDE DEF req, takes, gnt
    <2>5. req
      BY <2>3, <2>4 DEF LU!State
    <2> QED BY <2>1, <2>4, <2>5
  <1> HIDE DEF rv, gnt
  <1>5. ASSUME Reads', dc_state_q' = "READ"
        PROVE  /\ ~mmu_exception /\ Front.valid /\ Front.op = "load"
               /\ load_data_q' = Front.trans_id /\ dtlb_hit(x) /\ translation_req(x)
    <2>1. ld_state_q' = "SEND_TAG"
      BY <1>5 DEF Reads
    <2> QED BY <1>2, <1>4, <2>1
  <1>6. ASSUME Reads', dc_state_q' # "READ"
        PROVE  /\ Reads /\ ~Kills /\ ~rv
               /\ load_data_q' = load_data_q /\ address_idx_q' = address_idx_q
               /\ address_tag_q' = ReadPage
    <2>1. dc_state_q' \in Busy \ {"READ"}
      BY <1>6 DEF Reads, Busy
    <2>2. ~gnt /\ ~Kills /\ ~Limbo /\ dc_state_q # "IDLE" /\ dc_state_q \notin Killed
      BY <1>1, <2>1 DEF Busy, Killed
    <2>3. dc_state_q \in Busy
      BY <1>3, <2>2 DEF Busy, Killed, DC!State
    <2>4. ~rv /\ address_tag_q' = ReadPage
      BY <1>1, <2>1, <2>2, <2>3 DEF Busy
    <2>5. Reads
      BY <2>2, <2>3 DEF Reads, Busy, Limbo, Kills
    <2> QED BY <1>1, <1>2, <2>2, <2>4, <2>5
  <1>7. ASSUME Reads, dc_state_q # "READ"
        PROVE  /\ ~Kills
               /\ IF rv THEN load_pipe_q'.valid /\ load_pipe_q'.trans_id = load_data_q
                  ELSE Reads' /\ load_data_q' = load_data_q
    <2>1. ~Kills /\ ~Limbo /\ ld_state_q # "WAIT_TRANSLATION" /\ dc_state_q \in Busy
      BY <1>7 DEF Reads, PortOK, Kills, Limbo, Busy
    <2>2. CASE rv
      BY <1>2, <2>1, <2>2
    <2>3. CASE ~rv
      <3>1. ~gnt
        BY <1>1, <1>7, <2>1, <2>3 DEF Busy
      <3>2. dc_state_q' \in Busy \ {"READ"}
        BY <1>1, <2>1, <2>3, <3>1
      <3> QED BY <1>2, <2>1, <2>3, <3>1, <3>2 DEF Reads, Busy
    <2> QED BY <2>1, <2>2, <2>3
  <1> QED BY <1>5, <1>6, <1>7 DEF rv

\* What a load reads, or has read, stays what memory holds.
LEMMA ClearInTrap ==
    ASSUME CoreTypes, Trapping, ~SingleStep, IInv,
           NEW ins \in Instr \cup {NoInstr}, NEW x, Inputs(x), Steps(ins, x), ~flush(x.amo_ack),
           NEW i \in TransId, mem_sb[i].issued, ~Retired(i, x), Clear(i)
    PROVE  /\ Clear(i)' /\ mem_sb'[i].ins = mem_sb[i].ins
           /\ mem'[AddrOf(mem_sb'[i].ins.req)] = mem[AddrOf(mem_sb[i].ins.req)]
  <1>1. HeadOK
    BY HeadTrapping DEF Trapping
  <1>2. ScoreboardRing
    BY DEF Trapping
  <1>3. mem_sb[i].ins.req \in Store
    <2>1. mem_sb[i].ins \in Instr
      BY <1>2 DEF ScoreboardRing
    <2> QED BY <2>1, CoreAssumption
  <1> QED BY <1>1, <1>2, <1>3, ClearStep

LEMMA ReadsInTrap ==
    ASSUME CoreTypes, Trapping, ~SingleStep, IInv, MmuOK',
           NEW ins \in Instr \cup {NoInstr}, NEW x, Inputs(x), Steps(ins, x), ~flush(x.amo_ack)
    PROVE  ReadsDoomed'
  <1> SUFFICES ASSUME Reads'
               PROVE  ReadsDoomed'
    BY DEF ReadsDoomed
  <1>0. LSUStep(x) /\ PortOK /\ ld_state_q # "WAIT_FLUSH" /\ ScoreboardRing /\ DoneDoomed /\ Doomed
    BY DEF Steps, Trapping
  <1> DEFINE rv == DC!data_rvalid(dc_in(x))
  <1>1. \/ /\ dc_state_q' = "READ" /\ Front.valid /\ Front.op = "load"
           /\ load_data_q' = Front.trans_id /\ dtlb_hit(x) /\ translation_req(x)
        \/ /\ Reads /\ ~Kills /\ ~rv /\ dc_state_q' # "READ"
           /\ load_data_q' = load_data_q /\ address_idx_q' = address_idx_q
           /\ address_tag_q' = ReadPage
    BY <1>0, ReadTrapStep
  <1>2. ASSUME dc_state_q' = "READ", Front.valid, Front.op = "load",
               load_data_q' = Front.trans_id, dtlb_hit(x), translation_req(x)
        PROVE  ReadsDoomed'
    <2>1. /\ mem_sb[Front.trans_id].issued /\ ~Sound(Front.trans_id) /\ OwnRequest(Front)
          /\ Front.trans_id \in TransId
      BY <1>0, <1>2, FrontDoomed
    <2>2. PICK i \in TransId : i = Front.trans_id
      BY <2>1
    <2>3. mem_sb'[i].issued /\ mem_sb'[i].ins = mem_sb[i].ins /\ ~Sound(i)'
      BY <1>0, <2>1, <2>2, UnsoundStep
    <2>4. WillTrap(mem_sb[i].ins) => mmu_exception'
      BY <1>0, <1>2, <2>1, <2>2, AnswerTraps
    <2>5. mem_sb[i].ins.op = "load"
      BY <1>2, <2>1, <2>2 DEF OwnRequest
    <2>6. ~Sound(load_data_q)'
      BY <1>2, <2>2, <2>3 DEF Sound, Pos
    <2>7. WillTrap(mem_sb[load_data_q].ins)' => mmu_exception'
      BY <1>2, <2>2, <2>3, <2>4
    <2> QED BY <1>2, <2>2, <2>3, <2>5, <2>6, <2>7 DEF ReadsDoomed
  <1>3. ASSUME Reads, ~Kills, ~rv, dc_state_q' # "READ", load_data_q' = load_data_q,
               address_idx_q' = address_idx_q, address_tag_q' = ReadPage
        PROVE  ReadsDoomed'
    <2>1. PICK i \in TransId : i = load_data_q
      BY WorkType
    <2>2. /\ mem_sb[i].issued /\ mem_sb[i].ins.op = "load" /\ ~WillTrap(mem_sb[i].ins)
          /\ Sound(i) => /\ dc_state_q # "READ" /\ (mem_sb[i].valid => mem_sb[i].ex)
                         /\ Returns => load_pipe_q.trans_id # i
                         /\ Clear(i) /\ address_idx_q = mem_sb[i].ins.req.off
                         /\ address_tag_q = mem_sb[i].ins.req.page
      <3>1. dc_state_q = "READ" => ~mmu_exception
        BY <1>3 DEF Reads, Kills
      <3> QED BY <1>3, <2>1, <3>1 DEF Trapping, ReadsDoomed
    <2>3. ~Retired(i, x)
      BY <1>0, <2>2, StaysIssued
    <2>4. mem_sb'[i].issued /\ mem_sb'[i].ins = mem_sb[i].ins /\ (Sound(i)' <=> Sound(i))
      BY <1>0, <2>2, <2>3, SoundStep
    <2>5. ASSUME Sound(i)
          PROVE  /\ mem_sb'[i].valid => mem_sb'[i].ex
                 /\ Clear(i)'
      <3>1. is_lsu(mem_sb[i].ins)
        BY <2>2 DEF is_lsu
      <3>2. ~(Stores /\ st_trans_id_q = i)
        BY <2>2, <2>5 DEF Trapping, StoresDoomed
      <3>3. mem_sb'[i].valid => mem_sb'[i].ex
        BY <2>2, <2>3, <2>5, <3>1, <3>2, EntryInTrap
      <3>4. Clear(i)'
        BY <2>2, <2>3, <2>5, ClearInTrap
      <3> QED BY <3>3, <3>4
    <2>6. ASSUME Sound(i), Returns'
          PROVE  load_pipe_q'.trans_id # i
      <3>1. Front.valid /\ load_pipe_q'.trans_id = Front.trans_id
        <4>1. load_pipe_q'.valid
          BY <2>6 DEF Returns
        <4> QED BY <1>0, <1>3, <4>1, LoadTrapStep
      <3>2. ~Sound(Front.trans_id)
        BY <1>0, <3>1, FrontDoomed
      <3> QED BY <2>6, <3>1, <3>2
    <2>7. Sound(i) => address_tag_q' = mem_sb'[i].ins.req.page /\ address_idx_q' = mem_sb'[i].ins.req.off
      BY <1>3, <2>2, <2>4 DEF ReadPage
    <2>8. Sound(load_data_q)' => Sound(i)
      BY <1>3, <2>1, <2>4 DEF Sound, Pos
    <2>9. Clear(i)' => Clear(load_data_q)'
      BY <1>3, <2>1 DEF Clear, Pos
    <2>10. ~WillTrap(mem_sb[load_data_q].ins)'
      BY <1>3, <2>1, <2>2, <2>4 DEF WillTrap
    <2> HIDE DEF rv
    <2>11. Sound(i) => (Returns' => load_pipe_q'.trans_id # load_data_q')
      BY <1>3, <2>1, <2>6
    <2> QED BY <1>3, <2>1, <2>2, <2>4, <2>5, <2>7, <2>8, <2>9, <2>10, <2>11 DEF ReadsDoomed
  <1> QED BY <1>1, <1>2, <1>3

LEMMA ReturnsInTrap ==
    ASSUME CoreTypes, Trapping, ~SingleStep, IInv,
           NEW ins \in Instr \cup {NoInstr}, NEW x, Inputs(x), Steps(ins, x), ~flush(x.amo_ack)
    PROVE  ReturnsDoomed'
  <1> SUFFICES ASSUME Returns', ~load_pipe_q'.ex
               PROVE  ReturnsDoomed'
    BY DEF ReturnsDoomed
  <1>0. LSUStep(x) /\ PortOK /\ ld_state_q # "WAIT_FLUSH" /\ ScoreboardRing /\ DoneDoomed
    BY DEF Steps, Trapping
  <1>1. load_pipe_q'.valid
    BY DEF Returns
  <1>2. ~mmu_exception
    <2>1. load_pipe_q'.ex = mmu_exception
      BY <1>0, <1>1, LoadTrapStep
    <2> QED BY <2>1
  <1>3. Calm
    BY <1>2 DEF Calm
  <1>4. /\ Answers(x) = /\ ~Aborts /\ ld_state_q \notin {"WAIT_TRANSLATION", "WAIT_FLUSH"}
                        /\ DC!data_rvalid(dc_in(x))
        /\ load_pipe_q' = IF Answers(x)
                            THEN [valid |-> TRUE, trans_id |-> load_data_q,
                                  data |-> mem[rd_addr(dc_in(x))], ex |-> FALSE]
                            ELSE NoResult
    BY <1>0, <1>3, LoadUnitStep
  <1>5. Answers(x)
    BY <1>1, <1>4 DEF NoResult
  <1>6. load_pipe_q'.trans_id = load_data_q /\ load_pipe_q'.data = mem[rd_addr(dc_in(x))]
    BY <1>4, <1>5
  <1>7. Reads
    BY <1>0, <1>3, <1>5, LoadStep
  <1>8. ~Kills /\ ~Limbo /\ dc_state_q \in Busy /\ DC!data_rvalid(dc_in(x))
    <2>1. ~Aborts /\ DC!data_rvalid(dc_in(x))
      BY <1>4, <1>5
    <2> QED BY <1>0, <1>2, <1>7, <2>1 DEF Kills, Limbo, Busy, Reads
  <1>9. rd_addr(dc_in(x)) = [page |-> ReadPage, off |-> address_idx_q]
    BY <1>0, <1>8, LoadPortStep
  <1>10. PICK i \in TransId : i = load_data_q
    BY WorkType
  <1>11. /\ mem_sb[i].issued /\ mem_sb[i].ins.op = "load" /\ ~WillTrap(mem_sb[i].ins)
         /\ Sound(i) => /\ dc_state_q # "READ" /\ (mem_sb[i].valid => mem_sb[i].ex)
                        /\ Clear(i) /\ address_idx_q = mem_sb[i].ins.req.off
                        /\ address_tag_q = mem_sb[i].ins.req.page
    BY <1>2, <1>7, <1>10 DEF Trapping, ReadsDoomed
  <1>12. ~Retired(i, x)
    BY <1>0, <1>11, StaysIssued
  <1>13. mem_sb'[i].issued /\ mem_sb'[i].ins = mem_sb[i].ins /\ (Sound(i)' <=> Sound(i))
    BY <1>0, <1>11, <1>12, SoundStep
  <1>14. ASSUME Sound(i)
         PROVE  Clear(i)' /\ load_pipe_q'.data = mem'[AddrOf(mem_sb'[i].ins.req)]
    <2>1. rd_addr(dc_in(x)) = AddrOf(mem_sb[i].ins.req)
      BY <1>9, <1>11, <1>14 DEF AddrOf, ReadPage
    <2>2. /\ Clear(i)'
          /\ mem'[AddrOf(mem_sb'[i].ins.req)] = mem[AddrOf(mem_sb[i].ins.req)]
      BY <1>11, <1>12, <1>14, ClearInTrap
    <2> QED BY <1>6, <2>1, <2>2
  <1>15. load_pipe_q'.trans_id = i
    BY <1>6, <1>10
  <1>16. Sound(load_pipe_q.trans_id)' => Sound(i)
    BY <1>13, <1>15 DEF Sound, Pos
  <1>17. Clear(i)' => Clear(load_pipe_q.trans_id)'
    BY <1>15 DEF Clear, Pos
  <1>18. ~WillTrap(mem_sb[load_pipe_q.trans_id].ins)'
    BY <1>11, <1>13, <1>15 DEF WillTrap
  <1>19. Sound(i) => Delivers(load_pipe_q.trans_id, load_pipe_q.data)'
    BY <1>14, <1>15, <1>17 DEF Delivers
  <1> QED BY <1>11, <1>13, <1>15, <1>16, <1>18, <1>19 DEF ReturnsDoomed

LEMMA DoneInTrap ==
    ASSUME CoreTypes, Trapping, ~SingleStep, IInv,
           NEW ins \in Instr \cup {NoInstr}, NEW x, Inputs(x), Steps(ins, x), ~flush(x.amo_ack)
    PROVE  DoneDoomed'
  <1>0. ScoreboardRing /\ DoneDoomed
    BY DEF Trapping
  <1>1. ASSUME NEW i \in TransId
        PROVE  /\ WillTrap(mem_sb'[i].ins) /\ mem_sb'[i].valid => mem_sb'[i].ex
               /\ mem_sb'[i].valid /\ ~mem_sb'[i].ex /\ mem_sb'[i].ins.op = "load" /\ Sound(i)'
                    => Clear(i)' /\ mem_sb'[i].result = mem'[AddrOf(mem_sb'[i].ins.req)]
    <2>1. CASE Retired(i, x)
      <3>1. mem_sb'[i] = EmptyEntry
        BY <1>0, <2>1, WriteStep
      <3> QED BY <3>1, EmptyEntryFields
    <2>2. CASE ~Retired(i, x) /\ ins # NoInstr /\ i = issue_pointer_q
      <3>1. mem_sb'[i] = NewEntry(ins)
        BY <1>0, <2>2, WriteStep
      <3>2. mem_sb'[i].valid => mem_sb'[i].ex
        BY <3>1 DEF NewEntry
      <3> QED BY <3>2
    <2>3. CASE ~Retired(i, x) /\ (ins = NoInstr \/ i # issue_pointer_q) /\ ~mem_sb[i].issued
      <3>1. mem_sb'[i] = mem_sb[i]
        BY <1>0, <2>3, FieldStep DEF Writes
      <3>2. mem_sb[i] = EmptyEntry
        BY <1>0, <2>3 DEF ScoreboardRing
      <3> QED BY <3>1, <3>2, EmptyEntryFields
    <2>4. CASE ~Retired(i, x) /\ mem_sb[i].issued
      <3>1. mem_sb'[i].issued /\ mem_sb'[i].ins = mem_sb[i].ins /\ (Sound(i)' <=> Sound(i))
        BY <1>0, <2>4, SoundStep
      <3>2. ASSUME mem_sb'[i].valid, ~mem_sb'[i].ex, is_lsu(mem_sb[i].ins)
            PROVE  /\ ~mem_sb[i].ex
                   /\ \/ mem_sb[i].valid /\ (mem_sb[i].ins.op = "load" => mem_sb'[i].result = mem_sb[i].result)
                      \/ /\ Returns /\ load_pipe_q.trans_id = i /\ ~load_pipe_q.ex
                         /\ mem_sb[i].ins.op = "load" /\ mem_sb'[i].result = load_pipe_q.data
                      \/ /\ Stores /\ st_trans_id_q = i /\ ~mmu_exception
                         /\ mem_sb[i].ins.op \in {"store", "amo"}
        BY <2>4, <3>2, EntryInTrap
      <3>3. ASSUME WillTrap(mem_sb[i].ins), mem_sb'[i].valid
            PROVE  mem_sb'[i].ex
        <4>1. is_lsu(mem_sb[i].ins)
          BY <3>3 DEF WillTrap
        <4>2. mem_sb[i].valid => mem_sb[i].ex
          BY <1>0, <3>3 DEF DoneDoomed
        <4>3. Returns /\ ~load_pipe_q.ex => load_pipe_q.trans_id # i
          BY <3>3 DEF Trapping, ReturnsDoomed
        <4>4. Stores /\ ~mmu_exception => st_trans_id_q # i
          BY <3>3 DEF Trapping, StoresDoomed
        <4> QED BY <3>2, <3>3, <4>1, <4>2, <4>3, <4>4
      <3>4. ASSUME mem_sb'[i].valid, ~mem_sb'[i].ex, mem_sb[i].ins.op = "load", Sound(i)
            PROVE  Clear(i)' /\ mem_sb'[i].result = mem'[AddrOf(mem_sb'[i].ins.req)]
        <4>1. is_lsu(mem_sb[i].ins)
          BY <3>4 DEF is_lsu
        <4>2. Clear(i) /\ mem_sb'[i].result = mem[AddrOf(mem_sb[i].ins.req)]
          <5>1. CASE mem_sb[i].valid /\ ~mem_sb[i].ex /\ mem_sb'[i].result = mem_sb[i].result
            BY <1>0, <3>4, <5>1 DEF DoneDoomed, Delivers
          <5>2. CASE /\ Returns /\ load_pipe_q.trans_id = i /\ ~load_pipe_q.ex
                     /\ mem_sb'[i].result = load_pipe_q.data
            BY <3>4, <5>2 DEF Trapping, ReturnsDoomed, Delivers
          <5> QED BY <3>2, <3>4, <4>1, <5>1, <5>2
        <4>3. /\ Clear(i)'
              /\ mem'[AddrOf(mem_sb'[i].ins.req)] = mem[AddrOf(mem_sb[i].ins.req)]
          BY <2>4, <4>2, ClearInTrap
        <4> QED BY <4>2, <4>3
      <3> QED BY <3>1, <3>3, <3>4
    <2> QED BY <2>1, <2>2, <2>3, <2>4
  <1> QED BY <1>1 DEF DoneDoomed, Delivers, WillTrap

LEMMA FoundInTrap ==
    ASSUME CoreTypes, Trapping,
           NEW ins \in Instr \cup {NoInstr}, NEW x, Inputs(x), Steps(ins, x), ~flush(x.amo_ack)
    PROVE  FoundDoomed'
  <1>0. LSUStep(x) /\ PortOK /\ ld_state_q # "WAIT_FLUSH" /\ ScoreboardRing /\ DoneDoomed
    BY DEF Steps, Trapping
  <1>1. ASSUME NEW i \in TransId, Sound(i)', mem_sb'[i].issued, ~mem_sb'[i].valid,
               is_lsu(mem_sb'[i].ins)
        PROVE  \/ Reads' /\ load_data_q' = i
               \/ Returns' /\ load_pipe_q'.trans_id = i
    <2>1. ~Retired(i, x)
      BY <1>0, <1>1, WriteStep, EmptyEntryFields
    <2>2. i # issue_pointer_q
      <3>1. PICK j \in TransId : WillTrap(mem_sb[j].ins)
        BY DEF Trapping, Doomed
      <3>2. \A k \in TransId : k = issue_pointer_q => ~Sound(k)'
        BY <1>0, <3>1, NewUnsound
      <3> QED BY <1>1, <3>2
    <2>3. mem_sb[i].issued
      BY <1>0, <1>1, <2>1, <2>2, FieldStep
    <2>4. Sound(i) /\ mem_sb'[i].ins = mem_sb[i].ins
      BY <1>0, <1>1, <2>1, <2>3, SoundStep
    <2>5. ~mem_sb[i].valid /\ ~(Returns /\ load_pipe_q.trans_id = i)
      BY <1>1, <2>1, <2>3, <2>4, EntryInTrap
    <2>6. Reads /\ load_data_q = i
      BY <1>1, <2>3, <2>4, <2>5 DEF Trapping, FoundDoomed, Waits
    <2>7. dc_state_q # "READ"
      BY <2>4, <2>6 DEF Trapping, ReadsDoomed
    <2>8. \/ load_pipe_q'.valid /\ load_pipe_q'.trans_id = load_data_q
          \/ Reads' /\ load_data_q' = load_data_q
      BY <1>0, <2>6, <2>7, ReadTrapStep
    <2>9. ld_state_q' # "WAIT_FLUSH"
      BY <1>0, LoadTrapStep
    <2> QED BY <2>6, <2>8, <2>9 DEF Returns
  <1> QED BY <1>1 DEF FoundDoomed, Waits

\* A result without a mark belongs to an access that was there before.
LEMMA OldInTrap ==
    ASSUME CoreTypes, Trapping,
           NEW ins \in Instr \cup {NoInstr}, NEW x, Inputs(x), Steps(ins, x), ~flush(x.amo_ack),
           NEW i \in TransId, mem_sb'[i].valid, ~mem_sb'[i].ex, is_lsu(mem_sb'[i].ins)
    PROVE  ~Retired(i, x) /\ mem_sb[i].issued /\ mem_sb'[i].ins = mem_sb[i].ins
  <1>0. ScoreboardRing /\ DoneDoomed
    BY DEF Trapping
  <1>1. ~Retired(i, x)
    BY <1>0, WriteStep, EmptyEntryFields
  <1>2. CASE ins # NoInstr /\ i = issue_pointer_q
    <2>1. mem_sb'[i] = NewEntry(ins)
      BY <1>0, <1>2, WriteStep
    <2>2. mem_sb'[i].valid => mem_sb'[i].ex
      BY <2>1 DEF NewEntry
    <2> QED BY <2>2
  <1>3. CASE ins = NoInstr \/ i # issue_pointer_q
    <2>1. mem_sb'[i].ins = mem_sb[i].ins
      BY <1>0, <1>1, <1>3, FieldStep
    <2>2. mem_sb[i].issued
      <3>1. mem_sb[i].ins # NoInstr
        BY <2>1 DEF is_lsu, NoInstr
      <3> QED BY <1>0, <3>1, EmptyEntryFields DEF ScoreboardRing
    <2> QED BY <1>1, <2>1, <2>2
  <1> QED BY <1>2, <1>3

LEMMA AmoInTrap ==
    ASSUME CoreTypes, Trapping,
           NEW ins \in Instr \cup {NoInstr}, NEW x, Inputs(x), Steps(ins, x), ~flush(x.amo_ack)
    PROVE  AmoDoomed'
  <1>0. LSUStep(x) /\ ScoreboardRing /\ DoneDoomed
    BY DEF Steps, Trapping
  <1>1. /\ amo_valid => amo_valid' /\ amo_data' = amo_data
    <2>1. SUStep(st_in(x)) /\ st_in(x).flush = flush(x.amo_ack) /\ st_in(x).amo_ack = x.amo_ack
      BY <1>0, LsuParts, StoreUnitInput
    <2>2. ~x.amo_ack
      BY AmoAckFlushes
    <2> QED BY <2>1, <2>2 DEF SUStep, amo_buffer
  <1>2. ASSUME NEW i \in TransId, mem_sb'[i].valid, ~mem_sb'[i].ex,
               mem_sb'[i].ins.op = "amo", Sound(i)'
        PROVE  SoundAmo(i) /\ mem_sb'[i].ins = mem_sb[i].ins
    <2>1. ~Retired(i, x) /\ mem_sb[i].issued /\ mem_sb'[i].ins = mem_sb[i].ins
      BY <1>2, OldInTrap DEF is_lsu
    <2>2. Sound(i)
      BY <1>0, <1>2, <2>1, SoundStep
    <2>3. ~(Stores /\ st_trans_id_q = i)
      BY <2>2 DEF Trapping, StoresDoomed
    <2>4. is_lsu(mem_sb[i].ins) /\ mem_sb[i].ins.op = "amo"
      BY <1>2, <2>1 DEF is_lsu
    <2>5. mem_sb[i].valid /\ ~mem_sb[i].ex
      BY <1>2, <2>1, <2>3, <2>4, EntryInTrap
    <2> QED BY <2>1, <2>2, <2>4, <2>5 DEF SoundAmo
  <1>3. ASSUME NEW i \in TransId, SoundAmo(i)'
        PROVE  SoundAmo(i) /\ mem_sb'[i].ins = mem_sb[i].ins
    BY <1>2, <1>3 DEF SoundAmo
  <1>4. ASSUME NEW i \in TransId, SoundAmo(i)'
        PROVE  /\ amo_valid' /\ amo_data' = mem_sb'[i].ins.req
               /\ \A j \in TransId : SoundAmo(j)' => j = i
    <2>1. SoundAmo(i) /\ mem_sb'[i].ins = mem_sb[i].ins
      BY <1>3, <1>4
    <2>2. /\ amo_valid /\ amo_data = mem_sb[i].ins.req
          /\ \A j \in TransId : SoundAmo(j) => j = i
      BY <2>1 DEF Trapping, AmoDoomed
    <2> QED BY <1>1, <1>3, <2>1, <2>2
  <1> QED BY <1>4 DEF AmoDoomed

\* A store that no mark stops was there before, and is ahead in the queue.
LEMMA LiveInTrap ==
    ASSUME CoreTypes, Trapping,
           NEW ins \in Instr \cup {NoInstr}, NEW x, Inputs(x), Steps(ins, x), ~flush(x.amo_ack),
           NEW i \in TransId, DoneStore(mem_sb'[i]), Live(i)'
    PROVE  /\ LiveStore(i) /\ mem_sb'[i].ins = mem_sb[i].ins
           /\ ~Retired(i, x) /\ Pos(i)' = Pos(i) - NRetired(x)
           /\ \A j \in TransId : LiveStore(j) /\ Pos(j) < Pos(i) /\ ~Retired(j, x) =>
                /\ DoneStore(mem_sb'[j]) /\ Live(j)' /\ mem_sb'[j].ins = mem_sb[j].ins
                /\ Pos(j)' < Pos(i)'
  <1>0. ScoreboardRing /\ DoneDoomed
    BY DEF Trapping
  <1>1. ~Retired(i, x) /\ mem_sb[i].issued /\ mem_sb'[i].ins = mem_sb[i].ins
    BY OldInTrap DEF DoneStore, is_lsu
  <1>2. Live(i) /\ Sound(i) /\ Pos(i)' = Pos(i) - NRetired(x)
    BY <1>0, <1>1, SoundStep DEF Live
  <1>3. ~(Stores /\ st_trans_id_q = i)
    BY <1>2 DEF Trapping, StoresDoomed
  <1>4. is_lsu(mem_sb[i].ins) /\ mem_sb[i].ins.op = "store"
    BY <1>1 DEF DoneStore, is_lsu
  <1>5. mem_sb[i].valid /\ ~mem_sb[i].ex
    BY <1>1, <1>3, <1>4, EntryInTrap DEF DoneStore
  <1>6. LiveStore(i)
    BY <1>2, <1>4, <1>5 DEF LiveStore, DoneStore
  <1>7. \A k \in TransId : Pos(k) \in Int /\ Pos(k)' \in Int
    <2> TAKE k \in TransId
    <2>1. Pos(k) \in Int /\ NRetired(x) \in Int /\ NR_SB_ENTRIES \in Int
      BY <1>0, PosFacts, RetiredFacts, LSUAssumption
    <2>2. /\ Pos(k) >= NRetired(x) => Pos(k)' = Pos(k) - NRetired(x)
          /\ Pos(k) < NRetired(x) => Pos(k)' = Pos(k) - NRetired(x) + NR_SB_ENTRIES
      BY <1>0, PointerStep
    <2>3. CASE Pos(k) >= NRetired(x)
      BY <2>1, <2>2, <2>3
    <2>4. CASE Pos(k) < NRetired(x)
      BY <2>1, <2>2, <2>4
    <2> QED BY <2>1, <2>3, <2>4
  <1>8. ASSUME NEW j \in TransId, LiveStore(j), Pos(j) < Pos(i), ~Retired(j, x)
        PROVE  /\ DoneStore(mem_sb'[j]) /\ Live(j)' /\ mem_sb'[j].ins = mem_sb[j].ins
               /\ Pos(j)' < Pos(i)'
    <2>1. mem_sb[j].valid /\ mem_sb[j].ins.op = "store" /\ is_lsu(mem_sb[j].ins)
      BY <1>8 DEF LiveStore, DoneStore, is_lsu
    <2>2. mem_sb[j].issued
      BY <1>0, <2>1, EmptyEntryFields DEF ScoreboardRing
    <2>3. mem_sb'[j].ins = mem_sb[j].ins /\ Pos(j)' = Pos(j) - NRetired(x)
      BY <1>0, <1>8, <2>2, SoundStep
    <2>4. mem_sb'[j].valid
      BY <1>8, <2>1, <2>2, EntryInTrap
    <2>5. Pos(j)' < Pos(i)'
      <3>1. NRetired(x) \in Int
        BY <1>0, RetiredFacts
      <3> QED BY <1>2, <1>7, <1>8, <2>3, <3>1
    <2>6. \A k \in TransId : Pos(k)' <= Pos(j)' => Pos(k)' <= Pos(i)'
      BY <1>7, <2>5
    <2>7. Live(j)'
      BY <2>6 DEF Live, Sound
    <2>8. Pos(j)' <= Pos(i)'
      BY <1>7, <2>5
    <2>9. mem_sb'[j].ex => mem_sb'[j].ins.op = "trap"
      BY <2>8 DEF Live
    <2> QED BY <2>1, <2>3, <2>4, <2>5, <2>7, <2>9 DEF DoneStore
  <1> QED BY <1>1, <1>2, <1>6, <1>8

LEMMA QueueInTrap ==
    ASSUME CoreTypes, Trapping, ~SingleStep, IInv,
           NEW ins \in Instr \cup {NoInstr}, NEW x, Inputs(x), Steps(ins, x), ~flush(x.amo_ack)
    PROVE  QueueDoomed'
  <1> DEFINE c == IF commit_lsu THEN 1 ELSE 0
             v == IF store_buffer_valid(st_in(x)) THEN 1 ELSE 0
             cnt == speculative_status_cnt_q
             LS(i) == LiveStore(i)'
             P(i) == Pos(i)'
  <1>0. LSUStep(x) /\ ScoreboardRing /\ DoneDoomed /\ HeadOK
    BY HeadTrapping DEF Steps, Trapping
  <1>1. c \in 0..1 /\ v \in 0..1 /\ (commit_lsu <=> c = 1)
    OBVIOUS
  <1>2. /\ cnt \in Nat /\ cnt' = cnt - c + v /\ c <= cnt
        /\ DOMAIN SpecContents' = 1 .. cnt'
        /\ \A k \in 1 .. cnt' : SpecContents'[k] = IF k + c <= cnt THEN SpecContents[k + c]
                                                   ELSE st_q.req
    <2>1. st_in(x) \in Input /\ CommitContract(st_in(x)) /\ SUStep(st_in(x))
      BY <1>0, StoreUnitKept
    <2>2. ~st_in(x).flush /\ st_in(x).commit = commit_lsu
      BY StoreUnitInput
    <2>3. store_buffer_valid(st_in(x)) <=> v = 1
      OBVIOUS
    <2>4. st_in(x).commit <=> c = 1
      BY <2>2
    <2>5. c \in 0..1 /\ v \in 0..1
      OBVIOUS
    <2> HIDE DEF c, v, cnt, LS, P
    <2>6. LET n == speculative_status_cnt_q
          IN  /\ n \in Nat /\ n' = n - c + v /\ c <= n
              /\ DOMAIN SpecContents = 1 .. n /\ DOMAIN SpecContents' = 1 .. n'
              /\ \A k \in 1 .. n' : SpecContents'[k] = IF k + c <= n THEN SpecContents[k + c]
                                                       ELSE st_q.req
              /\ c = 1 => SpecContents[1] = committing.req
      BY <2>1, <2>2, <2>3, <2>4, <2>5, SpecIndexing
    <2> QED BY <2>6 DEF cnt
  <1>3. PICK id \in [1 .. cnt -> TransId] : Leads(id)
    BY QueueLeads DEF Trapping
  <1>4. v = 1 => ~Sound(st_trans_id_q)
    <2>1. v = 1 => store_buffer_valid(st_in(x))
      OBVIOUS
    <2>2. store_buffer_valid(st_in(x)) => Stores
      <3>1. store_buffer_valid(st_in(x)) = (Stores /\ ~flush(x.amo_ack) /\ ~mmu_exception /\ ~st_q.amo)
        BY <1>0, StoreUnitStep
      <3> QED BY <3>1
    <2> QED BY <2>1, <2>2 DEF Trapping, StoresDoomed
  <1>5. \A i \in TransId : Pos(i) \in Int /\ Pos(i) >= 0 /\ (Pos(i) = 0 => i = commit_pointer_q)
    BY PosFacts
  <1>6. c = 1 => Retired(commit_pointer_q, x) /\ commit_pointer_q \in TransId
    <2>1. commit_lsu => commit_ack0(x.amo_ack)
      BY DEF commit_lsu, commit_ack0, retires0
    <2> QED BY <1>1, <2>1 DEF Retired, CoreTypes, SbTypes
  <1>7. c = 1 => 1 \in 1 .. cnt /\ id[1] = commit_pointer_q
    <2> SUFFICES ASSUME c = 1 PROVE 1 \in 1 .. cnt /\ id[1] = commit_pointer_q
      OBVIOUS
    <2>1. LiveStore(commit_pointer_q) /\ Pos(commit_pointer_q) = 0
      <3>1. retires0 /\ c0.ins.op = "store"
        BY <1>1 DEF commit_lsu
      <3> QED BY <1>0, <3>1, HeadIsLive DEF LiveStore, DoneStore, retires0, c0
    <2>2. PICK k \in 1 .. cnt : id[k] = commit_pointer_q
      BY <1>3, <1>6, <2>1 DEF Leads
    <2>3. 1 \in 1 .. cnt /\ id[1] \in TransId
      BY <1>2, <1>3, <2>2
    <2>4. ~(1 < k)
      BY <1>3, <1>5, <2>1, <2>2, <2>3 DEF Leads
    <2>5. k = 1
      BY <2>2, <2>4
    <2> QED BY <2>2, <2>3, <2>5
  <1>8. ASSUME NEW j \in TransId, LiveStore(j), Retired(j, x)
        PROVE  c = 1 /\ j = commit_pointer_q
    <2>1. j = commit_pointer_q
      BY <1>8 DEF Retired, commit_ack1, c1, LiveStore, DoneStore
    <2>2. commit_ack0(x.amo_ack) /\ c0.ins.op = "store"
      BY <1>8, <2>1 DEF Retired, commit_ack1, LiveStore, DoneStore, c0
    <2>3. commit_lsu
      BY <2>2 DEF commit_lsu, commit_ack0
    <2> QED BY <1>1, <2>1, <2>3
  <1>9. ASSUME NEW i \in TransId, LS(i)
        PROVE  /\ LiveStore(i) /\ mem_sb'[i].ins = mem_sb[i].ins
               /\ ~Retired(i, x) /\ P(i) = Pos(i) - NRetired(x)
               /\ \A j \in TransId : LiveStore(j) /\ Pos(j) < Pos(i) /\ ~Retired(j, x) =>
                    LS(j) /\ P(j) < P(i)
    <2>1. DoneStore(mem_sb'[i]) /\ Live(i)'
      BY <1>9 DEF LiveStore, DoneStore
    <2>2. /\ LiveStore(i) /\ mem_sb'[i].ins = mem_sb[i].ins
          /\ ~Retired(i, x) /\ Pos(i)' = Pos(i) - NRetired(x)
          /\ \A j \in TransId : LiveStore(j) /\ Pos(j) < Pos(i) /\ ~Retired(j, x) =>
               /\ DoneStore(mem_sb'[j]) /\ Live(j)' /\ mem_sb'[j].ins = mem_sb[j].ins
               /\ Pos(j)' < Pos(i)'
      BY <2>1, LiveInTrap
    <2> QED BY <2>2 DEF LiveStore, DoneStore
  <1>10. st_trans_id_q \in TransId
    BY WorkType
  <1> HIDE DEF c, v, LS, P
  <1> DEFINE nid == [k \in 1 .. cnt' |-> IF k + c <= cnt THEN id[k + c] ELSE st_trans_id_q]
  <1>11. ASSUME NEW k \in 1 .. cnt'
         PROVE  /\ k + c <= cnt => k + c \in 1 .. cnt /\ nid[k] = id[k + c]
                /\ ~(k + c <= cnt) => v = 1 /\ nid[k] = st_trans_id_q
                /\ nid[k] \in TransId
    <2>1. ~(k + c <= cnt) => v = 1
      BY <1>1, <1>2
    <2>2. k + c <= cnt => k + c \in 1 .. cnt
      BY <1>1, <1>2
    <2>3. nid[k] = IF k + c <= cnt THEN id[k + c] ELSE st_trans_id_q
      OBVIOUS
    <2> HIDE DEF nid
    <2> QED BY <1>3, <1>10, <2>1, <2>2, <2>3
  <1>12. PICK f \in [1 .. cnt' -> TransId] : f = nid
    <2>1. nid \in [1 .. cnt' -> TransId]
      BY <1>11
    <2> QED BY <2>1
  <1> HIDE DEF nid
  <1>13. ASSUME NEW k \in 1 .. cnt', LS(f[k])
         PROVE  /\ k + c \in 1 .. cnt /\ k + c <= cnt /\ f[k] = id[k + c] /\ LiveStore(f[k])
                /\ mem_sb'[f[k]].ins = mem_sb[f[k]].ins
    <2>1. f[k] \in TransId
      OBVIOUS
    <2>2. LiveStore(f[k]) /\ mem_sb'[f[k]].ins = mem_sb[f[k]].ins
      BY <1>9, <1>13, <2>1
    <2>3. ~(v = 1 /\ f[k] = st_trans_id_q)
      BY <1>4, <2>2 DEF LiveStore, Live
    <2> QED BY <1>11, <1>12, <2>2, <2>3
  <1>14. ASSUME NEW i \in TransId, LS(i) PROVE \E k \in 1 .. cnt' : f[k] = i
    <2>1. LiveStore(i) /\ ~Retired(i, x)
      BY <1>9, <1>14
    <2>2. PICK l \in 1 .. cnt : id[l] = i
      BY <1>3, <2>1 DEF Leads
    <2>3. c = 1 => l # 1
      BY <1>6, <1>7, <2>1, <2>2
    <2>4. l - c \in 1 .. cnt' /\ l - c + c = l /\ l - c + c <= cnt
      BY <1>1, <1>2, <2>2, <2>3
    <2>5. f[l - c] = id[l]
      BY <1>11, <1>12, <2>4
    <2> QED BY <2>2, <2>4, <2>5
  <1>15. ASSUME NEW k \in 1 .. cnt', NEW l \in 1 .. cnt', k < l, LS(f[l])
         PROVE  LS(f[k]) /\ P(f[k]) < P(f[l])
    <2>1. /\ l + c \in 1 .. cnt /\ l + c <= cnt /\ f[l] = id[l + c] /\ LiveStore(f[l])
      BY <1>13, <1>15
    <2>2. k \in Int /\ l \in Int /\ c \in Int /\ cnt \in Int
      BY <1>1, <1>2
    <2>3. k + c <= cnt /\ k + c < l + c
      BY <1>15, <2>1, <2>2
    <2>4. k + c \in 1 .. cnt /\ f[k] = id[k + c]
      BY <1>11, <1>12, <2>3
    <2>5. LiveStore(f[k]) /\ Pos(f[k]) < Pos(f[l])
      BY <1>3, <2>1, <2>3, <2>4 DEF Leads
    <2>6. f[k] \in TransId /\ f[l] \in TransId
      OBVIOUS
    <2>7. ~Retired(f[k], x)
      <3> SUFFICES ASSUME Retired(f[k], x) PROVE FALSE
        OBVIOUS
      <3>1. c = 1 /\ f[k] = commit_pointer_q
        BY <1>8, <2>5, <2>6
      <3>2. 1 \in 1 .. cnt /\ id[1] = commit_pointer_q /\ 1 < k + c
        BY <1>7, <2>2, <3>1
      <3>3. Pos(id[1]) < Pos(id[k + c])
        BY <1>3, <2>4, <2>5, <3>2 DEF Leads
      <3> QED BY <1>5, <2>4, <2>6, <3>1, <3>2, <3>3
    <2> QED BY <1>9, <1>15, <2>5, <2>6, <2>7
  <1>16. ASSUME NEW k \in 1 .. cnt', LS(f[k])
         PROVE  SpecContents'[k] = mem_sb'[f[k]].ins.req
    <2>1. /\ k + c \in 1 .. cnt /\ k + c <= cnt /\ f[k] = id[k + c] /\ LiveStore(f[k])
          /\ mem_sb'[f[k]].ins = mem_sb[f[k]].ins
      BY <1>13, <1>16
    <2>2. SpecContents[k + c] = mem_sb[f[k]].ins.req
      BY <1>3, <2>1 DEF Leads
    <2>3. SpecContents'[k] = SpecContents[k + c]
      BY <1>2, <2>1
    <2> QED BY <2>1, <2>2, <2>3
  <1>17. /\ f \in [1 .. cnt' -> TransId]
         /\ \A i \in TransId : LS(i) => \E k \in 1 .. cnt' : f[k] = i
         /\ \A k, l \in 1 .. cnt' : k < l /\ LS(f[l]) => LS(f[k]) /\ P(f[k]) < P(f[l])
         /\ \A k \in 1 .. cnt' : LS(f[k]) => SpecContents'[k] = mem_sb'[f[k]].ins.req
    BY <1>14, <1>15, <1>16
  <1>18. DOMAIN SpecContents' = 1 .. cnt'
    BY <1>2
  <1>19. /\ f \in [DOMAIN SpecContents' -> TransId]
         /\ \A i \in TransId : LS(i) => \E k \in DOMAIN SpecContents' : f[k] = i
         /\ \A k, l \in DOMAIN SpecContents' : k < l /\ LS(f[l]) => LS(f[k]) /\ P(f[k]) < P(f[l])
         /\ \A k \in DOMAIN SpecContents' : LS(f[k]) => SpecContents'[k] = mem_sb'[f[k]].ins.req
    BY <1>17, <1>18
  <1>20. \E g \in [DOMAIN SpecContents' -> TransId] :
            /\ \A i \in TransId : LS(i) => \E k \in DOMAIN SpecContents' : g[k] = i
            /\ \A k, l \in DOMAIN SpecContents' : k < l /\ LS(g[l]) => LS(g[k]) /\ P(g[k]) < P(g[l])
            /\ \A k \in DOMAIN SpecContents' : LS(g[k]) => SpecContents'[k] = mem_sb'[g[k]].ins.req
    BY <1>19, Zenon
  <1> QED BY <1>20, Zenon DEF QueueDoomed, SpecContents, LS, P

LEMMA TrapStep ==
    ASSUME CoreTypes, Trapping, ~SingleStep, IInv, MmuOK',
           NEW ins \in Instr \cup {NoInstr}, NEW x, Inputs(x), Steps(ins, x), ~flush(x.amo_ack)
    PROVE  Trapping'
  <1>1. /\ ScoreboardRing /\ DoneDoomed /\ Doomed /\ FifoDoomed /\ PortOK /\ ld_state_q # "WAIT_FLUSH"
        /\ LSUStep(x)
    BY DEF Trapping, Steps
  <1>2. ScoreboardRing'
    BY <1>1, RingStep
  <1>3. Doomed'
    BY <1>1, DoomedStep
  <1>4. PortOK' /\ FifoDoomed'
    BY <1>1, PortInTrap, RequestsInTrap
  <1>5. ld_state_q' # "WAIT_FLUSH"
    BY <1>1, LoadTrapStep
  <1>6. StoresDoomed' /\ ReadsDoomed'
    BY StoresInTrap, ReadsInTrap
  <1>7. ReturnsDoomed' /\ DoneDoomed'
    BY ReturnsInTrap, DoneInTrap
  <1>8. FoundDoomed' /\ AmoDoomed' /\ QueueDoomed'
    BY FoundInTrap, AmoInTrap, QueueInTrap
  <1> QED BY <1>2, <1>3, <1>4, <1>5, <1>6, <1>7, <1>8 DEF Trapping

-----------------------------------------------------------------------------
(* The inductive invariant of the pipeline *)

\* In every state the units work in program order, or an exception is on its
\* way to the commit stage.
PipelineInv ==
    /\ CoreTypes /\ IInv /\ CommittedStoresReachMemory /\ MmuOK
    /\ Running \/ Trapping

\* An exception that reaches a unit changes the mode in the same cycle.
LEMMA PipelineMode ==
    ASSUME PipelineInv
    PROVE  /\ (Running /\ Calm) \/ Trapping
           /\ ScoreboardRing /\ PortOK /\ HeadOK
  <1>1. (Running /\ Calm) \/ Trapping
    BY TrapComes DEF PipelineInv
  <1>2. ScoreboardRing /\ PortOK
    BY <1>1 DEF Running, Trapping, LoadUnitOK
  <1>3. HeadOK
    BY <1>1, HeadRunning, HeadTrapping DEF PipelineInv, Running, Trapping
  <1> QED BY <1>1, <1>2, <1>3

LEMMA PipelineInit ==
    ASSUME Init
    PROVE  PipelineInv
  <1>1. CoreTypes
    BY TypesInit
  <1>2. IInv
    BY InitOK DEF Init, LSUInit
  <1>3. /\ mem_sb = [i \in TransId |-> EmptyEntry] /\ issue_cnt_q = 0 /\ issue_pointer_q = 0
        /\ commit_pointer_q = 0 /\ issue_q = NoRequest /\ arch = mem
        /\ mem = [a \in Addr |-> zero.data]
        /\ status_cnt_q = 0 /\ read_pointer_q = 0 /\ write_pointer_q = 0
        /\ mem_q = [i \in 0..1 |-> NoRequest]
        /\ state_q = "IDLE" /\ ld_state_q = "IDLE" /\ dc_state_q = "IDLE"
        /\ lsu_q = [req |-> FALSE, addr |-> [page |-> zero.page, off |-> zero.off],
                    misaligned |-> FALSE, hit |-> FALSE]
        /\ load_pipe_q = NoResult
        /\ speculative_status_cnt_q = 0 /\ commit_status_cnt_q = 0
        /\ ptw_state_q = "IDLE"
    BY DEF Init, LSUInit, SUInit, SBInit, LU!LUInit, DC!DCInit, LB!LBInit, PTW!WInit
  <1>4. MmuOK /\ RequestOK /\ ~Aborts /\ dtlb = {}
    <2>1. ~lsu_q.misaligned /\ ~lsu_q.req
      BY <1>3
    <2>2. dtlb = {} /\ \A k \in SpecIndex : ~speculative_queue_q[k].valid
      BY DEF Init, LSUInit, SUInit, SBInit, ResetEntry, PTW!WInit
    <2> QED BY <1>3, <2>1, <2>2 DEF MmuOK, RequestOK, Stores, Aborts, PTW!data_error
  <1>5. /\ ~Front.valid /\ ~HasSecond /\ ~Stores /\ ~Reads /\ ~Returns
        /\ issue_q.op \notin FlushOp
    BY <1>3 DEF Front, HasSecond, Stores, Reads, Returns, NoRequest, NoResult, FlushOp
  <1>6. \A i \in TransId : mem_sb[i] = EmptyEntry
    BY <1>3
  <1>7. ScoreboardRing
    <2>1. \A i \in TransId : ~(Pos(i) < 0)
      BY <1>3, LSUAssumption DEF Pos, Wrap, TransId
    <2>2. 0 = Wrap(0 + 0, NR_SB_ENTRIES)
      BY LSUAssumption DEF Wrap
    <2> QED BY <1>3, <1>6, <2>1, <2>2, EmptyEntryFields DEF ScoreboardRing
  <1>8. FifoOK
    BY <1>3 DEF FifoOK, NoRequest
  <1>9. OwnWork /\ InOrder
    BY <1>5 DEF OwnWork, InOrder
  <1>10. DoneInOrder /\ AmoOK /\ AllFound
    BY <1>6, EmptyEntryFields DEF DoneInOrder, AmoOK, AllFound, DoneStore, DoneAmo, Waits
  <1>11. LoadUnitOK
    BY <1>3, <1>4 DEF LoadUnitOK, PortOK, Limbo, Aborts
  <1>12. LoadsClear /\ NoTrapYet
    <2>1. ~WillTrap(NoInstr)
      BY DEF WillTrap, NoInstr, is_lsu
    <2> QED BY <1>3, <1>5, <1>6, <2>1, EmptyEntryFields DEF LoadsClear, NoTrapYet
  <1>13. SpecContents = <<>> /\ CommitContents = <<>>
    BY <1>3 DEF SpecContents, CommitContents, RingContents
  <1>14. SpeculativeQueueFollowsProgram
    <2> DEFINE done == {i \in TransId : DoneStore(mem_sb[i])}
    <2>1. done = {}
      BY <1>6, EmptyEntryFields DEF DoneStore
    <2>2. DOMAIN SpecContents = {}
      BY <1>13
    <2>3. [k \in {} |-> k] \in [{} -> {}]
      OBVIOUS
    <2> HIDE DEF done
    <2>4. \E g \in [DOMAIN SpecContents -> done] :
            /\ \A i \in done : \E k \in DOMAIN SpecContents : g[k] = i
            /\ \A k, l \in DOMAIN SpecContents : k < l => g[k] \in Older(g[l])
            /\ \A k \in DOMAIN SpecContents : SpecContents[k] = mem_sb[g[k]].ins.req
      BY <2>1, <2>2, <2>3
    <2> QED BY <2>4, Zenon DEF SpeculativeQueueFollowsProgram, SpecContents, done
  <1>15. CommittedStoresReachMemory
    <2>1. PICK e \in Seq(Store) : e = <<>>
      <3>1. <<>> \in Seq(Store)
        OBVIOUS
      <3> QED BY <3>1
    <2>2. \A a : Youngest(<<>>, a, mem[a]) = mem[a]
      <3>1. \A l \in 1 .. Len(e) : FALSE
        BY <2>1
      <3> QED BY <2>1, <3>1, YoungestNone
    <2>3. arch = [a \in Addr |-> Youngest(<<>>, a, mem[a])]
      BY <1>3, <2>2
    <2> QED BY <1>13, <2>3 DEF CommittedStoresReachMemory, CommitContents
  <1>16. Running
    BY <1>4, <1>7, <1>8, <1>9, <1>10, <1>11, <1>12, <1>14 DEF Running
  <1> QED BY <1>1, <1>2, <1>4, <1>15, <1>16 DEF PipelineInv

LEMMA RunStep ==
    ASSUME CoreTypes, Running, Calm, ~SingleStep, IInv, MmuOK, HeadOK, CoreTypes', MmuOK',
           NEW ins \in Instr \cup {NoInstr}, NEW x, Inputs(x), Steps(ins, x), ~flush(x.amo_ack)
    PROVE  Running'
  <1> USE DEF Running
  <1>1. ScoreboardRing'
    BY RingStep
  <1>2. FifoOK'
    BY FrontStep
  <1>3. OwnWork'
    BY OwnWorkStep
  <1>4. InOrder'
    BY InOrderStep
  <1>5. DoneInOrder'
    BY DoneInOrderStep
  <1>6. LoadUnitOK'
    BY LoadUnitOKStep
  <1>7. AmoOK'
    BY AmoStep DEF IInv
  <1>8. SpeculativeQueueFollowsProgram'
    BY SpecQueueStep
  <1>9. AllFound'
    BY AllFoundStep
  <1>10. LoadsClear'
    BY LoadsClearStep
  <1>11. RequestOK'
    BY RequestStep
  <1>12. NoTrapYet'
    BY NoTrapStep
  <1> QED BY <1>1, <1>2, <1>3, <1>4, <1>5, <1>6, <1>7, <1>8, <1>9, <1>10, <1>11, <1>12

LEMMA PipelineCycle ==
    ASSUME ~SingleStep, PipelineInv,
           NEW ins \in Instr \cup {NoInstr}, NEW x, Inputs(x), Steps(ins, x)
    PROVE  PipelineInv'
  <1>0. /\ CoreTypes /\ IInv /\ CommittedStoresReachMemory /\ MmuOK /\ LSUStep(x)
        /\ (Running /\ Calm) \/ Trapping
        /\ ScoreboardRing /\ PortOK /\ HeadOK
    BY PipelineMode DEF PipelineInv, Steps
  <1>1. CoreTypes'
    BY <1>0, LsuTypeStep, WalkTypeStep, SbTypeStep DEF CoreTypes
  <1>2. MmuOK'
    BY <1>0, MmuStep
  <1>3. IInv'
    BY <1>0, StoreUnitKept
  <1>4. CommittedStoresReachMemory'
    BY <1>0, MemoryStep
  <1>5. CASE flush(x.amo_ack)
    <2>1. /\ ScoreboardRing' /\ FifoOK' /\ OwnWork' /\ InOrder' /\ DoneInOrder'
          /\ LoadUnitOK' /\ AmoOK' /\ AllFound' /\ LoadsClear' /\ RequestOK' /\ NoTrapYet'
      BY <1>0, <1>5, FlushKeeps
    <2>2. SpeculativeQueueFollowsProgram'
      BY <1>0, <1>5, SpecQueueFlush
    <2>3. Running'
      BY <2>1, <2>2 DEF Running
    <2> QED BY <1>1, <1>2, <1>3, <1>4, <2>3 DEF PipelineInv
  <1>6. CASE ~flush(x.amo_ack) /\ Running /\ Calm
    <2>1. Running'
      BY <1>0, <1>1, <1>2, <1>6, RunStep
    <2> QED BY <1>1, <1>2, <1>3, <1>4, <2>1 DEF PipelineInv
  <1>7. CASE ~flush(x.amo_ack) /\ Trapping
    <2>1. Trapping'
      BY <1>0, <1>2, <1>7, TrapStep
    <2> QED BY <1>1, <1>2, <1>3, <1>4, <2>1 DEF PipelineInv
  <1> QED BY <1>0, <1>5, <1>6, <1>7

\* Every register keeps its value.
LEMMA StutterFacts ==
    ASSUME UNCHANGED coreVars
    PROVE  /\ UNCHANGED <<st_trans_id_q, lsu_q, load_pipe_q, mem, arch>>
           /\ UNCHANGED <<ld_state_q, load_data_q, dc_state_q, address_tag_q, address_idx_q>>
           /\ UNCHANGED <<mem_q, read_pointer_q, write_pointer_q, status_cnt_q>>
           /\ UNCHANGED <<ptw_state_q, ptw_lvl_q, ptw_page_q, is_instr_ptw_q, dtlb>>
           /\ UNCHANGED <<mem_sb, issue_cnt_q, issue_pointer_q, commit_pointer_q, issue_q>>
           /\ UNCHANGED <<state_q, st_q, amo_valid, amo_data, speculative_queue_q,
                          speculative_status_cnt_q, speculative_read_pointer_q,
                          speculative_write_pointer_q, commit_queue_q, commit_status_cnt_q,
                          commit_read_pointer_q, commit_write_pointer_q>>
           /\ Front' = Front /\ Second' = Second /\ HasSecond' = HasSecond
           /\ Stores' = Stores /\ Reads' = Reads /\ Returns' = Returns /\ Aborts' = Aborts
           /\ mmu_exception' = mmu_exception /\ Limbo' = Limbo
           /\ \A i \in TransId : /\ Pos(i)' = Pos(i) /\ (Sound(i)' <=> Sound(i))
                                 /\ (Clear(i)' <=> Clear(i)) /\ (Live(i)' <=> Live(i))
  <1>1. UNCHANGED <<vars, st_trans_id_q, LU!vars, DC!vars, LB!vars, PTW!vars, lsu_q,
                    load_pipe_q, sbVarsCore, mem, arch>>
    BY DEF coreVars, lsuVars
  <1>2. /\ UNCHANGED <<sbVars, suVars, st_trans_id_q, lsu_q, load_pipe_q, mem, arch>>
        /\ UNCHANGED <<ld_state_q, load_data_q, dc_state_q, address_tag_q, address_idx_q>>
        /\ UNCHANGED <<mem_q, read_pointer_q, write_pointer_q, status_cnt_q>>
        /\ UNCHANGED <<ptw_state_q, ptw_lvl_q, ptw_page_q, is_instr_ptw_q, dtlb>>
        /\ UNCHANGED <<mem_sb, issue_cnt_q, issue_pointer_q, commit_pointer_q, issue_q>>
    BY <1>1 DEF vars, LU!vars, DC!vars, LB!vars, PTW!vars, sbVarsCore
  <1>3. UNCHANGED <<state_q, st_q, amo_valid, amo_data, speculative_queue_q,
                    speculative_status_cnt_q, speculative_read_pointer_q,
                    speculative_write_pointer_q, commit_queue_q, commit_status_cnt_q,
                    commit_read_pointer_q, commit_write_pointer_q>>
    BY <1>2 DEF sbVars, suVars, specVars, commitVars
  <1>4. /\ Front' = Front /\ Second' = Second /\ HasSecond' = HasSecond
        /\ Stores' = Stores /\ Reads' = Reads /\ Returns' = Returns /\ Aborts' = Aborts
        /\ Limbo' = Limbo
    BY <1>2, <1>3 DEF Front, Second, HasSecond, Stores, Reads, Returns, Aborts, Limbo
  <1>5. mmu_exception' = mmu_exception
    BY <1>2 DEF mmu_exception, PTW!data_error
  <1>6. ASSUME NEW i \in TransId
        PROVE  /\ Pos(i)' = Pos(i) /\ (Sound(i)' <=> Sound(i))
               /\ (Clear(i)' <=> Clear(i)) /\ (Live(i)' <=> Live(i))
    <2>1. \A k \in TransId : Pos(k)' = Pos(k)
      BY <1>2 DEF Pos
    <2>2. Sound(i)' <=> Sound(i)
      BY <1>2, <2>1 DEF Sound
    <2>3. Clear(i)' <=> Clear(i)
      BY <1>2, <1>3, <2>1 DEF Clear
    <2>4. Live(i)' <=> Live(i)
      BY <1>2, <2>1, <2>2 DEF Live
    <2> QED BY <2>1, <2>2, <2>3, <2>4
  <1> QED BY <1>2, <1>3, <1>4, <1>5, <1>6

LEMMA SpecQueueStutter ==
    ASSUME UNCHANGED coreVars, SpeculativeQueueFollowsProgram
    PROVE  SpeculativeQueueFollowsProgram'
  <1>1. /\ UNCHANGED <<mem_sb, commit_pointer_q, speculative_queue_q,
                       speculative_status_cnt_q, speculative_read_pointer_q>>
    BY StutterFacts
  <1>2. SpecContents' = SpecContents
    BY <1>1 DEF SpecContents, RingContents
  <1>3. PICK g \in [DOMAIN SpecContents -> {i \in TransId : DoneStore(mem_sb[i])}] :
          /\ \A i \in {i \in TransId : DoneStore(mem_sb[i])} : \E k \in DOMAIN SpecContents : g[k] = i
          /\ \A k, l \in DOMAIN SpecContents : k < l => g[k] \in Older(g[l])
          /\ \A k \in DOMAIN SpecContents : SpecContents[k] = mem_sb[g[k]].ins.req
    BY Zenon DEF SpeculativeQueueFollowsProgram, SpecContents
  <1>4. \A k, l \in DOMAIN SpecContents' : k < l => g[k] \in Older(g[l])'
    BY <1>2, <1>1, <1>3 DEF Older
  <1>5. /\ g \in [DOMAIN SpecContents' -> {i \in TransId : DoneStore(mem_sb'[i])}]
        /\ \A i \in {i \in TransId : DoneStore(mem_sb'[i])} : \E k \in DOMAIN SpecContents' : g[k] = i
        /\ \A k, l \in DOMAIN SpecContents' : k < l => g[k] \in Older(g[l])'
        /\ \A k \in DOMAIN SpecContents' : SpecContents'[k] = mem_sb'[g[k]].ins.req
    BY <1>2, <1>1, <1>3, <1>4
  <1>6. \E h \in [DOMAIN SpecContents' -> {i \in TransId : DoneStore(mem_sb'[i])}] :
          /\ \A i \in {i \in TransId : DoneStore(mem_sb'[i])} : \E k \in DOMAIN SpecContents' : h[k] = i
          /\ \A k, l \in DOMAIN SpecContents' : k < l => h[k] \in Older(h[l])'
          /\ \A k \in DOMAIN SpecContents' : SpecContents'[k] = mem_sb'[h[k]].ins.req
    BY <1>5, Zenon
  <1> QED BY <1>6, Zenon DEF SpeculativeQueueFollowsProgram, SpecContents

LEMMA LeadStutter ==
    ASSUME UNCHANGED coreVars, QueueDoomed
    PROVE  QueueDoomed'
  <1> DEFINE LS(i) == LiveStore(i)'
             P(i) == Pos(i)'
  <1>1. /\ UNCHANGED <<mem_sb, commit_pointer_q, speculative_queue_q,
                       speculative_status_cnt_q, speculative_read_pointer_q>>
        /\ \A i \in TransId : P(i) = Pos(i) /\ (LS(i) <=> LiveStore(i))
    BY StutterFacts DEF LiveStore
  <1>2. SpecContents' = SpecContents
    BY <1>1 DEF SpecContents, RingContents
  <1>3. PICK g \in [DOMAIN SpecContents -> TransId] :
          /\ \A i \in TransId : LiveStore(i) => \E k \in DOMAIN SpecContents : g[k] = i
          /\ \A k, l \in DOMAIN SpecContents : k < l /\ LiveStore(g[l])
               => LiveStore(g[k]) /\ Pos(g[k]) < Pos(g[l])
          /\ \A k \in DOMAIN SpecContents : LiveStore(g[k]) => SpecContents[k] = mem_sb[g[k]].ins.req
    BY Zenon DEF QueueDoomed, SpecContents
  <1> HIDE DEF LS, P
  <1>4. /\ g \in [DOMAIN SpecContents' -> TransId]
        /\ \A i \in TransId : LS(i) => \E k \in DOMAIN SpecContents' : g[k] = i
        /\ \A k, l \in DOMAIN SpecContents' : k < l /\ LS(g[l]) => LS(g[k]) /\ P(g[k]) < P(g[l])
        /\ \A k \in DOMAIN SpecContents' : LS(g[k]) => SpecContents'[k] = mem_sb'[g[k]].ins.req
    BY <1>1, <1>2, <1>3
  <1>5. \E h \in [DOMAIN SpecContents' -> TransId] :
          /\ \A i \in TransId : LS(i) => \E k \in DOMAIN SpecContents' : h[k] = i
          /\ \A k, l \in DOMAIN SpecContents' : k < l /\ LS(h[l]) => LS(h[k]) /\ P(h[k]) < P(h[l])
          /\ \A k \in DOMAIN SpecContents' : LS(h[k]) => SpecContents'[k] = mem_sb'[h[k]].ins.req
    BY <1>4, Zenon
  <1> QED BY <1>5, Zenon DEF QueueDoomed, SpecContents, LS, P

LEMMA RunStutter ==
    ASSUME UNCHANGED coreVars, Running
    PROVE  Running'
  <1> USE DEF Running
  <1>1. /\ UNCHANGED <<st_trans_id_q, lsu_q, load_pipe_q, mem, arch>>
        /\ UNCHANGED <<ld_state_q, load_data_q, dc_state_q, address_tag_q, address_idx_q>>
        /\ UNCHANGED <<mem_q, read_pointer_q, write_pointer_q, status_cnt_q>>
        /\ UNCHANGED <<ptw_state_q, ptw_lvl_q, ptw_page_q, is_instr_ptw_q, dtlb>>
        /\ UNCHANGED <<mem_sb, issue_cnt_q, issue_pointer_q, commit_pointer_q, issue_q>>
        /\ UNCHANGED <<state_q, st_q, amo_valid, amo_data, speculative_queue_q,
                       speculative_status_cnt_q, speculative_read_pointer_q,
                       speculative_write_pointer_q, commit_queue_q, commit_status_cnt_q,
                       commit_read_pointer_q, commit_write_pointer_q>>
    BY StutterFacts
  <1>2. /\ Front' = Front /\ Second' = Second /\ HasSecond' = HasSecond
        /\ Stores' = Stores /\ Reads' = Reads /\ Returns' = Returns /\ Aborts' = Aborts
        /\ Limbo' = Limbo
        /\ \A i \in TransId : Pos(i)' = Pos(i) /\ (Clear(i)' <=> Clear(i))
    BY StutterFacts
  <1>3. ScoreboardRing' /\ FifoOK'
    BY <1>1 DEF ScoreboardRing, FifoOK, Pos
  <1>4. OwnWork'
    BY <1>1, <1>2 DEF OwnWork, WaitsFor, Waits, OwnRequest
  <1>5. InOrder' /\ DoneInOrder'
    BY <1>1, <1>2 DEF InOrder, DoneInOrder, Pos, DoneStore
  <1>6. LoadUnitOK' /\ AmoOK'
    BY <1>1, <1>2 DEF LoadUnitOK, PortOK, AmoOK, DoneAmo
  <1>7. AllFound'
    BY <1>1, <1>2 DEF AllFound, Waits
  <1>8. LoadsClear'
    BY <1>1, <1>2 DEF LoadsClear, Clear, Pos
  <1>9. RequestOK'
    BY <1>1, <1>2 DEF RequestOK, Asked
  <1>10. NoTrapYet'
    BY <1>1, <1>2 DEF NoTrapYet, WillTrap
  <1>11. SpeculativeQueueFollowsProgram'
    BY SpecQueueStutter
  <1> QED BY <1>3, <1>4, <1>5, <1>6, <1>7, <1>8, <1>9, <1>10, <1>11

LEMMA TrapStutter ==
    ASSUME CoreTypes, UNCHANGED coreVars, Trapping
    PROVE  Trapping'
  <1> USE DEF Trapping
  <1>1. /\ UNCHANGED <<st_trans_id_q, lsu_q, load_pipe_q, mem, arch>>
        /\ UNCHANGED <<ld_state_q, load_data_q, dc_state_q, address_tag_q, address_idx_q>>
        /\ UNCHANGED <<mem_q, read_pointer_q, write_pointer_q, status_cnt_q>>
        /\ UNCHANGED <<ptw_state_q, ptw_lvl_q, ptw_page_q, is_instr_ptw_q, dtlb>>
        /\ UNCHANGED <<mem_sb, issue_cnt_q, issue_pointer_q, commit_pointer_q, issue_q>>
        /\ UNCHANGED <<state_q, st_q, amo_valid, amo_data, speculative_queue_q,
                       speculative_status_cnt_q, speculative_read_pointer_q,
                       speculative_write_pointer_q, commit_queue_q, commit_status_cnt_q,
                       commit_read_pointer_q, commit_write_pointer_q>>
    BY StutterFacts
  <1>2. /\ Front' = Front /\ Stores' = Stores /\ Reads' = Reads /\ Returns' = Returns
        /\ Aborts' = Aborts /\ mmu_exception' = mmu_exception
    BY StutterFacts
  <1>3. \A i \in TransId : /\ Pos(i)' = Pos(i) /\ (Sound(i)' <=> Sound(i))
                            /\ (Clear(i)' <=> Clear(i))
    BY StutterFacts
  <1>4. ScoreboardRing' /\ FifoDoomed'
    BY <1>1 DEF ScoreboardRing, FifoDoomed, Pos
  <1>5. PortOK'
    BY <1>1, <1>2 DEF PortOK
  <1>6. Doomed'
    BY <1>1 DEF Doomed, OwnRequest, Sound, Pos
  <1>7. StoresDoomed'
    BY <1>1, <1>2 DEF StoresDoomed, Sound, Pos
  <1>8. ReadsDoomed'
    BY <1>1, <1>2 DEF ReadsDoomed, Sound, Clear, Pos
  <1>9. ReturnsDoomed'
    BY <1>1, <1>2 DEF ReturnsDoomed, Delivers, Sound, Clear, Pos
  <1>10. DoneDoomed'
    BY <1>1, <1>3 DEF DoneDoomed, Delivers
  <1>11. FoundDoomed'
    BY <1>1, <1>2, <1>3 DEF FoundDoomed, Waits
  <1>12. AmoDoomed'
    BY <1>1, <1>3 DEF AmoDoomed, SoundAmo
  <1>13. QueueDoomed'
    BY LeadStutter
  <1> QED BY <1>1, <1>4, <1>5, <1>6, <1>7, <1>8, <1>9, <1>10, <1>11, <1>12, <1>13

LEMMA PipelineStep ==
    ASSUME ~SingleStep, PipelineInv, [Next]_coreVars
    PROVE  PipelineInv'
  <1>1. CASE UNCHANGED coreVars
    <2>1. CoreTypes'
      BY TypesStep DEF PipelineInv
    <2>2. IInv'
      <3>1. UNCHANGED vars
        BY <1>1 DEF coreVars, lsuVars
      <3> QED BY <3>1, Inductive DEF PipelineInv
    <2>3. CommittedStoresReachMemory'
      <3>1. UNCHANGED <<arch, mem, commit_queue_q, commit_status_cnt_q, commit_read_pointer_q>>
        BY <1>1, StutterFacts
      <3> QED BY <3>1 DEF PipelineInv, CommittedStoresReachMemory, RingContents, Youngest
    <2>4. MmuOK'
      BY <1>1, StutterFacts DEF PipelineInv, MmuOK, PTW!data_error
    <2>5. Running' \/ Trapping'
      BY <1>1, RunStutter, TrapStutter DEF PipelineInv
    <2> QED BY <2>1, <2>2, <2>3, <2>4, <2>5 DEF PipelineInv
  <1>2. CASE Next
    <2>1. PICK ins \in Instr \cup {NoInstr} : \E x : Inputs(x) /\ Steps(ins, x)
      BY <1>2, NextIsCycle
    <2>2. PICK x : Inputs(x) /\ Steps(ins, x)
      BY <2>1
    <2> QED BY <2>2, PipelineCycle
  <1> QED BY <1>1, <1>2

-----------------------------------------------------------------------------
(* The theorems *)

\* A load with its result has read what memory holds, if no older access, nor
\* itself, must trap.
LEMMA LoadHasValue ==
    ASSUME PipelineInv, NEW i \in TransId, mem_sb[i].valid, ~mem_sb[i].ex,
           mem_sb[i].ins.op = "load", \A j \in Older(i) : ~WillTrap(mem_sb[j].ins)
    PROVE  Clear(i) /\ mem_sb[i].result = mem[AddrOf(mem_sb[i].ins.req)]
  <1>1. CASE Running
    BY <1>1 DEF Running, LoadsClear
  <1>2. CASE Trapping
    <2>1. ~WillTrap(mem_sb[i].ins)
      BY <1>2 DEF Trapping, DoneDoomed
    <2>2. Sound(i)
      <3>1. ASSUME NEW j \in TransId, Pos(j) <= Pos(i) PROVE j = i \/ j \in Older(i)
        <4>1. CoreTypes
          BY DEF PipelineInv
        <4>2. Pos(j) \in Int /\ Pos(i) \in Int
          BY <4>1, PosFacts
        <4>3. Pos(j) < Pos(i) \/ Pos(j) = Pos(i)
          BY <3>1, <4>2
        <4> QED BY <4>1, <4>3, OlderPos, PosFacts
      <3> QED BY <2>1, <3>1 DEF Sound
    <2> QED BY <1>2, <2>2 DEF Trapping, DoneDoomed, Delivers
  <1> QED BY <1>1, <1>2 DEF PipelineInv

\* Older stores are in the queue or retired, so they are in the commit queue
\* or in memory, at other offsets than the load.
LEMMA LoadsFollowStores ==
    ASSUME PipelineInv
    PROVE  LoadsSeeOlderStores
  <1>0. CoreTypes /\ IInv /\ CommittedStoresReachMemory /\ ScoreboardRing
    BY PipelineMode DEF PipelineInv
  <1> SUFFICES ASSUME NEW i \in TransId, mem_sb[i].valid, ~mem_sb[i].ex,
                      mem_sb[i].ins.op = "load", \A j \in Older(i) : ~WillTrap(mem_sb[j].ins)
               PROVE  LET a == AddrOf(mem_sb[i].ins.req)
                      IN  /\ mem_sb[i].result = arch[a]
                          /\ \A j \in Older(i) : mem_sb[j].ins.op = "store"
                                                   => AddrOf(mem_sb[j].ins.req) # a
    BY DEF LoadsSeeOlderStores
  <1> DEFINE a == AddrOf(mem_sb[i].ins.req)
  <1>1. Clear(i) /\ mem_sb[i].result = mem[a]
    BY LoadHasValue
  <1>2. \A j \in Older(i) : mem_sb[j].ins.op = "store" => AddrOf(mem_sb[j].ins.req) # a
    <2> TAKE j \in Older(i)
    <2>1. j \in TransId
      BY DEF Older
    <2>2. Pos(j) < Pos(i)
      BY <1>0, <2>1, OlderPos
    <2> QED BY <1>1, <2>1, <2>2 DEF Clear, AddrOf
  <1>3. a \in Addr
    <2>1. mem_sb[i].issued
      BY <1>0, EmptyEntryFields DEF ScoreboardRing
    <2>2. mem_sb[i].ins \in Instr
      BY <1>0, <2>1 DEF ScoreboardRing
    <2>3. mem_sb[i].ins \in [op : Op, req : Store, misaligned : BOOLEAN]
      BY <2>2, ConstantTypes
    <2> QED BY <2>3 DEF AddrOf, Store, Addr
  <1>4. CommitContents \in Seq(Store) /\ Len(CommitContents) = commit_status_cnt_q
    BY <1>0, ContentsBounded
  <1>5. ASSUME NEW k \in 1 .. commit_status_cnt_q
        PROVE  AddrOf(CommitContents[k]) # a
    <2> DEFINE w == Wrap(commit_read_pointer_q + k - 1, DEPTH_COMMIT)
    <2>1. CommitContents[k] = commit_queue_q[w].req
      BY DEF CommitContents, RingContents
    <2>2. /\ commit_read_pointer_q \in 0 .. DEPTH_COMMIT - 1 /\ DEPTH_COMMIT \in Nat
          /\ k \in Int /\ k >= 1 /\ k <= commit_status_cnt_q
          /\ commit_status_cnt_q \in Nat /\ commit_status_cnt_q <= DEPTH_COMMIT
      BY <1>0, DepthAssumption DEF IInv, TypeOK, RingsConsistent, RingOK, CommitIndex
    <2>3. /\ w \in 0 .. DEPTH_COMMIT - 1
          /\ Wrap(w - commit_read_pointer_q, DEPTH_COMMIT) < commit_status_cnt_q
      BY <2>2 DEF Wrap
    <2>4. w \in CommitIndex /\ commit_queue_q[w].valid
      BY <1>0, <2>3 DEF IInv, RingsConsistent, RingOK, InWindow, CommitIndex
    <2> QED BY <1>1, <2>1, <2>4 DEF Clear, AddrOf
  <1>6. arch[a] = Youngest(CommitContents, a, mem[a])
    <2>1. arch = [b \in Addr |-> Youngest(CommitContents, b, mem[b])]
      BY <1>0 DEF CommittedStoresReachMemory, CommitContents
    <2> QED BY <1>3, <2>1
  <1>7. Youngest(CommitContents, a, mem[a]) = mem[a]
    <2> HIDE DEF a
    <2> QED BY <1>4, <1>5, YoungestNone
  <1> QED BY <1>1, <1>2, <1>6, <1>7

\* The order in which the LSU works keeps the places apart.
LEMMA OnePlaceRunning ==
    ASSUME CoreTypes, Running,
           NEW i \in TransId, mem_sb[i].issued, ~mem_sb[i].valid, is_lsu(mem_sb[i].ins)
    PROVE  \E pl \in Places(i) : Places(i) = {pl}
  <1> USE DEF Running
  <1> DEFINE F == Front.valid /\ Front.trans_id = i
             S == HasSecond /\ Second.trans_id = i
             St == Stores /\ st_trans_id_q = i
             R == Reads /\ load_data_q = i
             Rt == Returns /\ load_pipe_q.trans_id = i
  <1>1. F \/ S \/ St \/ R \/ Rt
    BY DEF AllFound, Waits
  <1>2. Pos(i) \in Int /\ Pos(Front.trans_id) \in Int
    BY WorkType, PosFacts
  <1>3. HasSecond => Front.valid
    BY DEF HasSecond, Front, FifoOK
  <1>4. /\ F => ~S /\ ~St /\ ~R /\ ~Rt
        /\ S => ~St /\ ~R /\ ~Rt
        /\ R => ~Rt
    BY <1>2, <1>3 DEF InOrder
  <1>5. St => ~R /\ ~Rt
    BY DEF OwnWork
  <1>6. issue_cnt_q # 0
    BY <1>2, PosFacts DEF ScoreboardRing
  <1>7. ld_state_q # "WAIT_FLUSH"
    BY <1>6 DEF LoadUnitOK
  <1>8. /\ status_cnt_q \in 0..2
        /\ issue_q.valid /\ issue_q.trans_id = i
             <=> (status_cnt_q = 0 /\ F) \/ (status_cnt_q = 1 /\ S)
        /\ (status_cnt_q > 0 /\ mem_q[read_pointer_q].valid /\ mem_q[read_pointer_q].trans_id = i)
             <=> status_cnt_q > 0 /\ F
        /\ (/\ status_cnt_q > 1 /\ mem_q[1 - read_pointer_q].valid
            /\ mem_q[1 - read_pointer_q].trans_id = i)
             <=> status_cnt_q = 2 /\ S
        /\ S => status_cnt_q \in 1..2
    BY DEF FifoOK, Front, Second, HasSecond
  <1>9. /\ (state_q = "VALID_STORE" /\ st_trans_id_q = i) <=> St
        /\ (/\ load_data_q = i
            /\ \/ dc_state_q = "READ" /\ ld_state_q = "SEND_TAG"
               \/ dc_state_q \in {"REPLAY_REQ", "REPLAY_READ", "MISS_REQ", "MISS_WAIT"}) <=> R
        /\ (load_pipe_q.valid /\ load_pipe_q.trans_id = i) <=> Rt
    BY <1>7 DEF Stores, Reads, Returns
  <1> HIDE DEF F, S, St, R, Rt
  <1>10. /\ "issue" \in Places(i) <=> (status_cnt_q = 0 /\ F) \/ (status_cnt_q = 1 /\ S)
         /\ "queue0" \in Places(i) <=> status_cnt_q > 0 /\ F
         /\ "queue1" \in Places(i) <=> status_cnt_q = 2 /\ S
         /\ "store" \in Places(i) <=> St
         /\ "cache" \in Places(i) <=> R
         /\ "result" \in Places(i) <=> Rt
    BY <1>8, <1>9 DEF Places
  <1>11. Places(i) \subseteq {"issue", "queue0", "queue1", "store", "cache", "result"}
    BY DEF Places
  <1>12. PICK P : P = Places(i)
    OBVIOUS
  <1>13. \E pl \in P : \A ql \in P : ql = pl
    BY <1>1, <1>4, <1>5, <1>8, <1>10, <1>11, <1>12
  <1>14. \E pl \in P : P = {pl}
    BY <1>13
  <1> QED BY <1>12, <1>14

\* Before the first access that must trap, the cache works for at most one load
\* and another has just been answered; nothing else is left.
LEMMA OnePlaceTrapping ==
    ASSUME CoreTypes, Trapping,
           NEW i \in TransId, mem_sb[i].issued, ~mem_sb[i].valid, is_lsu(mem_sb[i].ins), Sound(i)
    PROVE  \E pl \in Places(i) : Places(i) = {pl}
  <1> USE DEF Trapping
  <1>1. (Reads /\ load_data_q = i) \/ (Returns /\ load_pipe_q.trans_id = i)
    BY DEF FoundDoomed, Waits
  <1>2. ~((Reads /\ load_data_q = i) /\ (Returns /\ load_pipe_q.trans_id = i))
    BY DEF ReadsDoomed
  <1>3. ~(issue_q.valid /\ issue_q.trans_id = i)
    BY DEF Doomed
  <1>4. /\ ~(mem_q[read_pointer_q].valid /\ mem_q[read_pointer_q].trans_id = i)
        /\ ~(mem_q[1 - read_pointer_q].valid /\ mem_q[1 - read_pointer_q].trans_id = i)
    <2>1. read_pointer_q \in {0, 1}
      BY DEF CoreTypes, LsuTypes
    <2>2. /\ mem_q[read_pointer_q] \in {mem_q[0], mem_q[1]}
          /\ mem_q[1 - read_pointer_q] \in {mem_q[0], mem_q[1]}
      BY <2>1
    <2> QED BY <2>2 DEF Doomed
  <1>5. ~(state_q = "VALID_STORE" /\ st_trans_id_q = i)
    BY DEF StoresDoomed, Stores
  <1>6. /\ (/\ load_data_q = i
            /\ \/ dc_state_q = "READ" /\ ld_state_q = "SEND_TAG"
               \/ dc_state_q \in {"REPLAY_REQ", "REPLAY_READ", "MISS_REQ", "MISS_WAIT"})
             <=> Reads /\ load_data_q = i
        /\ (load_pipe_q.valid /\ load_pipe_q.trans_id = i) <=> Returns /\ load_pipe_q.trans_id = i
    BY DEF Reads, Returns
  <1>7. /\ "cache" \in Places(i) <=> Reads /\ load_data_q = i
        /\ "result" \in Places(i) <=> Returns /\ load_pipe_q.trans_id = i
    BY <1>6 DEF Places
  <1>8. Places(i) \subseteq {"cache", "result"}
    BY <1>3, <1>4, <1>5 DEF Places
  <1> QED BY <1>1, <1>2, <1>7, <1>8

LEMMA EverythingInOnePlace ==
    ASSUME PipelineInv
    PROVE  NothingLost
  <1>0. CoreTypes
    BY DEF PipelineInv
  <1> SUFFICES ASSUME NEW i \in TransId, mem_sb[i].issued, ~mem_sb[i].valid, is_lsu(mem_sb[i].ins),
                      \A j \in Older(i) \cup {i} : ~WillTrap(mem_sb[j].ins)
               PROVE  \E pl \in Places(i) : Places(i) = {pl}
    BY DEF NothingLost
  <1>1. Sound(i)
    <2>1. ASSUME NEW j \in TransId, Pos(j) <= Pos(i) PROVE j \in Older(i) \cup {i}
      <3>1. Pos(j) \in Int /\ Pos(i) \in Int
        BY <1>0, PosFacts
      <3>2. Pos(j) < Pos(i) \/ Pos(j) = Pos(i)
        BY <2>1, <3>1
      <3> QED BY <1>0, <3>2, OlderPos, PosFacts
    <2> QED BY <2>1 DEF Sound
  <1> QED BY <1>0, <1>1, OnePlaceRunning, OnePlaceTrapping DEF PipelineInv

\* What retires has a result without a mark.
LEMMA FaultsStay ==
    ASSUME PipelineInv
    PROVE  FaultNeverRetires
  <1>1. commit_pointer_q \in TransId /\ Next1(commit_pointer_q) \in TransId
    BY PosFacts DEF PipelineInv, CoreTypes, SbTypes
  <1>2. \A i \in TransId : WillTrap(mem_sb[i].ins) /\ mem_sb[i].valid => mem_sb[i].ex
    BY DEF PipelineInv, Running, NoTrapYet, Trapping, DoneDoomed
  <1>3. WillTrap(c0.ins) => ~commit_ack0(TRUE)
    BY <1>1, <1>2 DEF c0, commit_ack0, retires0
  <1>4. WillTrap(c1.ins) => ~commit_ack1(TRUE)
    BY <1>1, <1>2 DEF c1, commit_ack1
  <1> QED BY <1>3, <1>4 DEF FaultNeverRetires, PipelineInv, MmuOK

\* No access of the program raises an exception.
NoFaults == \A ins \in Instr : ~WillTrap(ins)

LEMMA NeverTrapping ==
    ASSUME NoFaults, PipelineInv
    PROVE  Running
  <1> SUFFICES ASSUME Trapping PROVE FALSE
    BY DEF PipelineInv
  <1>1. PICK j \in TransId : WillTrap(mem_sb[j].ins)
    BY DEF Trapping, Doomed
  <1>2. ~WillTrap(NoInstr)
    BY DEF WillTrap, NoInstr, is_lsu
  <1>3. mem_sb[j].ins \in Instr
    BY <1>1, <1>2, EmptyEntryFields DEF Trapping, ScoreboardRing
  <1> QED BY <1>1, <1>3 DEF NoFaults

\* Every cycle of the pipeline is one of the store unit on its own, under the
\* contract that StoreUnit.tla assumes.
LEMMA StoreUnitCycle ==
    ASSUME ~SingleStep, PipelineInv, [Next]_coreVars
    PROVE  [SUNext]_vars
  <1>1. CASE UNCHANGED coreVars
    BY <1>1 DEF coreVars, lsuVars
  <1>2. CASE Next
    <2>1. PICK ins \in Instr \cup {NoInstr} : \E x : Inputs(x) /\ Steps(ins, x)
      BY <1>2, NextIsCycle
    <2>2. PICK x : Inputs(x) /\ Steps(ins, x)
      BY <2>1
    <2>3. st_in(x) \in Input /\ CommitContract(st_in(x)) /\ SUStep(st_in(x))
      BY <2>2, StoreUnitKept, PipelineMode DEF PipelineInv, Steps
    <2> QED BY <2>3 DEF SUNext
  <1> QED BY <1>1, <1>2

\* The pipeline's registers stay consistent.  While no exception of an access
\* has reached a unit, the scoreboard is a ring, every unit of the LSU works on
\* an instruction of its own that waits for it, in program order, and what the
\* load unit has been told to wait for it waits for.  From then until the flush
\* the same holds of the accesses before the first that must trap, and every
\* result of one that must trap is marked.
THEOREM PipelineCorrect ==
    ASSUME ~SingleStep
    PROVE  Spec => []PipelineInv
  <1>1. Init => PipelineInv
    BY PipelineInit
  <1>2. PipelineInv /\ [Next]_coreVars => PipelineInv'
    BY PipelineStep
  <1> QED BY <1>1, <1>2, PTL DEF Spec

\* The commit stage raises commit_lsu_o only for a store that is in the
\* speculative queue, while the commit queue has room, and never with a flush:
\* what StoreUnit.tla assumes of commit_stage.sv and controller.sv.
THEOREM CommitContractKept ==
    ASSUME ~SingleStep
    PROVE  Spec => []CommitStageKeepsContract
  <1>1. PipelineInv => CommitStageKeepsContract
    BY ContractHolds, PipelineMode
  <1> QED BY <1>1, PipelineCorrect, PTL

\* commit_lsu_o names no store, yet the store that store_buffer.sv moves to the
\* commit queue is the one that retires: the speculative queue holds exactly
\* the executed stores of the scoreboard, in program order.
THEOREM StoresFollowProgram ==
    ASSUME NoFaults, ~SingleStep
    PROVE  Spec => []SpeculativeQueueFollowsProgram
  <1>1. PipelineInv => SpeculativeQueueFollowsProgram
    BY NeverTrapping DEF Running
  <1> QED BY <1>1, PipelineCorrect, PTL

\* The exception of an access comes a cycle after its request, reaches every
\* unit with a request, and may be given to another unit's instruction: still no
\* access that must trap retires, and no store that must trap enters a queue.
THEOREM FaultsNeverRetire ==
    ASSUME ~SingleStep
    PROVE  Spec => []FaultNeverRetires
  <1>1. PipelineInv => FaultNeverRetires
    BY FaultsStay
  <1> QED BY <1>1, PipelineCorrect, PTL

\* Whatever is flushed, memory and the commit queue together are what the
\* retired stores and AMOs of the program make of memory.
THEOREM CommittedStoresKept ==
    ASSUME ~SingleStep
    PROVE  Spec => []CommittedStoresReachMemory
  <1>1. PipelineInv => CommittedStoresReachMemory
    BY DEF PipelineInv
  <1> QED BY <1>1, PipelineCorrect, PTL

\* A fence waits only for the commit queue of the store buffer, which is enough:
\* with that queue empty, memory is what the retired program made of it.
THEOREM FencesWaitForStores ==
    ASSUME ~SingleStep
    PROVE  Spec => []FencesFindStoresInMemory
  <1>1. ASSUME PipelineInv PROVE FencesFindStoresInMemory
    <2>1. ASSUME no_st_pending_o PROVE mem = arch
      <3>1. CommitContents = <<>>
        <4>1. CommitContents \in Seq(Store) /\ Len(CommitContents) = 0
          BY <1>1, <2>1, ContentsBounded DEF PipelineInv, no_st_pending_o
        <4> QED BY <4>1
      <3>2. \A a \in Addr : Youngest(CommitContents, a, mem[a]) = mem[a]
        BY <3>1 DEF Youngest
      <3>3. arch = [a \in Addr |-> Youngest(CommitContents, a, mem[a])]
        BY <1>1 DEF PipelineInv, CommittedStoresReachMemory, CommitContents
      <3>4. mem \in [Addr -> Data]
        BY <1>1 DEF PipelineInv, CoreTypes, SbTypes
      <3> QED BY <3>2, <3>3, <3>4
    <2> QED BY <2>1 DEF FencesFindStoresInMemory, commit_ack0, amo_req
  <1> QED BY <1>1, PipelineCorrect, PTL

\* A load never overtakes an older store to its address: the offset check of
\* address_checker, made once before the load is sent to the cache, is enough.
THEOREM LoadsInOrder ==
    ASSUME ~SingleStep
    PROVE  Spec => []LoadsSeeOlderStores
  <1>1. PipelineInv => LoadsSeeOlderStores
    BY LoadsFollowStores
  <1> QED BY <1>1, PipelineCorrect, PTL

\* The FIFO of load_store_unit.sv signals ready one cycle late and load_unit.sv
\* keeps one transaction id; still every issued access that has no result is in
\* exactly one place.
THEOREM NothingIsLost ==
    ASSUME ~SingleStep
    PROVE  Spec => []NothingLost
  <1>1. PipelineInv => NothingLost
    BY EverythingInOnePlace
  <1> QED BY <1>1, PipelineCorrect, PTL

\* In the pipeline the store unit behaves as it does on its own.
THEOREM StoreUnitInPipeline ==
    ASSUME ~SingleStep
    PROVE  Spec => SUSpec
  <1>1. Init => SUInit
    BY DEF Init, LSUInit
  <1>2. PipelineInv /\ [Next]_coreVars => [SUNext]_vars
    BY StoreUnitCycle
  <1> QED BY <1>1, <1>2, PipelineCorrect, PTL DEF Spec, SUSpec

\* So in the pipeline, too, the store buffer implements the two queues of
\* StoreQueue.tla: retired stores reach the cache in program order, once each,
\* and a flush drops only those that have not retired.
THEOREM StoreQueueInPipeline ==
    ASSUME ~SingleStep
    PROVE  Spec => ImplementsStoreQueue
  BY StoreUnitInPipeline, Refinement, PTL
=============================================================================
