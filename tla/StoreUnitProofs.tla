-------------------------- MODULE StoreUnitProofs --------------------------
(***************************************************************************)
(* Proofs about the store unit for every depth of its queues.              *)
(***************************************************************************)
EXTENDS StoreUnit, SequenceTheorems, TLAPS

\* The inductive invariant.
IInv == TypeOK /\ RingsConsistent /\ SecondStageHasRoom

LEMMA ResetEntryType ==
    ResetEntry \in Entry /\ ResetEntry.req \in Store /\ ~ResetEntry.valid
  <1>1. PICK p \in Page, o \in Offset, d \in Data : TRUE
    BY StoreAssumption
  <1>2. [page |-> p, off |-> o, data |-> d] \in Store
    BY DEF Store
  <1>3. (CHOOSE s \in Store : TRUE) \in Store
    BY <1>2
  <1> QED BY <1>3 DEF ResetEntry, Entry

\* A wrapped pointer stays in its ring.
LEMMA WrapType ==
    ASSUME NEW n \in Nat, NEW x \in Int, -n <= x, x < 2 * n
    PROVE  Wrap(x, n) \in 0 .. n - 1
  BY DEF Wrap

\* Writing a valid entry behind the last one keeps a ring consistent.
LEMMA RingPush ==
    ASSUME NEW n \in Nat, n >= 2, NEW q \in [0 .. n - 1 -> Entry],
           NEW rd \in 0 .. n - 1, NEW wr \in 0 .. n - 1, NEW cnt \in Nat,
           RingOK(q, rd, wr, cnt, n), cnt < n,
           NEW e \in Entry, e.valid
    PROVE  RingOK([q EXCEPT ![wr] = e], rd, Wrap(wr + 1, n), cnt + 1, n)
  BY DEF RingOK, InWindow, Wrap

\* Invalidating the first entry and advancing the read pointer does, too.
LEMMA RingPop ==
    ASSUME NEW n \in Nat, n >= 2, NEW q \in [0 .. n - 1 -> Entry],
           NEW rd \in 0 .. n - 1, NEW wr \in 0 .. n - 1, NEW cnt \in Nat,
           RingOK(q, rd, wr, cnt, n), cnt > 0
    PROVE  RingOK([q EXCEPT ![rd] = Invalid(@)], Wrap(rd + 1, n), wr, cnt - 1, n)
  BY DEF RingOK, InWindow, Wrap, Entry, Invalid

LEMMA InitOK == SUInit => IInv
  <1> SUFFICES ASSUME SUInit PROVE IInv
    OBVIOUS
  <1> USE DEF SUInit, SBInit
  <1>1. TypeOK
    <2>1. 0 \in SpecIndex /\ 0 \in CommitIndex
      BY DepthAssumption DEF SpecIndex, CommitIndex
    <2>2. 0 \in 0 .. 2 * DEPTH_SPEC - 1 /\ 0 \in 0 .. 2 * DEPTH_COMMIT - 1
      BY DepthAssumption
    <2>3. st_q \in Request
      BY ResetEntryType DEF Request
    <2> QED BY <2>1, <2>2, <2>3, ResetEntryType DEF TypeOK
  <1>2. RingsConsistent
    BY ResetEntryType, DepthAssumption
    DEF RingsConsistent, RingOK, SpecIndex, CommitIndex, InWindow, Wrap
  <1>3. SecondStageHasRoom
    BY DEF SecondStageHasRoom
  <1> QED BY <1>1, <1>2, <1>3 DEF IInv

LEMMA TypeStep ==
    ASSUME TypeOK, NEW in \in Input, SUStep(in)
    PROVE  TypeOK'
  <1> USE DEF SUStep, SBStep
  <1>1. /\ speculative_queue_q' \in [SpecIndex -> Entry]
        /\ commit_queue_q' \in [CommitIndex -> Entry]
    <2>1. [req |-> st_q.req, valid |-> TRUE] \in Entry
      BY DEF TypeOK, Entry, Request
    <2>2. \A e \in Entry : Invalid(e) \in Entry
      BY DEF Entry, Invalid
    <2>3. speculative_queue_q[speculative_read_pointer_q] \in Entry
      BY DEF TypeOK
    <2>4. speculative_queue_q' \in [SpecIndex -> Entry]
      BY <2>1, <2>2 DEF TypeOK, core_if
    <2>5. commit_queue_q' \in [CommitIndex -> Entry]
      BY <2>2, <2>3 DEF TypeOK, store_if, committing
    <2> QED BY <2>4, <2>5
  <1>2. /\ speculative_status_cnt_q' \in 0 .. 2 * DEPTH_SPEC - 1
        /\ speculative_read_pointer_q' \in SpecIndex
        /\ speculative_write_pointer_q' \in SpecIndex
    <2> DEFINE v == Bit(store_buffer_valid(in))
               c == Bit(in.commit)
    <2>1. v \in {0, 1} /\ c \in {0, 1}
      BY DEF Bit
    <2>2. /\ speculative_status_cnt_q' =
                IF in.flush THEN 0
                ELSE Wrap(speculative_status_cnt_q + v - c, 2 * DEPTH_SPEC)
          /\ speculative_read_pointer_q' = Wrap(speculative_read_pointer_q + c, DEPTH_SPEC)
          /\ speculative_write_pointer_q' =
                IF in.flush THEN speculative_read_pointer_q
                ELSE Wrap(speculative_write_pointer_q + v, DEPTH_SPEC)
      BY DEF core_if
    <2> HIDE DEF v, c
    <2> QED BY <2>1, <2>2, DepthAssumption DEF TypeOK, SpecIndex, Wrap
  <1>3. /\ commit_status_cnt_q' \in 0 .. 2 * DEPTH_COMMIT - 1
        /\ commit_read_pointer_q' \in CommitIndex
        /\ commit_write_pointer_q' \in CommitIndex
    <2> DEFINE e == Bit(data_req /\ in.gnt)
               c == Bit(in.commit)
    <2>1. e \in {0, 1} /\ c \in {0, 1}
      BY DEF Bit
    <2>2. /\ commit_status_cnt_q' = Wrap(commit_status_cnt_q - e + c, 2 * DEPTH_COMMIT)
          /\ commit_read_pointer_q' = Wrap(commit_read_pointer_q + e, DEPTH_COMMIT)
          /\ commit_write_pointer_q' = Wrap(commit_write_pointer_q + c, DEPTH_COMMIT)
      BY DEF store_if
    <2> HIDE DEF e, c
    <2> QED BY <2>1, <2>2, DepthAssumption DEF TypeOK, CommitIndex, Wrap
  <1>4. /\ state_q' \in {"IDLE", "VALID_STORE", "WAIT_TRANSLATION", "WAIT_STORE_READY"}
        /\ st_q' \in Request
    BY DEF TypeOK, store_control, Input
  <1>5. amo_valid' \in BOOLEAN /\ amo_data' \in Store
    BY DEF TypeOK, amo_buffer, amo_buffer_valid, st_valid,
           st_valid_without_flush, Input, Request
  <1> QED BY <1>1, <1>2, <1>3, <1>4, <1>5 DEF TypeOK

\* The speculative ring: core_if pushes, evicts the committed head, flushes.
LEMMA SpecRingStep ==
    ASSUME IInv, NEW in \in Input, CommitContract(in), SUStep(in)
    PROVE  RingOK(speculative_queue_q, speculative_read_pointer_q,
                  speculative_write_pointer_q, speculative_status_cnt_q, DEPTH_SPEC)'
  <1> DEFINE q == speculative_queue_q
             rd == speculative_read_pointer_q
             wr == speculative_write_pointer_q
             cnt == speculative_status_cnt_q
             valid == store_buffer_valid(in)
             new == [req |-> st_q.req, valid |-> TRUE]
             pushed == IF valid THEN [q EXCEPT ![wr] = new] ELSE q
             popped == IF in.commit THEN [pushed EXCEPT ![rd] = Invalid(@)] ELSE pushed
             cntPushed == IF valid THEN cnt + 1 ELSE cnt
             wrPushed == IF valid THEN Wrap(wr + 1, DEPTH_SPEC) ELSE wr
  <1>1. /\ DEPTH_SPEC \in Nat /\ DEPTH_SPEC >= 2
        /\ q \in [0 .. DEPTH_SPEC - 1 -> Entry]
        /\ rd \in 0 .. DEPTH_SPEC - 1 /\ wr \in 0 .. DEPTH_SPEC - 1
        /\ cnt \in Nat
        /\ RingOK(q, rd, wr, cnt, DEPTH_SPEC)
    BY DepthAssumption DEF IInv, TypeOK, RingsConsistent, SpecIndex
  <1>2. new \in Entry /\ new.valid
    BY DEF IInv, TypeOK, Entry, Request
  <1>3. valid => cnt < DEPTH_SPEC
    BY DEF IInv, SecondStageHasRoom, store_buffer_valid, st_valid, st_valid_without_flush
  <1>4. in.commit => cnt > 0 /\ ~in.flush
    BY DEF CommitContract
  <1>5. /\ q' = IF in.flush THEN [i \in SpecIndex |-> Invalid(popped[i])] ELSE popped
        /\ rd' = Wrap(rd + Bit(in.commit), DEPTH_SPEC)
        /\ wr' = IF in.flush THEN rd ELSE Wrap(wr + Bit(valid), DEPTH_SPEC)
        /\ cnt' = IF in.flush THEN 0
                  ELSE Wrap(cnt + Bit(valid) - Bit(in.commit), 2 * DEPTH_SPEC)
    BY DEF SUStep, SBStep, core_if
  <1> HIDE DEF valid, new
  <1>6. /\ RingOK(pushed, rd, wrPushed, cntPushed, DEPTH_SPEC)
        /\ pushed \in [0 .. DEPTH_SPEC - 1 -> Entry]
        /\ wrPushed \in 0 .. DEPTH_SPEC - 1 /\ cntPushed \in Nat
        /\ cntPushed <= DEPTH_SPEC
    <2>1. CASE valid
      <3>1. RingOK([q EXCEPT ![wr] = new], rd, Wrap(wr + 1, DEPTH_SPEC), cnt + 1, DEPTH_SPEC)
        BY <2>1, <1>1, <1>2, <1>3, RingPush
      <3>2. Wrap(wr + 1, DEPTH_SPEC) \in 0 .. DEPTH_SPEC - 1
        BY <1>1 DEF Wrap
      <3> QED BY <2>1, <3>1, <3>2, <1>1, <1>2, <1>3
    <2>2. CASE ~valid
      BY <2>2, <1>1 DEF RingOK
    <2> QED BY <2>1, <2>2
  <1>7. CASE in.flush
    <2>1. q' = [i \in 0 .. DEPTH_SPEC - 1 |-> Invalid(popped[i])]
      BY <1>5, <1>7 DEF SpecIndex
    <2>2. rd' = rd /\ wr' = rd /\ cnt' = 0
      BY <1>5, <1>7, <1>4, <1>1 DEF Wrap, Bit
    <2> HIDE DEF popped
    <2>3. \A i \in 0 .. DEPTH_SPEC - 1 : q'[i].valid = FALSE
      BY <2>1 DEF Invalid
    <2> QED BY <2>2, <2>3, <1>1 DEF RingOK, InWindow, Wrap
  <1>8. CASE ~in.flush /\ in.commit
    <2>1. RingOK([pushed EXCEPT ![rd] = Invalid(@)], Wrap(rd + 1, DEPTH_SPEC), wrPushed,
                 cntPushed - 1, DEPTH_SPEC)
      <3>1. cntPushed > 0
        BY <1>8, <1>4, <1>1
      <3> HIDE DEF pushed, wrPushed, cntPushed
      <3> QED BY <3>1, <1>1, <1>6, RingPop
    <2>2. q' = [pushed EXCEPT ![rd] = Invalid(@)]
      BY <1>5, <1>8
    <2>3. rd' = Wrap(rd + 1, DEPTH_SPEC)
      BY <1>5, <1>8 DEF Bit
    <2>4. wr' = wrPushed
      BY <1>5, <1>8, <1>1 DEF Bit, Wrap
    <2>5. cnt' = cntPushed - 1
      BY <1>5, <1>8, <1>1, <1>4, <1>6 DEF Bit, Wrap
    <2> HIDE DEF pushed, wrPushed, cntPushed
    <2> QED BY <2>1, <2>2, <2>3, <2>4, <2>5
  <1>9. CASE ~in.flush /\ ~in.commit
    <2>1. q' = pushed
      BY <1>5, <1>9
    <2>2. rd' = rd
      BY <1>5, <1>9, <1>1 DEF Bit, Wrap
    <2>3. wr' = wrPushed
      BY <1>5, <1>9, <1>1 DEF Bit, Wrap
    <2>4. cnt' = cntPushed
      BY <1>5, <1>9, <1>1, <1>6 DEF Bit, Wrap
    <2> HIDE DEF pushed, wrPushed, cntPushed
    <2> QED BY <1>6, <2>1, <2>2, <2>3, <2>4
  <1> QED BY <1>7, <1>8, <1>9

\* The commit ring: store_if evicts the granted head and takes over the
\* committed store, which is valid because the speculative ring is not empty.
LEMMA CommitRingStep ==
    ASSUME IInv, NEW in \in Input, CommitContract(in), SUStep(in)
    PROVE  RingOK(commit_queue_q, commit_read_pointer_q,
                  commit_write_pointer_q, commit_status_cnt_q, DEPTH_COMMIT)'
  <1> DEFINE q == commit_queue_q
             rd == commit_read_pointer_q
             wr == commit_write_pointer_q
             cnt == commit_status_cnt_q
             evict == data_req /\ in.gnt
             new == speculative_queue_q[speculative_read_pointer_q]
             drained == IF evict THEN [q EXCEPT ![rd] = Invalid(@)] ELSE q
             rdDrained == IF evict THEN Wrap(rd + 1, DEPTH_COMMIT) ELSE rd
             cntDrained == IF evict THEN cnt - 1 ELSE cnt
  <1>1. /\ DEPTH_COMMIT \in Nat /\ DEPTH_COMMIT >= 2
        /\ q \in [0 .. DEPTH_COMMIT - 1 -> Entry]
        /\ rd \in 0 .. DEPTH_COMMIT - 1 /\ wr \in 0 .. DEPTH_COMMIT - 1
        /\ cnt \in Nat
        /\ RingOK(q, rd, wr, cnt, DEPTH_COMMIT)
    BY DepthAssumption DEF IInv, TypeOK, RingsConsistent, CommitIndex
  <1>2. evict => cnt > 0
    BY <1>1 DEF data_req, RingOK, InWindow, Wrap
  <1>3. in.commit => cnt < DEPTH_COMMIT
    BY DEF CommitContract, commit_ready_o
  <1>4. in.commit => new \in Entry /\ new.valid
    <2>1. new \in Entry
      BY DEF IInv, TypeOK
    <2>2. speculative_status_cnt_q > 0 => new.valid
      BY DepthAssumption DEF IInv, TypeOK, RingsConsistent, RingOK, InWindow, Wrap, SpecIndex
    <2> QED BY <2>1, <2>2 DEF CommitContract
  <1>5. /\ q' = IF in.commit THEN [drained EXCEPT ![wr] = new] ELSE drained
        /\ rd' = Wrap(rd + Bit(evict), DEPTH_COMMIT)
        /\ wr' = Wrap(wr + Bit(in.commit), DEPTH_COMMIT)
        /\ cnt' = Wrap(cnt - Bit(evict) + Bit(in.commit), 2 * DEPTH_COMMIT)
    BY DEF SUStep, SBStep, store_if, committing
  <1> HIDE DEF evict, new
  <1>6. /\ RingOK(drained, rdDrained, wr, cntDrained, DEPTH_COMMIT)
        /\ drained \in [0 .. DEPTH_COMMIT - 1 -> Entry]
        /\ rdDrained \in 0 .. DEPTH_COMMIT - 1 /\ cntDrained \in Nat
        /\ cntDrained <= cnt
    <2>1. CASE evict
      <3>1. RingOK([q EXCEPT ![rd] = Invalid(@)], Wrap(rd + 1, DEPTH_COMMIT), wr,
                   cnt - 1, DEPTH_COMMIT)
        BY <2>1, <1>1, <1>2, RingPop
      <3>2. Invalid(q[rd]) \in Entry
        BY <1>1 DEF Invalid, Entry
      <3>3. Wrap(rd + 1, DEPTH_COMMIT) \in 0 .. DEPTH_COMMIT - 1
        BY <1>1 DEF Wrap
      <3> QED BY <2>1, <3>1, <3>2, <3>3, <1>1, <1>2
    <2>2. CASE ~evict
      BY <2>2, <1>1
    <2> QED BY <2>1, <2>2
  <1>7. rd' = rdDrained
    BY <1>5, <1>1 DEF Bit, Wrap
  <1>8. CASE in.commit
    <2>1. cnt' = cntDrained + 1
      BY <1>5, <1>8, <1>1, <1>2, <1>3, <1>6 DEF Bit, Wrap
    <2>2. wr' = Wrap(wr + 1, DEPTH_COMMIT)
      BY <1>5, <1>8 DEF Bit
    <2>3. q' = [drained EXCEPT ![wr] = new]
      BY <1>5, <1>8
    <2>4. cntDrained < DEPTH_COMMIT
      BY <1>1, <1>3, <1>6, <1>8
    <2> HIDE DEF drained, rdDrained, cntDrained
    <2>5. RingOK([drained EXCEPT ![wr] = new], rdDrained, Wrap(wr + 1, DEPTH_COMMIT),
                 cntDrained + 1, DEPTH_COMMIT)
      BY <1>1, <1>4, <1>6, <1>8, <2>4, RingPush
    <2> QED BY <1>7, <2>1, <2>2, <2>3, <2>5
  <1>9. CASE ~in.commit
    <2>1. cnt' = cntDrained
      BY <1>5, <1>9, <1>1, <1>2, <1>6 DEF Bit, Wrap, RingOK
    <2>2. wr' = wr
      BY <1>5, <1>9, <1>1 DEF Bit, Wrap
    <2>3. q' = drained
      BY <1>5, <1>9
    <2> HIDE DEF drained, rdDrained, cntDrained
    <2> QED BY <1>6, <1>7, <2>1, <2>2, <2>3
  <1> QED BY <1>8, <1>9

\* A request that enters the second stage finds room there one cycle later:
\* ready_o keeps one slot back for the store that is pushed meanwhile, and a
\* commit in the same cycle frees one.
LEMMA RoomStep ==
    ASSUME IInv, NEW in \in Input, CommitContract(in), SUStep(in)
    PROVE  SecondStageHasRoom'
  <1> SUFFICES ASSUME state_q' = "VALID_STORE"
               PROVE  IF st_q'.amo THEN ~amo_valid'
                                   ELSE speculative_status_cnt_q' < DEPTH_SPEC
    BY DEF SecondStageHasRoom
  <1>1. ~in.flush /\ ~exception(in) /\ starts(in) /\ st_ready(in) /\ in.hit
    BY DEF SUStep, store_control
  <1>2. st_q' = in.ctrl
    BY DEF SUStep
  <1>3. CASE in.ctrl.amo
    <2>1. state_q = "IDLE"
      BY <1>1, <1>3 DEF starts
    <2>2. ~amo_valid /\ ~amo_buffer_valid(in)
      BY <1>1, <2>1 DEF st_ready, amo_ready, amo_buffer_valid, st_valid,
                        st_valid_without_flush
    <2>3. ~amo_valid'
      BY <2>2 DEF SUStep, amo_buffer
    <2> QED BY <1>2, <1>3, <2>3
  <1>4. CASE ~in.ctrl.amo
    <2> DEFINE v == Bit(store_buffer_valid(in))
               c == Bit(in.commit)
               cnt == speculative_status_cnt_q
    <2>1. v \in {0, 1} /\ c \in {0, 1}
      BY DEF Bit
    <2>2. cnt' = Wrap(cnt + v - c, 2 * DEPTH_SPEC)
      BY <1>1 DEF SUStep, SBStep, core_if
    <2>3. v = 1 => cnt < DEPTH_SPEC
      BY DEF Bit, IInv, SecondStageHasRoom, store_buffer_valid, st_valid,
             st_valid_without_flush
    <2>4. cnt < DEPTH_SPEC - 1 \/ c = 1
      BY <1>1 DEF st_ready, ready_o, Bit
    <2>5. c = 1 => cnt > 0
      BY DEF CommitContract, Bit
    <2>6. cnt \in Nat /\ cnt <= DEPTH_SPEC
      BY DepthAssumption DEF IInv, TypeOK, RingsConsistent, RingOK
    <2> HIDE DEF v, c
    <2>7. cnt' < DEPTH_SPEC
      BY <2>1, <2>2, <2>3, <2>4, <2>5, <2>6, DepthAssumption DEF Wrap
    <2> QED BY <1>2, <1>4, <2>7
  <1> QED BY <1>3, <1>4

LEMMA Inductive == IInv /\ [SUNext]_vars => IInv'
  <1> SUFFICES ASSUME IInv, [SUNext]_vars PROVE IInv'
    OBVIOUS
  <1>1. CASE SUNext
    <2>1. PICK in \in Input : CommitContract(in) /\ SUStep(in)
      BY <1>1 DEF SUNext
    <2>2. TypeOK'
      BY <2>1, TypeStep DEF IInv
    <2>3. RingsConsistent'
      BY <2>1, SpecRingStep, CommitRingStep DEF RingsConsistent
    <2>4. SecondStageHasRoom'
      BY <2>1, RoomStep
    <2> QED BY <2>2, <2>3, <2>4 DEF IInv
  <1>2. CASE UNCHANGED vars
    BY <1>2 DEF vars, sbVars, specVars, commitVars, suVars, IInv, TypeOK,
                RingsConsistent, RingOK, SecondStageHasRoom
  <1> QED BY <1>1, <1>2

\* The registers of the store unit keep their types whatever the depths.
THEOREM TypeCorrect == SUSpec => []TypeOK
  BY InitOK, Inductive, PTL DEF SUSpec, IInv

\* For every depth of the queues, counters, pointers and valid bits of the
\* store buffer always agree, under the contract of the commit stage.
THEOREM StoreBufferConsistent == SUSpec => []RingsConsistent
  BY InitOK, Inductive, PTL DEF SUSpec, IInv

\* For every depth of the queues, neither the speculative queue nor the AMO
\* buffer is written while it is full (speculative_buffer_overflow in
\* store_buffer.sv, full_write in fifo_v3.sv).
THEOREM NoOverflow == SUSpec => []SecondStageHasRoom
  BY InitOK, Inductive, PTL DEF SUSpec, IInv

-----------------------------------------------------------------------------
(* The rings implement the queues of StoreQueue.                            *)

\* The contents of a ring are a sequence of stores as long as the counter says.
LEMMA ContentsType ==
    ASSUME NEW n \in Nat, n >= 2, NEW q \in [0 .. n - 1 -> Entry],
           NEW rd \in 0 .. n - 1, NEW cnt \in 0 .. n
    PROVE  /\ RingContents(q, rd, cnt, n) \in Seq(Store)
           /\ Len(RingContents(q, rd, cnt, n)) = cnt
           /\ \A k \in 1 .. cnt : RingContents(q, rd, cnt, n)[k] = q[Wrap(rd + k - 1, n)].req
  <1>1. \A k \in 1 .. cnt : Wrap(rd + k - 1, n) \in 0 .. n - 1
    BY DEF Wrap
  <1>2. \A k \in 1 .. cnt : q[Wrap(rd + k - 1, n)].req \in Store
    BY <1>1 DEF Entry
  <1> QED BY <1>2 DEF RingContents

\* A sequence that lacks the first element of another is its tail.
LEMMA SeqTail ==
    ASSUME NEW X, NEW S \in Seq(X), NEW T \in Seq(X), Len(S) > 0,
           Len(T) = Len(S) - 1, \A k \in 1 .. Len(T) : T[k] = S[k + 1]
    PROVE  T = Tail(S) /\ S # <<>> /\ Head(S) = S[1]
  <1>1. S # <<>>
    OBVIOUS
  <1>2. Tail(S) \in Seq(X) /\ Len(Tail(S)) = Len(T) /\ \A k \in 1 .. Len(T) : T[k] = Tail(S)[k]
    BY <1>1
  <1>3. T = Tail(S)
    BY <1>2, SeqEqual
  <1> QED BY <1>1, <1>3

\* The first element of a concatenation is taken from its first part.
LEMMA SeqTailConcat ==
    ASSUME NEW X, NEW S \in Seq(X), NEW T \in Seq(X), S # <<>>
    PROVE  Tail(S \o T) = Tail(S) \o T
  <1>1. S \o T \in Seq(X) /\ Len(S \o T) = Len(S) + Len(T) /\ Len(S) > 0
    OBVIOUS
  <1>2. /\ Tail(S) \in Seq(X) /\ Len(Tail(S)) = Len(S) - 1
        /\ \A k \in 1 .. Len(S) - 1 : Tail(S)[k] = S[k + 1]
    OBVIOUS
  <1>3. /\ Tail(S \o T) \in Seq(X) /\ Len(Tail(S \o T)) = Len(S) + Len(T) - 1
        /\ \A k \in 1 .. Len(S) + Len(T) - 1 : Tail(S \o T)[k] = (S \o T)[k + 1]
    BY <1>1
  <1>4. Tail(S) \o T \in Seq(X) /\ Len(Tail(S) \o T) = Len(S) + Len(T) - 1
    BY <1>2
  <1>5. ASSUME NEW k \in 1 .. Len(S) + Len(T) - 1 PROVE Tail(S \o T)[k] = (Tail(S) \o T)[k]
    <2>1. Tail(S \o T)[k] = IF k + 1 <= Len(S) THEN S[k + 1] ELSE T[k + 1 - Len(S)]
      BY <1>1, <1>3
    <2>2. (Tail(S) \o T)[k] = IF k <= Len(S) - 1 THEN Tail(S)[k] ELSE T[k - (Len(S) - 1)]
      BY <1>2, <1>4
    <2> QED BY <1>1, <1>2, <2>1, <2>2
  <1> QED BY <1>3, <1>4, <1>5, SeqEqual

\* A ring with entry e in slot i.
Put(q, i, e) == [q EXCEPT ![i] = e]

\* Pushing behind the last entry appends to the contents.
LEMMA ContentsPush ==
    ASSUME NEW n \in Nat, n >= 2, NEW q \in [0 .. n - 1 -> Entry],
           NEW rd \in 0 .. n - 1, NEW cnt \in 0 .. n - 1, NEW e \in Entry
    PROVE  RingContents(Put(q, Wrap(rd + cnt, n), e), rd, cnt + 1, n)
             = RingContents(q, rd, cnt, n) \o <<e.req>>
  <1> USE DEF Put
  <1>w. PICK wr : wr = Wrap(rd + cnt, n)
    OBVIOUS
  <1> DEFINE p == [q EXCEPT ![wr] = e]
             S == RingContents(q, rd, cnt, n)
             T == RingContents(p, rd, cnt + 1, n)
  <1>0. cnt \in 0 .. n /\ cnt + 1 \in 0 .. n
    OBVIOUS
  <1>1. wr \in 0 .. n - 1 /\ p \in [0 .. n - 1 -> Entry] /\ e.req \in Store
    BY <1>w DEF Wrap, Entry
  <1>2. \A i \in 0 .. n - 1 : p[i] = IF i = wr THEN e ELSE q[i]
    OBVIOUS
  <1> HIDE DEF p
  <1>3. /\ S \in Seq(Store) /\ Len(S) = cnt
        /\ \A k \in 1 .. cnt : S[k] = q[Wrap(rd + k - 1, n)].req
    BY <1>0, ContentsType, Zenon
  <1>4. /\ T \in Seq(Store) /\ Len(T) = cnt + 1
        /\ \A k \in 1 .. cnt + 1 : T[k] = p[Wrap(rd + k - 1, n)].req
    BY <1>0, <1>1, ContentsType, Zenon
  <1> HIDE DEF S, T
  <1>5. \A k \in 1 .. cnt : Wrap(rd + k - 1, n) # wr /\ Wrap(rd + k - 1, n) \in 0 .. n - 1
    BY <1>w DEF Wrap
  <1>6. ASSUME NEW k \in 1 .. cnt PROVE T[k] = S[k]
    <2>1. k \in 1 .. cnt + 1 /\ Wrap(rd + k - 1, n) # wr /\ Wrap(rd + k - 1, n) \in 0 .. n - 1
      BY <1>5
    <2>2. p[Wrap(rd + k - 1, n)] = q[Wrap(rd + k - 1, n)]
      BY <1>2, <2>1
    <2> QED BY <1>3, <1>4, <2>1, <2>2
  <1>7. T[cnt + 1] = e.req
    BY <1>w, <1>1, <1>2, <1>4
  <1>8. /\ Len(T) = Len(S) + 1 /\ T[Len(S) + 1] = e.req
        /\ \A k \in 1 .. Len(S) : T[k] = S[k]
    BY <1>3, <1>4, <1>6, <1>7
  <1>9. S \in Seq(Store) /\ T \in Seq(Store) /\ e.req \in Store
    BY <1>1, <1>3, <1>4
  <1>10. T = S \o <<e.req>>
    <2>1. PICK x \in Store : x = e.req
      BY <1>9
    <2>2. T[Len(S) + 1] = x
      BY <1>8, <2>1
    <2>3. S \o <<x>> \in Seq(Store) /\ Len(S \o <<x>>) = Len(T)
      BY <1>8, <1>9
    <2>4. \A k \in 1 .. Len(T) : T[k] = (S \o <<x>>)[k]
      BY <1>8, <1>9, <2>2
    <2>5. T = S \o <<x>>
      BY <1>9, <2>3, <2>4, SeqEqual
    <2> QED BY <2>1, <2>5
  <1> QED BY <1>w, <1>10 DEF S, T, p

\* Taking the first entry out leaves the tail of the contents.
LEMMA ContentsPop ==
    ASSUME NEW n \in Nat, n >= 2, NEW q \in [0 .. n - 1 -> Entry],
           NEW rd \in 0 .. n - 1, NEW cnt \in 1 .. n
    PROVE  /\ RingContents([q EXCEPT ![rd] = Invalid(@)], Wrap(rd + 1, n), cnt - 1, n)
                = Tail(RingContents(q, rd, cnt, n))
           /\ RingContents(q, rd, cnt, n) # <<>>
           /\ Head(RingContents(q, rd, cnt, n)) = q[rd].req
  <1> DEFINE p == [q EXCEPT ![rd] = Invalid(@)]
             next == Wrap(rd + 1, n)
             S == RingContents(q, rd, cnt, n)
             T == RingContents(p, next, cnt - 1, n)
  <1>0. cnt \in 0 .. n /\ cnt - 1 \in 0 .. n /\ next \in 0 .. n - 1
    BY DEF Wrap
  <1>1. p \in [0 .. n - 1 -> Entry]
    BY DEF Entry, Invalid
  <1>2. \A i \in 0 .. n - 1 : p[i].req = q[i].req
    BY DEF Invalid
  <1>3. \A k \in 1 .. cnt - 1 : /\ Wrap(next + k - 1, n) = Wrap(rd + (k + 1) - 1, n)
                                /\ Wrap(next + k - 1, n) \in 0 .. n - 1
    BY DEF Wrap
  <1> HIDE DEF p, next
  <1>4. /\ S \in Seq(Store) /\ Len(S) = cnt
        /\ \A k \in 1 .. cnt : S[k] = q[Wrap(rd + k - 1, n)].req
    BY <1>0, ContentsType, Zenon
  <1>5. /\ T \in Seq(Store) /\ Len(T) = cnt - 1
        /\ \A k \in 1 .. cnt - 1 : T[k] = p[Wrap(next + k - 1, n)].req
    BY <1>0, <1>1, ContentsType, Zenon
  <1> HIDE DEF S, T
  <1>6. ASSUME NEW k \in 1 .. cnt - 1 PROVE T[k] = S[k + 1]
    <2>1. k + 1 \in 1 .. cnt
      OBVIOUS
    <2>2. S[k + 1] = q[Wrap(rd + (k + 1) - 1, n)].req
      BY <1>4, <2>1
    <2>3. T[k] = q[Wrap(next + k - 1, n)].req
      BY <1>2, <1>3, <1>5
    <2> QED BY <1>3, <2>2, <2>3
  <1>7. S[1] = q[rd].req
    BY <1>4 DEF Wrap
  <1>8. T = Tail(S) /\ S # <<>> /\ Head(S) = S[1]
    BY <1>4, <1>5, <1>6, SeqTail
  <1> QED BY <1>7, <1>8 DEF S, T, p, next

SpecContents == RingContents(speculative_queue_q, speculative_read_pointer_q,
                             speculative_status_cnt_q, DEPTH_SPEC)
CommitContents == RingContents(commit_queue_q, commit_read_pointer_q,
                               commit_status_cnt_q, DEPTH_COMMIT)

\* What both rings hold is a sequence within the capacity of the ring.
LEMMA ContentsBounded ==
    ASSUME IInv
    PROVE  /\ SpecContents \in Seq(Store) /\ Len(SpecContents) = speculative_status_cnt_q
           /\ CommitContents \in Seq(Store) /\ Len(CommitContents) = commit_status_cnt_q
           /\ speculative_status_cnt_q \in 0 .. DEPTH_SPEC
           /\ commit_status_cnt_q \in 0 .. DEPTH_COMMIT
  <1>1. /\ DEPTH_SPEC \in Nat /\ DEPTH_SPEC >= 2
        /\ speculative_queue_q \in [0 .. DEPTH_SPEC - 1 -> Entry]
        /\ speculative_read_pointer_q \in 0 .. DEPTH_SPEC - 1
        /\ speculative_status_cnt_q \in 0 .. DEPTH_SPEC
    BY DepthAssumption DEF IInv, TypeOK, RingsConsistent, RingOK, SpecIndex
  <1>2. /\ DEPTH_COMMIT \in Nat /\ DEPTH_COMMIT >= 2
        /\ commit_queue_q \in [0 .. DEPTH_COMMIT - 1 -> Entry]
        /\ commit_read_pointer_q \in 0 .. DEPTH_COMMIT - 1
        /\ commit_status_cnt_q \in 0 .. DEPTH_COMMIT
    BY DepthAssumption DEF IInv, TypeOK, RingsConsistent, RingOK, CommitIndex
  <1>3. SpecContents \in Seq(Store) /\ Len(SpecContents) = speculative_status_cnt_q
    BY <1>1, ContentsType, Zenon DEF SpecContents
  <1>4. CommitContents \in Seq(Store) /\ Len(CommitContents) = commit_status_cnt_q
    BY <1>2, ContentsType, Zenon DEF CommitContents
  <1> QED BY <1>1, <1>2, <1>3, <1>4

\* core_if is the step of the speculative queue.
LEMMA SpecRefines ==
    ASSUME IInv, NEW in \in Input, CommitContract(in), SUStep(in)
    PROVE  /\ in.flush => SpecContents' = <<>>
           /\ ~in.flush => SpecContents' = Queue!Drop(SpecContents, in.commit)
                              \o (IF store_buffer_valid(in) THEN <<st_q.req>> ELSE <<>>)
           /\ in.commit => SpecContents # <<>> /\ Head(SpecContents) = committing.req
  <1> DEFINE q == speculative_queue_q
             rd == speculative_read_pointer_q
             wr == speculative_write_pointer_q
             cnt == speculative_status_cnt_q
             valid == store_buffer_valid(in)
             new == [req |-> st_q.req, valid |-> TRUE]
             pushed == IF valid THEN [q EXCEPT ![wr] = new] ELSE q
             popped == IF in.commit THEN [pushed EXCEPT ![rd] = Invalid(@)] ELSE pushed
             cntPushed == IF valid THEN cnt + 1 ELSE cnt
             arrival == IF valid THEN <<st_q.req>> ELSE <<>>
             S == RingContents(q, rd, cnt, DEPTH_SPEC)
             P == RingContents(pushed, rd, cntPushed, DEPTH_SPEC)
  <1>1. /\ DEPTH_SPEC \in Nat /\ DEPTH_SPEC >= 2
        /\ q \in [0 .. DEPTH_SPEC - 1 -> Entry]
        /\ rd \in 0 .. DEPTH_SPEC - 1
        /\ cnt \in 0 .. DEPTH_SPEC
        /\ wr = Wrap(rd + cnt, DEPTH_SPEC)
    BY DepthAssumption DEF IInv, TypeOK, RingsConsistent, RingOK, SpecIndex
  <1>2. new \in Entry /\ new.req = st_q.req /\ st_q.req \in Store
    BY DEF IInv, TypeOK, Entry, Request
  <1>3. valid => cnt \in 0 .. DEPTH_SPEC - 1
    BY <1>1 DEF IInv, SecondStageHasRoom, store_buffer_valid, st_valid, st_valid_without_flush
  <1>4. in.commit => cnt \in 1 .. DEPTH_SPEC /\ ~in.flush
    BY <1>1 DEF CommitContract
  <1>5. /\ q' = IF in.flush THEN [i \in SpecIndex |-> Invalid(popped[i])] ELSE popped
        /\ rd' = Wrap(rd + Bit(in.commit), DEPTH_SPEC)
        /\ cnt' = IF in.flush THEN 0
                  ELSE Wrap(cnt + Bit(valid) - Bit(in.commit), 2 * DEPTH_SPEC)
    BY DEF SUStep, SBStep, core_if
  <1>6. S \in Seq(Store) /\ Len(S) = cnt
    BY ContentsBounded DEF SpecContents
  <1> HIDE DEF valid, new
  <1>7. /\ P = S \o arrival
        /\ pushed \in [0 .. DEPTH_SPEC - 1 -> Entry] /\ cntPushed \in 0 .. DEPTH_SPEC
    <2>1. CASE valid
      <3>1. RingContents([q EXCEPT ![wr] = new], rd, cnt + 1, DEPTH_SPEC) = S \o <<new.req>>
        <4>1. /\ DEPTH_SPEC \in Nat /\ DEPTH_SPEC >= 2 /\ q \in [0 .. DEPTH_SPEC - 1 -> Entry]
              /\ rd \in 0 .. DEPTH_SPEC - 1 /\ cnt \in 0 .. DEPTH_SPEC - 1 /\ new \in Entry
          BY <2>1, <1>1, <1>2, <1>3
        <4>2. RingContents(Put(q, Wrap(rd + cnt, DEPTH_SPEC), new), rd, cnt + 1, DEPTH_SPEC)
                = S \o <<new.req>>
          BY <4>1, ContentsPush, Zenon
        <4> QED BY <1>1, <4>2 DEF Put
      <3>2. P = S \o <<st_q.req>>
        BY <2>1, <1>2, <3>1
      <3>3. cntPushed \in 0 .. DEPTH_SPEC
        BY <2>1, <1>1, <1>3
      <3>4. pushed \in [0 .. DEPTH_SPEC - 1 -> Entry]
        BY <2>1, <1>1, <1>2
      <3> QED BY <2>1, <3>2, <3>3, <3>4
    <2>2. CASE ~valid
      <3>1. S \o <<>> = S
        <4> HIDE DEF S
        <4> QED BY <1>6
      <3> QED BY <2>2, <3>1, <1>1
    <2> QED BY <2>1, <2>2
  <1>8. in.commit => S # <<>> /\ Head(S) = committing.req
    BY <1>1, <1>4, ContentsPop DEF committing
  <1>9. CASE in.flush
    <2>1. cnt' = 0
      BY <1>5, <1>9
    <2>2. SpecContents' = <<>>
      BY <2>1 DEF SpecContents, RingContents
    <2> QED BY <1>4, <1>9, <2>2
  <1>10. CASE ~in.flush /\ in.commit
    <2>1. q' = [pushed EXCEPT ![rd] = Invalid(@)] /\ rd' = Wrap(rd + 1, DEPTH_SPEC)
      BY <1>5, <1>10 DEF Bit
    <2>2. cnt' = cntPushed - 1 /\ cntPushed \in 1 .. DEPTH_SPEC
      BY <1>5, <1>10, <1>1, <1>3, <1>4, <1>7 DEF Bit, Wrap
    <2>3. SpecContents' = Tail(P)
      <3>1. RingContents([pushed EXCEPT ![rd] = Invalid(@)], Wrap(rd + 1, DEPTH_SPEC),
                         cntPushed - 1, DEPTH_SPEC) = Tail(P)
        <4> HIDE DEF pushed, cntPushed
        <4> QED BY <1>1, <1>7, <2>2, ContentsPop
      <3>2. SpecContents' = RingContents(q', rd', cnt', DEPTH_SPEC)
        BY DEF SpecContents
      <3> HIDE DEF pushed, cntPushed, P
      <3> QED BY <2>1, <2>2, <3>1, <3>2
    <2>4. arrival \in Seq(Store)
      BY <1>2
    <2>5. Tail(S \o arrival) = Tail(S) \o arrival
      <3>1. S # <<>>
        BY <1>8, <1>10
      <3> HIDE DEF S, arrival
      <3> QED BY <1>6, <2>4, <3>1, SeqTailConcat
    <2>6. SpecContents' = Tail(S) \o arrival
      BY <1>7, <2>3, <2>5
    <2> QED BY <1>8, <1>10, <2>6 DEF Queue!Drop, SpecContents, valid
  <1>11. CASE ~in.flush /\ ~in.commit
    <2>1. q' = pushed /\ rd' = rd
      BY <1>5, <1>11, <1>1 DEF Bit, Wrap
    <2>2. cnt' = cntPushed
      BY <1>5, <1>11, <1>1, <1>7 DEF Bit, Wrap
    <2>3. SpecContents' = P
      BY <2>1, <2>2 DEF SpecContents
    <2> QED BY <1>7, <1>11, <2>3 DEF Queue!Drop, SpecContents, valid
  <1> QED BY <1>9, <1>10, <1>11

\* store_if is the step of the commit queue.
LEMMA CommitRefines ==
    ASSUME IInv, NEW in \in Input, CommitContract(in), SUStep(in)
    PROVE  /\ CommitContents' = Queue!Drop(CommitContents, data_req /\ in.gnt)
                                  \o (IF in.commit THEN <<committing.req>> ELSE <<>>)
           /\ data_req /\ in.gnt => CommitContents # <<>>
           /\ in.commit => Len(CommitContents) < DEPTH_COMMIT
  <1> DEFINE q == commit_queue_q
             rd == commit_read_pointer_q
             wr == commit_write_pointer_q
             cnt == commit_status_cnt_q
             evict == data_req /\ in.gnt
             new == committing
             drained == IF evict THEN [q EXCEPT ![rd] = Invalid(@)] ELSE q
             rdDrained == IF evict THEN Wrap(rd + 1, DEPTH_COMMIT) ELSE rd
             cntDrained == IF evict THEN cnt - 1 ELSE cnt
             S == RingContents(q, rd, cnt, DEPTH_COMMIT)
             D == RingContents(drained, rdDrained, cntDrained, DEPTH_COMMIT)
  <1>1. /\ DEPTH_COMMIT \in Nat /\ DEPTH_COMMIT >= 2
        /\ q \in [0 .. DEPTH_COMMIT - 1 -> Entry]
        /\ rd \in 0 .. DEPTH_COMMIT - 1
        /\ cnt \in 0 .. DEPTH_COMMIT
        /\ wr = Wrap(rd + cnt, DEPTH_COMMIT)
    BY DepthAssumption DEF IInv, TypeOK, RingsConsistent, RingOK, CommitIndex
  <1>2. evict => cnt \in 1 .. DEPTH_COMMIT
    BY <1>1 DEF data_req, IInv, RingsConsistent, RingOK, InWindow, Wrap
  <1>3. in.commit => cnt \in 0 .. DEPTH_COMMIT - 1
    BY <1>1 DEF CommitContract, commit_ready_o
  <1>4. new \in Entry
    BY DEF IInv, TypeOK, committing
  <1>5. /\ q' = IF in.commit THEN [drained EXCEPT ![wr] = new] ELSE drained
        /\ rd' = Wrap(rd + Bit(evict), DEPTH_COMMIT)
        /\ cnt' = Wrap(cnt - Bit(evict) + Bit(in.commit), 2 * DEPTH_COMMIT)
    BY DEF SUStep, SBStep, store_if
  <1>6. S \in Seq(Store) /\ Len(S) = cnt
    BY ContentsBounded DEF CommitContents
  <1> HIDE DEF evict, new
  <1>7. /\ D = IF evict THEN Tail(S) ELSE S
        /\ evict => S # <<>>
    <2>1. CASE evict
      BY <2>1, <1>1, <1>2, ContentsPop
    <2>2. CASE ~evict
      BY <2>2
    <2> QED BY <2>1, <2>2
  <1>8. /\ rdDrained \in 0 .. DEPTH_COMMIT - 1
        /\ cntDrained \in 0 .. DEPTH_COMMIT
        /\ in.commit => cntDrained \in 0 .. DEPTH_COMMIT - 1
        /\ wr = Wrap(rdDrained + cntDrained, DEPTH_COMMIT)
    BY <1>1, <1>2, <1>3 DEF Wrap
  <1>9. drained \in [0 .. DEPTH_COMMIT - 1 -> Entry]
    <2>1. Invalid(q[rd]) \in Entry
      BY <1>1 DEF Invalid, Entry
    <2> QED BY <1>1, <2>1
  <1>10. rd' = rdDrained
    BY <1>5, <1>1 DEF Bit, Wrap
  <1>11. cnt' = IF in.commit THEN cntDrained + 1 ELSE cntDrained
    BY <1>5, <1>1, <1>2, <1>8 DEF Bit, Wrap
  <1>12. CommitContents' = RingContents(q', rd', cnt', DEPTH_COMMIT)
    BY DEF CommitContents
  <1> HIDE DEF drained, rdDrained, cntDrained
  <1>13. D \in Seq(Store)
    BY <1>1, <1>8, <1>9, ContentsType, Zenon
  <1>14. CASE in.commit
    <2>1. RingContents([drained EXCEPT ![wr] = new], rdDrained, cntDrained + 1, DEPTH_COMMIT)
            = D \o <<new.req>>
      <3>1. cntDrained \in 0 .. DEPTH_COMMIT - 1
        BY <1>8, <1>14
      <3>2. wr = Wrap(rdDrained + cntDrained, DEPTH_COMMIT) /\ rdDrained \in 0 .. DEPTH_COMMIT - 1
        BY <1>8
      <3>3. DEPTH_COMMIT \in Nat /\ DEPTH_COMMIT >= 2
        BY <1>1
      <3>4. new \in Entry /\ drained \in [0 .. DEPTH_COMMIT - 1 -> Entry]
        BY <1>4, <1>9
      <3>5. RingContents(Put(drained, Wrap(rdDrained + cntDrained, DEPTH_COMMIT), new),
                         rdDrained, cntDrained + 1, DEPTH_COMMIT) = D \o <<new.req>>
        BY <3>1, <3>2, <3>3, <3>4, ContentsPush, Zenon
      <3> QED BY <3>2, <3>5 DEF Put
    <2>2. CommitContents' = D \o <<new.req>>
      BY <1>5, <1>10, <1>11, <1>12, <1>14, <2>1
    <2>3. Len(S) < DEPTH_COMMIT
      BY <1>1, <1>3, <1>6, <1>14
    <2> HIDE DEF D, S
    <2> QED BY <1>7, <1>14, <2>2, <2>3 DEF Queue!Drop, CommitContents, evict, new, S
  <1>15. CASE ~in.commit
    <2>1. CommitContents' = D
      BY <1>5, <1>10, <1>11, <1>12, <1>15
    <2>2. D \o <<>> = D
      <3> HIDE DEF D
      <3> QED BY <1>13
    <2> HIDE DEF D, S
    <2> QED BY <1>7, <1>15, <2>1, <2>2 DEF Queue!Drop, CommitContents, evict, S
  <1> QED BY <1>14, <1>15

\* A clock cycle of the store unit is a step of the two queues.
LEMMA StepRefines ==
    ASSUME IInv, IInv', SUNext
    PROVE  Queue!Next
  <1>1. PICK in \in Input : CommitContract(in) /\ SUStep(in)
    BY DEF SUNext
  <1> DEFINE evict == data_req /\ in.gnt
             arrival == IF store_buffer_valid(in) THEN <<st_q.req>> ELSE <<>>
  <1>2. in.commit \in BOOLEAN /\ in.flush \in BOOLEAN /\ evict \in BOOLEAN
    BY DEF Input
  <1>3. /\ in.flush => SpecContents' = <<>>
        /\ ~in.flush => SpecContents' = Queue!Drop(SpecContents, in.commit) \o arrival
        /\ in.commit => SpecContents # <<>> /\ Head(SpecContents) = committing.req
    BY <1>1, SpecRefines
  <1>4. /\ CommitContents' = Queue!Drop(CommitContents, evict)
                              \o (IF in.commit THEN <<committing.req>> ELSE <<>>)
        /\ evict => CommitContents # <<>>
        /\ in.commit => Len(CommitContents) < DEPTH_COMMIT
    BY <1>1, CommitRefines
  <1>5. in.commit => ~in.flush
    BY <1>1 DEF CommitContract
  <1>6. arrival \in Queue!Arrival
    <2>1. st_q.req \in Store
      BY DEF IInv, TypeOK, Request
    <2> QED BY <2>1 DEF Queue!Arrival
  <1>7. Len(SpecContents') <= DEPTH_SPEC
    <2>1. /\ (Len(SpecContents) = speculative_status_cnt_q)'
          /\ (speculative_status_cnt_q \in 0 .. DEPTH_SPEC)'
      BY ContentsBounded, PTL
    <2>2. DEPTH_SPEC' = DEPTH_SPEC
      OBVIOUS
    <2> QED BY <2>1, DepthAssumption
  <1> HIDE DEF evict, arrival
  <1>8. CASE ~in.flush
    <2>1. /\ in.commit => SpecContents # <<>> /\ Len(CommitContents) < DEPTH_COMMIT
          /\ evict => CommitContents # <<>>
          /\ SpecContents' = Queue!Drop(SpecContents, in.commit) \o arrival
          /\ Len(SpecContents') <= DEPTH_SPEC
          /\ CommitContents' = Queue!Drop(CommitContents, evict)
                                 \o (IF in.commit THEN <<Head(SpecContents)>> ELSE <<>>)
      BY <1>3, <1>4, <1>7, <1>8
    <2>2. Queue!Cycle(arrival, in.commit, evict)
      BY <2>1 DEF Queue!Cycle, SpecContents, CommitContents
    <2> QED BY <1>2, <1>6, <2>2 DEF Queue!Next
  <1>9. CASE in.flush
    <2>1. Queue!Drop(CommitContents, evict) \in Seq(Store)
      BY <1>4, ContentsBounded DEF Queue!Drop
    <2>2. CommitContents' = Queue!Drop(CommitContents, evict)
      BY <1>4, <1>5, <1>9, <2>1
    <2>3. Queue!Flush(evict)
      BY <1>3, <1>4, <1>9, <2>2 DEF Queue!Flush, SpecContents, CommitContents
    <2> QED BY <1>2, <2>3 DEF Queue!Next
  <1> QED BY <1>8, <1>9

\* For every depth of the queues, the pointers, counters and valid bits of the
\* store buffer implement two FIFO queues: a store commits in program order,
\* reaches the cache in that order, exactly once, and a flush discards the
\* speculative stores only (core_if and store_if of store_buffer.sv).
THEOREM Refinement == SUSpec => ImplementsStoreQueue
  <1>1. SUInit => Queue!Init
    BY DEF SUInit, SBInit, Queue!Init, RingContents
  <1>2. IInv /\ IInv' /\ [SUNext]_vars
          => [Queue!Next]_<<RingContents(speculative_queue_q, speculative_read_pointer_q,
                                         speculative_status_cnt_q, DEPTH_SPEC),
                            RingContents(commit_queue_q, commit_read_pointer_q,
                                         commit_status_cnt_q, DEPTH_COMMIT)>>
    <2>1. CASE UNCHANGED vars
      BY <2>1 DEF vars, sbVars, specVars, commitVars
    <2> QED BY <2>1, StepRefines
  <1> QED BY <1>1, <1>2, InitOK, Inductive, PTL
          DEF SUSpec, ImplementsStoreQueue, Queue!Spec

=============================================================================
