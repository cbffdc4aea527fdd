---------------------------- MODULE DCacheProofs ----------------------------
(***************************************************************************)
(* Proofs about the write-through data cache for every number of lines,    *)
(* ways, buffer entries and transactions, and for every block of bytes a   *)
(* store may write.                                                        *)
(***************************************************************************)
EXTENDS DCache, SequenceTheorems, FiniteSetTheorems, WellFoundedInduction, TLAPS

-----------------------------------------------------------------------------
(* The inductive invariant *)

\* A byte of a line is in the write buffer.
Buffered(l, b) == \E k \in Slot : wbuffer_q[k].line = l /\ b \in wbuffer_q[k].valid

\* An entry: what is valid is to be sent or in flight, and is the last value.
EntryOK(e) ==
    /\ e.valid = e.dirty \cup e.txblock
    /\ e.data = e.valid
    /\ e.valid = {} => e = EmptyEntry
    /\ e.valid # {} => e.line \in Line

EntriesOK == \A k \in Slot : EntryOK(wbuffer_q[k])

\* A line has at most one entry.
OneEntryPerLine ==
    \A j, k \in Slot : valid(j) /\ valid(k) /\ wbuffer_q[j].line = wbuffer_q[k].line => j = k

\* An entry has at most one transaction, which covers what the entry blocks.
OneTransaction ==
    /\ \A t \in tx_vld : /\ tx_stat_q[t].be # {}
                         /\ tx_stat_q[t].be = wbuffer_q[tx_stat_q[t].ptr].txblock
    /\ \A t, u \in tx_vld : tx_stat_q[t].ptr = tx_stat_q[u].ptr => t = u
    /\ \A k \in Slot : wbuffer_q[k].txblock # {} => \E t \in tx_vld : tx_stat_q[t].ptr = k

\* What is on offer to the memory can be sent.
OfferedIsDirty == dirty_lock \subseteq dirty

\* An answer belongs to one transaction, and a transaction has one answer.
AnswersOK ==
    /\ \A i \in 1 .. Len(rtrn_fifo) : rtrn_fifo[i] \in tx_vld
    /\ \A i, j \in 1 .. Len(rtrn_fifo) : rtrn_fifo[i] = rtrn_fifo[j] => i = j

BufferInv ==
    /\ WBTypeOK /\ EntriesOK /\ OneEntryPerLine /\ OneTransaction /\ OfferedIsDirty
    /\ AnswersOK

-----------------------------------------------------------------------------
(* Operators of the model *)

\* The least member of a set of numbers.
LEMMA MinIn ==
    ASSUME NEW S, S \subseteq Nat, S # {}
    PROVE  Min(S) \in S /\ \A y \in S : Min(S) <= y
  <1> DEFINE R == OpToRel(<, Nat)
  <1>1. IsWellFoundedOn(R, Nat)
    BY NatLessThanWellFounded
  <1>2. \A x, y \in Nat : <<y, x>> \in R <=> y < x
    BY DEF OpToRel
  <1> HIDE DEF R
  <1>3. PICK x \in S : \A y \in S : ~(<<y, x>> \in R)
    BY <1>1, WFMin
  <1>4. ASSUME NEW y \in S PROVE x <= y
    <2>1. ~(y < x)
      BY <1>2, <1>3, Zenon
    <2> QED BY <2>1
  <1> QED BY <1>4 DEF Min

LEMMA SlotNat == Slot \subseteq Nat /\ TxId \subseteq Nat /\ 0 \in Slot /\ 0 \in TxId
  BY CacheAssumption DEF Slot, TxId

LEMMA ByteNat == Byte \subseteq Nat
  BY CacheAssumption

\* What is sent of an entry that is dirty: some of its bytes that may be sent.
LEMMA TxBytes ==
    ASSUME WBTypeOK, NEW k \in dirty
    PROVE  /\ k \in Slot
           /\ tx_be(k) # {} /\ tx_be(k) \subseteq wbuffer_q[k].dirty
           /\ tx_be(k) \subseteq wbuffer_q[k].valid
           /\ wbuffer_q[k].txblock = {}
  <1>1. k \in Slot /\ bdirty(k) # {}
    BY DEF dirty
  <1>2. wbuffer_q[k].txblock = {} /\ bdirty(k) = wbuffer_q[k].dirty \cap wbuffer_q[k].valid
    BY <1>1 DEF bdirty
  <1>3. bdirty(k) \subseteq Byte
    BY <1>1, <1>2 DEF WBTypeOK, Entry
  <1>4. bdirty(k) \subseteq Nat
    BY <1>3, ByteNat, Zenon
  <1>5. Min(bdirty(k)) \in bdirty(k)
    BY <1>1, <1>4, MinIn
  <1>6. tx_be(k) # {} /\ tx_be(k) \subseteq bdirty(k)
    BY <1>1, <1>5 DEF tx_be
  <1> QED BY <1>1, <1>2, <1>6

\* The bytes a cycle takes out of, sends from and stores into entry k.
Gone(in, k) == IF evict(in) /\ k = rtrn_ptr THEN tx_stat_q[rtrn_id].be ELSE {}
Sent(in, k) == IF dirty_rd_en(in) /\ k = in.dirty_ptr THEN tx_be(k) ELSE {}
Added(in, k) == UNION {s.be : s \in {s \in granted(in) : wr_ptr(s.line) = k}}

\* The inputs of the write buffer.
WBufferInput(in) ==
    /\ \/ in.store = {}
       \/ \E s : in.store = {s} /\ s.line \in Line /\ s.be \subseteq Byte /\ s.nc \in BOOLEAN
    /\ in.dirty_ptr \in dirty_choices
    /\ in.check_ptr \in check_choices
    /\ in.rd_hit_oh \subseteq Way
    /\ in.wr_cl_vld \in BOOLEAN
    /\ \/ in.rtrn = {}
       \/ \E t \in tx_vld : in.rtrn = {t} /\ \A i \in 1 .. Len(rtrn_fifo) : rtrn_fifo[i] # t

\* At most one store is granted, into the entry of its line or a free one.
LEMMA Granted ==
    ASSUME BufferInv, NEW in, WBufferInput(in)
    PROVE  \/ granted(in) = {}
           \/ \E s : /\ granted(in) = {s}
                     /\ s.line \in Line /\ s.be \subseteq Byte /\ s.nc \in BOOLEAN
                     /\ wr_ptr(s.line) \in Slot
                     /\ valid(wr_ptr(s.line)) => wbuffer_q[wr_ptr(s.line)].line = s.line
                     /\ \A k \in Slot : valid(k) /\ wbuffer_q[k].line = s.line
                                              => k = wr_ptr(s.line)
  <1>1. CASE in.store = {}
    BY <1>1 DEF granted
  <1>2. CASE \E s : in.store = {s} /\ s.line \in Line /\ s.be \subseteq Byte /\ s.nc \in BOOLEAN
    <2>1. PICK s : in.store = {s} /\ s.line \in Line /\ s.be \subseteq Byte /\ s.nc \in BOOLEAN
      BY <1>2
    <2>2. CASE s \notin granted(in)
      BY <2>1, <2>2 DEF granted
    <2>3. CASE s \in granted(in)
      <3>1. granted(in) = {s} /\ rdy(s.line)
        BY <2>1, <2>3 DEF granted
      <3> DEFINE H == wbuffer_hit(s.line)
                 F == {k \in Slot : ~valid(k)}
      <3>2. CASE H # {}
        <4>1. H \subseteq Nat
          BY SlotNat DEF wbuffer_hit
        <4>2. Min(H) \in H
          BY <3>2, <4>1, MinIn
        <4>3. wr_ptr(s.line) = Min(H)
          BY <3>2 DEF wr_ptr
        <4>4. /\ wr_ptr(s.line) \in Slot /\ valid(wr_ptr(s.line))
              /\ wbuffer_q[wr_ptr(s.line)].line = s.line
          BY <4>2, <4>3 DEF wbuffer_hit
        <4> QED BY <2>1, <3>1, <4>4 DEF BufferInv, OneEntryPerLine
      <3>3. CASE H = {}
        <4>1. F # {} /\ F \subseteq Nat
          BY <3>1, <3>3, SlotNat DEF rdy, full
        <4>2. Min(F) \in F
          BY <4>1, MinIn
        <4>3. wr_ptr(s.line) = Min(F)
          BY <3>3 DEF wr_ptr
        <4>4. wr_ptr(s.line) \in Slot /\ ~valid(wr_ptr(s.line))
          BY <4>2, <4>3
        <4>5. \A k \in Slot : valid(k) => wbuffer_q[k].line # s.line
          BY <3>3 DEF wbuffer_hit
        <4> QED BY <2>1, <3>1, <4>4, <4>5
      <3> QED BY <3>2, <3>3
    <2> QED BY <2>2, <2>3
  <1> QED BY <1>1, <1>2 DEF WBufferInput

\* A transaction is sent for an entry without one, under an id that is free.
LEMMA SentFacts ==
    ASSUME BufferInv, NEW in, WBufferInput(in), dirty_rd_en(in)
    PROVE  /\ in.dirty_ptr \in dirty /\ in.dirty_ptr \in Slot
           /\ tx_id \in TxId /\ tx_id \notin tx_vld
           /\ wbuffer_q[in.dirty_ptr].txblock = {}
           /\ tx_be(in.dirty_ptr) # {}
           /\ tx_be(in.dirty_ptr) \subseteq wbuffer_q[in.dirty_ptr].dirty
           /\ tx_be(in.dirty_ptr) \subseteq wbuffer_q[in.dirty_ptr].valid
  <1>1. dirty # {} /\ free_tx_slots # {}
    BY DEF dirty_rd_en, miss_req_o
  <1>2. in.dirty_ptr \in dirty
    BY <1>1 DEF WBufferInput, dirty_choices, BufferInv, OfferedIsDirty
  <1>3. free_tx_slots \subseteq Nat
    BY SlotNat DEF free_tx_slots
  <1>4. tx_id \in free_tx_slots
    BY <1>1, <1>3, MinIn DEF tx_id
  <1> QED BY <1>2, <1>4, TxBytes DEF free_tx_slots, BufferInv

\* What leaves the buffer is the transaction of an entry that was checked.
LEMMA EvictFacts ==
    ASSUME BufferInv, NEW in, evict(in)
    PROVE  /\ Len(rtrn_fifo) > 0 /\ rtrn_id = rtrn_fifo[1]
           /\ rtrn_id \in TxId /\ rtrn_id \in tx_vld /\ rtrn_ptr \in Slot
           /\ wbuffer_q[rtrn_ptr].checked
           /\ tx_stat_q[rtrn_id].be = wbuffer_q[rtrn_ptr].txblock
           /\ tx_stat_q[rtrn_id].be # {}
           /\ wr_data_be = wbuffer_q[rtrn_ptr].txblock \ wbuffer_q[rtrn_ptr].dirty
  <1>1. rtrn_fifo # <<>> /\ wbuffer_q[rtrn_ptr].checked
    BY DEF evict, returned
  <1>2. rtrn_fifo \in Seq(TxId)
    BY DEF BufferInv, WBTypeOK
  <1>3. Len(rtrn_fifo) > 0 /\ rtrn_id = rtrn_fifo[1]
    BY <1>1, <1>2 DEF rtrn_id
  <1>4. rtrn_id \in tx_vld
    BY <1>2, <1>3 DEF BufferInv, AnswersOK
  <1>5. rtrn_id \in TxId /\ rtrn_ptr \in Slot
    BY <1>4 DEF tx_vld, rtrn_ptr, BufferInv, WBTypeOK, Tx
  <1>6. /\ tx_stat_q[rtrn_id].be = wbuffer_q[rtrn_ptr].txblock
        /\ tx_stat_q[rtrn_id].be # {}
    BY <1>4 DEF BufferInv, OneTransaction, rtrn_ptr
  <1> QED BY <1>1, <1>3, <1>4, <1>5, <1>6 DEF wr_data_be

\* An entry loses the bytes of its one transaction or sends one, never both.
LEMMA GoneSent ==
    ASSUME BufferInv, NEW in, WBufferInput(in), NEW k \in Slot
    PROVE  /\ Gone(in, k) # {} => /\ evict(in) /\ k = rtrn_ptr
                                  /\ Gone(in, k) = wbuffer_q[k].txblock
                                  /\ Sent(in, k) = {}
           /\ Sent(in, k) # {} => /\ dirty_rd_en(in) /\ k = in.dirty_ptr
                                  /\ wbuffer_q[k].txblock = {}
                                  /\ Sent(in, k) \subseteq wbuffer_q[k].dirty
           /\ evict(in) /\ k = rtrn_ptr => Gone(in, k) # {}
           /\ dirty_rd_en(in) /\ k = in.dirty_ptr => Sent(in, k) # {}
  <1>1. evict(in) /\ k = rtrn_ptr =>
            Gone(in, k) = wbuffer_q[k].txblock /\ wbuffer_q[k].txblock # {}
    BY EvictFacts DEF Gone
  <1>2. dirty_rd_en(in) /\ k = in.dirty_ptr =>
            /\ Sent(in, k) # {} /\ Sent(in, k) \subseteq wbuffer_q[k].dirty
            /\ wbuffer_q[k].txblock = {}
    BY SentFacts DEF Sent
  <1>3. /\ ~(evict(in) /\ k = rtrn_ptr) => Gone(in, k) = {}
        /\ ~(dirty_rd_en(in) /\ k = in.dirty_ptr) => Sent(in, k) = {}
    BY DEF Gone, Sent
  <1> QED BY <1>1, <1>2, <1>3

LEMMA AddedIs ==
    ASSUME BufferInv, NEW in, WBufferInput(in), NEW k \in Slot
    PROVE  /\ granted(in) = {} => Added(in, k) = {}
           /\ \A s : granted(in) = {s} =>
                  Added(in, k) = IF wr_ptr(s.line) = k THEN s.be ELSE {}
  BY DEF Added

\* The registers of entry k after a cycle.
LEMMA EntryStep ==
    ASSUME BufferInv, NEW in, WBufferInput(in), WBStep(in), NEW k \in Slot
    PROVE  LET e == wbuffer_q[k]
               n == wbuffer_q'[k]
           IN  /\ n.valid = (e.valid \ (Gone(in, k) \ e.dirty)) \cup Added(in, k)
               /\ n.dirty = (e.dirty \ Sent(in, k)) \cup Added(in, k)
               /\ n.txblock = (e.txblock \ Gone(in, k)) \cup Sent(in, k)
               /\ n.data = n.valid
               /\ n.valid = {} => n = EmptyEntry
               /\ n.valid # {} /\ e.valid # {} => n.line = e.line
               /\ n.valid # {} /\ e.valid = {} =>
                      \E s : granted(in) = {s} /\ wr_ptr(s.line) = k /\ n.line = s.line
  <1> DEFINE e == wbuffer_q[k]
             n == wbuffer_q'[k]
             gone == Gone(in, k)
             sent == Sent(in, k)
             be == Added(in, k)
             kept == e.valid \ (gone \ e.dirty)
             new == {s \in granted(in) : wr_ptr(s.line) = k}
             newLine == IF new = {} THEN e.line ELSE (CHOOSE s \in new : TRUE).line
             newData == ((e.data \cap kept) \ stored(granted(in), newLine)) \cup be
  <1>1. /\ kept \cup be = {} => n = EmptyEntry
        /\ kept \cup be # {} =>
              /\ n.valid = kept \cup be
              /\ n.dirty = (e.dirty \ sent) \cup be
              /\ n.txblock = (e.txblock \ gone) \cup sent
              /\ n.data = newData
              /\ n.line = newLine
    BY DEF WBStep, entry_d, Gone, Sent, Added
  <1>2. /\ e.valid = e.dirty \cup e.txblock /\ e.data = e.valid
        /\ e.valid = {} => e = EmptyEntry
    BY DEF BufferInv, EntriesOK, EntryOK
  <1>3. /\ gone = {} \/ (gone = e.txblock /\ sent = {})
        /\ sent = {} \/ (e.txblock = {} /\ sent \subseteq e.dirty)
    BY GoneSent
  <1>4. /\ be = {} /\ new = {} /\ granted(in) = {}
        \/ \E s : /\ granted(in) = {s}
                  /\ \/ wr_ptr(s.line) # k /\ be = {} /\ new = {}
                     \/ wr_ptr(s.line) = k /\ be = s.be /\ new = {s}
                  /\ valid(k) /\ e.line = s.line => wr_ptr(s.line) = k
                  /\ valid(k) /\ wr_ptr(s.line) = k => e.line = s.line
    <2>1. CASE granted(in) = {}
      BY <2>1, AddedIs
    <2>2. CASE granted(in) # {}
      <3>1. PICK s : /\ granted(in) = {s}
                     /\ valid(wr_ptr(s.line)) => wbuffer_q[wr_ptr(s.line)].line = s.line
                     /\ \A j \in Slot : valid(j) /\ wbuffer_q[j].line = s.line
                                              => j = wr_ptr(s.line)
        BY <2>2, Granted
      <3>2. be = IF wr_ptr(s.line) = k THEN s.be ELSE {}
        BY <3>1, AddedIs
      <3>3. new = IF wr_ptr(s.line) = k THEN {s} ELSE {}
        BY <3>1
      <3> HIDE DEF be, new
      <3> QED BY <3>1, <3>2, <3>3
    <2> QED BY <2>1, <2>2
  <1> HIDE DEF gone, sent, be, new
  <1>5. kept \cup be # {} => newData = kept \cup be
    <2>1. CASE be = {} /\ new = {} /\ granted(in) = {}
      <3>1. stored(granted(in), newLine) = {}
        BY <2>1 DEF stored
      <3> HIDE DEF newLine
      <3> QED BY <1>2, <3>1
    <2>2. ASSUME NEW s, granted(in) = {s},
                 wr_ptr(s.line) # k, be = {}, new = {}, valid(k) /\ e.line = s.line => wr_ptr(s.line) = k
          PROVE  kept \cup be # {} => newData = kept \cup be
      <3>1. kept \cup be # {} => stored(granted(in), newLine) = {}
        <4>1. kept \cup be # {} => valid(k)
          BY <2>2 DEF valid
        <4>2. newLine = e.line
          BY <2>2
        <4>3. e.line # s.line => stored(granted(in), e.line) = {}
          BY <2>2 DEF stored
        <4> QED BY <2>2, <4>1, <4>2, <4>3
      <3> HIDE DEF newLine
      <3> QED BY <1>2, <3>1
    <2>3. ASSUME NEW s, granted(in) = {s}, be = s.be, new = {s}
          PROVE  newData = kept \cup be
      <3>1. newLine = s.line
        BY <2>3
      <3>2. stored(granted(in), s.line) = s.be
        BY <2>3 DEF stored
      <3>3. stored(granted(in), newLine) = be
        BY <3>1, <3>2, <2>3
      <3> HIDE DEF newLine
      <3> QED BY <1>2, <3>3
    <2> QED BY <1>4, <2>1, <2>2, <2>3
  <1>6. kept \cup be # {} /\ valid(k) => newLine = e.line
    BY <1>4
  <1>7. kept \cup be # {} /\ ~valid(k) =>
            \E s : granted(in) = {s} /\ wr_ptr(s.line) = k /\ newLine = s.line
    <2>1. ~valid(k) => kept = {}
      BY DEF valid
    <2> QED BY <1>4, <2>1
  <1>8. kept \cup be = {} => /\ n.valid = {} /\ n.dirty = {} /\ n.txblock = {} /\ n.data = {}
                             /\ (e.dirty \ sent) \cup be = {} /\ (e.txblock \ gone) \cup sent = {}
    <2>1. kept \cup be = {} => n = EmptyEntry
      BY <1>1
    <2>2. /\ EmptyEntry.valid = {} /\ EmptyEntry.dirty = {} /\ EmptyEntry.txblock = {}
          /\ EmptyEntry.data = {}
      BY DEF EmptyEntry
    <2>3. kept \cup be = {} => e.dirty = {} /\ be = {} /\ e.txblock \subseteq gone
      BY <1>2
    <2>4. kept \cup be = {} => (e.dirty \ sent) \cup be = {} /\ (e.txblock \ gone) \cup sent = {}
      BY <2>3, <1>3
    <2> HIDE DEF n, kept
    <2> QED BY <2>1, <2>2, <2>4
  <1>9. n.valid = kept \cup be /\ n.data = n.valid
    <2> HIDE DEF n, kept, newData
    <2> QED BY <1>1, <1>5, <1>8
  <1>10. n.dirty = (e.dirty \ sent) \cup be /\ n.txblock = (e.txblock \ gone) \cup sent
    <2> HIDE DEF n, kept, newData, e
    <2> QED BY <1>1, <1>8
  <1>11. n.valid = {} => n = EmptyEntry
    <2> HIDE DEF n, kept
    <2> QED BY <1>1, <1>9
  <1>12. n.valid # {} /\ e.valid # {} => n.line = e.line
    <2> HIDE DEF n, kept, newLine
    <2> QED BY <1>1, <1>6, <1>9 DEF valid
  <1>13. n.valid # {} /\ e.valid = {} =>
            \E s : granted(in) = {s} /\ wr_ptr(s.line) = k /\ n.line = s.line
    <2> HIDE DEF n, kept, newLine
    <2> QED BY <1>1, <1>7, <1>9 DEF valid
  <1> QED BY <1>9, <1>10, <1>11, <1>12, <1>13 DEF gone, sent, be

LEMMA EntryType ==
    ASSUME BufferInv, NEW in, WBufferInput(in), NEW k \in Slot
    PROVE  entry_d(in, k) \in Entry
  <1> DEFINE e == wbuffer_q[k]
             result == {c \in check_q1 : c.ptr = k /\ valid(k)}
             new == {s \in granted(in) : wr_ptr(s.line) = k}
             kept == e.valid \ (Gone(in, k) \ e.dirty)
             newLine == IF new = {} THEN e.line ELSE (CHOOSE s \in new : TRUE).line
             newData == ((e.data \cap kept) \ stored(granted(in), newLine)) \cup Added(in, k)
             newChecked == /\ e.checked \/ result # {}
                           /\ ~inval_hit(in, k)
                           /\ new = {}
             newHit == IF result = {} THEN e.hit_oh ELSE (CHOOSE c \in result : TRUE).hit_oh
  <1>1. e \in Entry
    BY DEF BufferInv, WBTypeOK
  <1>2. EmptyEntry \in Entry
    BY DEF EmptyEntry, Entry
  <1>3. Added(in, k) \subseteq Byte
    BY AddedIs, Granted
  <1>4. Sent(in, k) \subseteq Byte
    <2>1. Sent(in, k) \subseteq e.dirty
      BY GoneSent
    <2> QED BY <1>1, <2>1 DEF Entry
  <1>5. newLine \in Line \cup {NoLine}
    <2>1. \A s \in granted(in) : s.line \in Line
      BY Granted
    <2>2. new # {} => (CHOOSE s \in new : TRUE) \in granted(in)
      OBVIOUS
    <2> HIDE DEF new
    <2> QED BY <1>1, <2>1, <2>2 DEF Entry
  <1>6. newHit \subseteq Way
    <2>1. \A c \in check_q1 : c.hit_oh \subseteq Way
      BY DEF BufferInv, WBTypeOK, AtMostOne
    <2>2. result # {} => (CHOOSE c \in result : TRUE) \in check_q1
      OBVIOUS
    <2> HIDE DEF result
    <2> QED BY <1>1, <2>1, <2>2 DEF Entry
  <1>7. newChecked \in BOOLEAN
    BY <1>1 DEF Entry
  <1>8. entry_d(in, k) =
            IF kept \cup Added(in, k) = {} THEN EmptyEntry
            ELSE [line |-> newLine, valid |-> kept \cup Added(in, k),
                  dirty |-> (e.dirty \ Sent(in, k)) \cup Added(in, k),
                  txblock |-> (e.txblock \ Gone(in, k)) \cup Sent(in, k),
                  data |-> newData, checked |-> newChecked, hit_oh |-> newHit]
    BY DEF entry_d, Gone, Sent, Added
  <1>9. /\ kept \cup Added(in, k) \subseteq Byte
        /\ (e.dirty \ Sent(in, k)) \cup Added(in, k) \subseteq Byte
        /\ (e.txblock \ Gone(in, k)) \cup Sent(in, k) \subseteq Byte
    BY <1>1, <1>3, <1>4 DEF Entry
  <1>10. newData \subseteq Byte
    <2> HIDE DEF newLine
    <2> QED BY <1>1, <1>3 DEF Entry
  <1> HIDE DEF e, kept, newLine, newData, newChecked, newHit
  <1> QED BY <1>2, <1>5, <1>6, <1>7, <1>8, <1>9, <1>10 DEF Entry

\* The table of transactions after a cycle.
LEMMA TxStep ==
    ASSUME BufferInv, NEW in, WBufferInput(in), WBStep(in), NEW t \in TxId
    PROVE  /\ dirty_rd_en(in) /\ t = tx_id =>
                 /\ tx_stat_q'[t] = [vld |-> TRUE, ptr |-> in.dirty_ptr,
                                     be |-> tx_be(in.dirty_ptr)]
                 /\ ~(evict(in) /\ t = rtrn_id)
           /\ evict(in) /\ t = rtrn_id =>
                 tx_stat_q'[t] = [vld |-> FALSE, ptr |-> 0, be |-> {}]
           /\ ~(dirty_rd_en(in) /\ t = tx_id) /\ ~(evict(in) /\ t = rtrn_id) =>
                 tx_stat_q'[t] = tx_stat_q[t]
  <1>1. dirty_rd_en(in) /\ t = tx_id => ~(evict(in) /\ t = rtrn_id)
    BY SentFacts, EvictFacts
  <1> QED BY <1>1 DEF WBStep, tx_stat_d

\* The answers that wait after a cycle.
LEMMA FifoStep ==
    ASSUME BufferInv, NEW in, WBufferInput(in), WBStep(in)
    PROVE  /\ rtrn_fifo' \in Seq(TxId)
           /\ \A i \in 1 .. Len(rtrn_fifo)' :
                 \/ \E j \in 1 .. Len(rtrn_fifo) :
                       /\ rtrn_fifo'[i] = rtrn_fifo[j]
                       /\ j = IF evict(in) THEN i + 1 ELSE i
                 \/ i = Len(rtrn_fifo)' /\ in.rtrn = {rtrn_fifo'[i]}
  <1> DEFINE q == IF evict(in) THEN Tail(rtrn_fifo) ELSE rtrn_fifo
             a == IF in.rtrn = {} THEN <<>> ELSE <<Min(in.rtrn)>>
  <1>1. rtrn_fifo \in Seq(TxId)
    BY DEF BufferInv, WBTypeOK
  <1>2. evict(in) => rtrn_fifo # <<>>
    BY DEF evict, returned
  <1>3. /\ q \in Seq(TxId)
        /\ \A i \in 1 .. Len(q) : \E j \in 1 .. Len(rtrn_fifo) :
              q[i] = rtrn_fifo[j] /\ j = IF evict(in) THEN i + 1 ELSE i
    BY <1>1, <1>2
  <1>4. CASE in.rtrn = {}
    <2>1. q \o <<>> = q
      <3> HIDE DEF q
      <3> QED BY <1>3
    <2>2. rtrn_fifo' = q
      BY <1>4, <2>1 DEF WBStep
    <2> HIDE DEF q
    <2> QED BY <1>3, <2>2
  <1>5. CASE in.rtrn # {}
    <2>1. PICK t \in TxId : in.rtrn = {t}
      BY <1>5 DEF WBufferInput, tx_vld
    <2>2. Min({t}) = t
      BY SlotNat, MinIn
    <2>3. rtrn_fifo' = q \o <<t>>
      BY <1>5, <2>1, <2>2 DEF WBStep
    <2> HIDE DEF q
    <2>4. rtrn_fifo' \in Seq(TxId) /\ Len(rtrn_fifo') = Len(q) + 1
      BY <1>3, <2>3
    <2>5. ASSUME NEW i \in 1 .. Len(rtrn_fifo')
          PROVE  (i \in 1 .. Len(q) /\ rtrn_fifo'[i] = q[i])
                  \/ (i = Len(rtrn_fifo') /\ rtrn_fifo'[i] = t)
      BY <1>3, <2>3, <2>4
    <2>6. Len(rtrn_fifo)' = Len(rtrn_fifo')
      OBVIOUS
    <2> QED BY <1>3, <2>1, <2>4, <2>5, <2>6
  <1> QED BY <1>4, <1>5

LEMMA BufferTypes ==
    ASSUME BufferInv, NEW in, WBufferInput(in), WBStep(in)
    PROVE  WBTypeOK'
  <1>1. wbuffer_q' \in [Slot -> Entry]
    BY EntryType DEF WBStep
  <1>2. tx_stat_q' \in [TxId -> Tx]
    <2>1. ASSUME NEW t \in TxId PROVE tx_stat_q'[t] \in Tx
      <3>1. dirty_rd_en(in) => [vld |-> TRUE, ptr |-> in.dirty_ptr, be |-> tx_be(in.dirty_ptr)] \in Tx
        <4>1. dirty_rd_en(in) => in.dirty_ptr \in Slot /\ tx_be(in.dirty_ptr) \subseteq Byte
          BY SentFacts DEF BufferInv, WBTypeOK, Entry
        <4> QED BY <4>1 DEF Tx
      <3>2. [vld |-> FALSE, ptr |-> 0, be |-> {}] \in Tx
        BY SlotNat DEF Tx
      <3>3. tx_stat_q[t] \in Tx
        BY DEF BufferInv, WBTypeOK
      <3> QED BY <3>1, <3>2, <3>3, TxStep
    <2>2. tx_stat_q' = [t \in TxId |-> tx_stat_q'[t]]
      BY DEF WBStep, tx_stat_d
    <2> QED BY <2>1, <2>2
  <1>3. rtrn_fifo' \in Seq(TxId)
    BY FifoStep
  <1>4. check_q' \in AtMostOne([ptr: Slot, tag: Line])
    <2>1. CASE tocheck # {}
      <3>1. in.check_ptr \in Slot /\ valid(in.check_ptr)
        BY <2>1 DEF WBufferInput, check_choices, tocheck
      <3>2. wbuffer_q[in.check_ptr].line \in Line
        BY <3>1 DEF valid, BufferInv, EntriesOK, EntryOK
      <3> QED BY <3>1, <3>2 DEF WBStep, AtMostOne
    <2>2. CASE tocheck = {}
      BY <2>2 DEF WBStep, AtMostOne
    <2> QED BY <2>1, <2>2
  <1>5. check_q1' \in AtMostOne([ptr: Slot, hit_oh: SUBSET Way])
    <2>1. /\ \A c \in check_q : c.ptr \in Slot
          /\ \A c, d \in check_q : c = d
      BY DEF BufferInv, WBTypeOK, AtMostOne
    <2> QED BY <2>1 DEF WBStep, AtMostOne, WBufferInput
  <1>6. wr_cl_vld_q' \in BOOLEAN /\ nc_pending_q' \in BOOLEAN
    BY Granted DEF WBStep, WBufferInput, BufferInv, WBTypeOK
  <1>7. dirty_lock' \in AtMostOne(Slot)
    <2>1. dirty # {} => in.dirty_ptr \in Slot
      BY DEF WBufferInput, dirty_choices, BufferInv, OfferedIsDirty, dirty
    <2> QED BY <2>1 DEF WBStep, AtMostOne
  <1> QED BY <1>1, <1>2, <1>3, <1>4, <1>5, <1>6, <1>7 DEF WBTypeOK

LEMMA BufferEntries ==
    ASSUME BufferInv, NEW in, WBufferInput(in), WBStep(in)
    PROVE  EntriesOK'
  <1> SUFFICES ASSUME NEW k \in Slot PROVE EntryOK(wbuffer_q[k])'
    BY DEF EntriesOK
  <1> DEFINE e == wbuffer_q[k]
             n == wbuffer_q'[k]
  <1>1. /\ n.valid = (e.valid \ (Gone(in, k) \ e.dirty)) \cup Added(in, k)
        /\ n.dirty = (e.dirty \ Sent(in, k)) \cup Added(in, k)
        /\ n.txblock = (e.txblock \ Gone(in, k)) \cup Sent(in, k)
        /\ n.data = n.valid
        /\ n.valid = {} => n = EmptyEntry
        /\ n.valid # {} /\ e.valid # {} => n.line = e.line
        /\ n.valid # {} /\ e.valid = {} =>
               \E s : granted(in) = {s} /\ wr_ptr(s.line) = k /\ n.line = s.line
    BY EntryStep
  <1>2. /\ e.valid = e.dirty \cup e.txblock
        /\ e.valid # {} => e.line \in Line
    BY DEF BufferInv, EntriesOK, EntryOK
  <1>3. /\ Gone(in, k) # {} => Gone(in, k) = e.txblock /\ Sent(in, k) = {}
        /\ Sent(in, k) # {} => Sent(in, k) \subseteq e.dirty
    BY GoneSent
  <1> HIDE DEF e, n
  <1>4. n.valid = n.dirty \cup n.txblock
    BY <1>1, <1>2, <1>3
  <1>5. n.valid # {} => n.line \in Line
    BY <1>1, <1>2, Granted
  <1> QED BY <1>1, <1>4, <1>5 DEF EntryOK, n, EmptyEntry

\* The line of an entry stays, or is that of the store that is granted.
LEMMA LineStep ==
    ASSUME BufferInv, NEW in, WBufferInput(in), WBStep(in), NEW k \in Slot, valid(k)'
    PROVE  \/ valid(k) /\ wbuffer_q'[k].line = wbuffer_q[k].line
           \/ /\ ~valid(k)
              /\ \E s : granted(in) = {s} /\ wr_ptr(s.line) = k /\ wbuffer_q'[k].line = s.line
  BY EntryStep DEF valid

LEMMA BufferLines ==
    ASSUME BufferInv, NEW in, WBufferInput(in), WBStep(in)
    PROVE  OneEntryPerLine'
  <1> SUFFICES ASSUME NEW j \in Slot, NEW k \in Slot, valid(j)', valid(k)',
                      wbuffer_q'[j].line = wbuffer_q'[k].line
               PROVE  j = k
    BY DEF OneEntryPerLine
  <1>1. ASSUME NEW i \in Slot, NEW s, granted(in) = {s}, valid(i), wbuffer_q[i].line = s.line
        PROVE  i = wr_ptr(s.line)
    BY <1>1, Granted
  <1>2. CASE valid(j) /\ valid(k)
    <2>1. wbuffer_q[j].line = wbuffer_q[k].line
      BY <1>2, LineStep
    <2> QED BY <1>2, <2>1 DEF BufferInv, OneEntryPerLine
  <1>3. CASE valid(j) /\ ~valid(k)
    BY <1>1, <1>3, LineStep
  <1>4. CASE ~valid(j) /\ valid(k)
    BY <1>1, <1>4, LineStep
  <1>5. CASE ~valid(j) /\ ~valid(k)
    BY <1>5, LineStep
  <1> QED BY <1>2, <1>3, <1>4, <1>5

\* A transaction in flight before and after a cycle, and one that is new.
LEMMA TxKept ==
    ASSUME BufferInv, NEW in, WBufferInput(in), WBStep(in), NEW t \in tx_vld'
    PROVE  \/ /\ t \in tx_vld /\ tx_stat_q'[t] = tx_stat_q[t]
              /\ tx_stat_q[t].ptr \in Slot
              /\ ~(evict(in) /\ t = rtrn_id)
              /\ Gone(in, tx_stat_q[t].ptr) = {} /\ Sent(in, tx_stat_q[t].ptr) = {}
           \/ /\ dirty_rd_en(in) /\ t = tx_id
              /\ tx_stat_q'[t].ptr = in.dirty_ptr /\ tx_stat_q'[t].be = tx_be(in.dirty_ptr)
              /\ Gone(in, in.dirty_ptr) = {}
  <1>1. t \in TxId /\ tx_stat_q'[t].vld
    BY DEF tx_vld
  <1>2. CASE dirty_rd_en(in) /\ t = tx_id
    <2>1. in.dirty_ptr \in Slot /\ wbuffer_q[in.dirty_ptr].txblock = {}
      BY <1>2, SentFacts
    <2>2. Gone(in, in.dirty_ptr) = {}
      BY <2>1, GoneSent
    <2>3. tx_stat_q'[t] = [vld |-> TRUE, ptr |-> in.dirty_ptr, be |-> tx_be(in.dirty_ptr)]
      BY <1>1, <1>2, TxStep
    <2> QED BY <1>2, <2>2, <2>3
  <1>3. CASE ~(dirty_rd_en(in) /\ t = tx_id)
    <2>1. ~(evict(in) /\ t = rtrn_id)
      <3>1. evict(in) /\ t = rtrn_id => tx_stat_q'[t] = [vld |-> FALSE, ptr |-> 0, be |-> {}]
        BY <1>1, TxStep
      <3>2. tx_stat_q'[t] = [vld |-> FALSE, ptr |-> 0, be |-> {}] => ~tx_stat_q'[t].vld
        OBVIOUS
      <3> QED BY <1>1, <3>1, <3>2
    <2>2. tx_stat_q'[t] = tx_stat_q[t]
      BY <1>1, <1>3, <2>1, TxStep
    <2>3. t \in tx_vld
      BY <1>1, <2>2 DEF tx_vld
    <2> DEFINE k == tx_stat_q[t].ptr
    <2>4. k \in Slot /\ wbuffer_q[k].txblock # {}
      BY <1>1, <2>3 DEF BufferInv, OneTransaction, WBTypeOK, Tx
    <2>5. Sent(in, k) = {}
      BY <2>4, GoneSent
    <2>6. Gone(in, k) = {}
      <3>1. SUFFICES ASSUME Gone(in, k) # {} PROVE FALSE
        OBVIOUS
      <3>2. evict(in) /\ k = rtrn_ptr
        BY <2>4, <3>1, GoneSent
      <3>3. rtrn_id \in tx_vld /\ tx_stat_q[rtrn_id].ptr = k
        BY <3>2, EvictFacts DEF rtrn_ptr
      <3>4. t = rtrn_id
        BY <2>3, <3>3 DEF BufferInv, OneTransaction
      <3> QED BY <2>1, <3>2, <3>4
    <2> QED BY <2>1, <2>2, <2>3, <2>4, <2>5, <2>6
  <1> QED BY <1>2, <1>3

LEMMA BufferTransactions ==
    ASSUME BufferInv, NEW in, WBufferInput(in), WBStep(in)
    PROVE  OneTransaction'
  <1>1. ASSUME NEW k \in Slot
        PROVE  wbuffer_q'[k].txblock = (wbuffer_q[k].txblock \ Gone(in, k)) \cup Sent(in, k)
    BY EntryStep
  <1>2. ASSUME NEW t \in tx_vld'
        PROVE  /\ tx_stat_q'[t].be # {}
               /\ tx_stat_q'[t].be = wbuffer_q'[tx_stat_q'[t].ptr].txblock
    <2>1. CASE dirty_rd_en(in) /\ t = tx_id /\ tx_stat_q'[t].ptr = in.dirty_ptr
                 /\ tx_stat_q'[t].be = tx_be(in.dirty_ptr)
      <3>1. /\ in.dirty_ptr \in Slot /\ wbuffer_q[in.dirty_ptr].txblock = {}
            /\ tx_be(in.dirty_ptr) # {}
        BY <2>1, SentFacts
      <3>2. Sent(in, in.dirty_ptr) = tx_be(in.dirty_ptr)
        BY <2>1 DEF Sent
      <3> QED BY <1>1, <2>1, <3>1, <3>2
    <2>2. CASE /\ t \in tx_vld /\ tx_stat_q'[t] = tx_stat_q[t] /\ tx_stat_q[t].ptr \in Slot
               /\ Gone(in, tx_stat_q[t].ptr) = {} /\ Sent(in, tx_stat_q[t].ptr) = {}
      <3>1. /\ tx_stat_q[t].be # {}
            /\ tx_stat_q[t].be = wbuffer_q[tx_stat_q[t].ptr].txblock
        BY <2>2 DEF BufferInv, OneTransaction
      <3> QED BY <1>1, <2>2, <3>1
    <2> QED BY <2>1, <2>2, TxKept
  <1>3. ASSUME NEW t \in tx_vld', NEW u \in tx_vld', tx_stat_q'[t].ptr = tx_stat_q'[u].ptr
        PROVE  t = u
    <2>1. \A x \in tx_vld : wbuffer_q[tx_stat_q[x].ptr].txblock # {}
      BY DEF BufferInv, OneTransaction
    <2>2. dirty_rd_en(in) => wbuffer_q[in.dirty_ptr].txblock = {}
      BY SentFacts
    <2>3. \A x \in {t, u} :
             \/ x \in tx_vld /\ tx_stat_q'[x] = tx_stat_q[x]
             \/ dirty_rd_en(in) /\ x = tx_id /\ tx_stat_q'[x].ptr = in.dirty_ptr
      BY TxKept
    <2> QED BY <1>3, <2>1, <2>2, <2>3 DEF BufferInv, OneTransaction
  <1>4. ASSUME NEW k \in Slot, wbuffer_q'[k].txblock # {}
        PROVE  \E t \in tx_vld' : tx_stat_q'[t].ptr = k
    <2>1. CASE Sent(in, k) # {}
      <3>1. dirty_rd_en(in) /\ k = in.dirty_ptr
        BY <2>1, GoneSent
      <3>2. tx_id \in TxId
        BY <3>1, SentFacts
      <3>3. tx_stat_q'[tx_id] = [vld |-> TRUE, ptr |-> k, be |-> tx_be(k)]
        BY <3>1, <3>2, TxStep
      <3>4. tx_id \in tx_vld'
        BY <3>2, <3>3 DEF tx_vld
      <3> QED BY <3>3, <3>4
    <2>2. CASE Sent(in, k) = {}
      <3>1. wbuffer_q[k].txblock # {} /\ Gone(in, k) = {}
        BY <1>1, <1>4, <2>2, GoneSent
      <3>2. PICK t \in tx_vld : tx_stat_q[t].ptr = k
        BY <3>1 DEF BufferInv, OneTransaction
      <3>3. t \in TxId
        BY DEF tx_vld
      <3>4. ~(evict(in) /\ t = rtrn_id)
        BY <3>1, <3>2, GoneSent DEF rtrn_ptr
      <3>5. ~(dirty_rd_en(in) /\ t = tx_id)
        BY SentFacts
      <3>6. tx_stat_q'[t] = tx_stat_q[t]
        BY <3>3, <3>4, <3>5, TxStep
      <3>7. t \in tx_vld'
        BY <3>3, <3>6 DEF tx_vld
      <3> QED BY <3>2, <3>6, <3>7
    <2> QED BY <2>1, <2>2
  <1> QED BY <1>2, <1>3, <1>4 DEF OneTransaction

LEMMA BufferOffer ==
    ASSUME BufferInv, NEW in, WBufferInput(in), WBStep(in)
    PROVE  OfferedIsDirty'
  <1> SUFFICES ASSUME NEW k \in dirty_lock' PROVE k \in dirty'
    BY DEF OfferedIsDirty
  <1>1. dirty # {} /\ ~dirty_rd_en(in) /\ k = in.dirty_ptr
    BY DEF WBStep
  <1>2. k \in dirty
    BY <1>1 DEF WBufferInput, dirty_choices, BufferInv, OfferedIsDirty
  <1>3. k \in Slot /\ wbuffer_q[k].txblock = {} /\ wbuffer_q[k].dirty # {}
    BY <1>2, TxBytes DEF BufferInv
  <1>4. Gone(in, k) = {} /\ Sent(in, k) = {}
    BY <1>1, <1>3, GoneSent
  <1>5. wbuffer_q'[k].txblock = {} /\ wbuffer_q'[k].dirty # {}
    BY <1>3, <1>4, EntryStep
  <1>6. wbuffer_q'[k].dirty \subseteq wbuffer_q'[k].valid
    BY <1>3, BufferEntries DEF EntriesOK, EntryOK
  <1> QED BY <1>3, <1>5, <1>6 DEF dirty, bdirty

LEMMA BufferAnswers ==
    ASSUME BufferInv, NEW in, WBufferInput(in), WBStep(in)
    PROVE  AnswersOK'
  <1>0. rtrn_fifo \in Seq(TxId)
    BY DEF BufferInv, WBTypeOK
  <1>1. ASSUME NEW t \in tx_vld, ~(evict(in) /\ t = rtrn_id)
        PROVE  t \in tx_vld'
    <2>1. t \in TxId /\ ~(dirty_rd_en(in) /\ t = tx_id)
      BY SentFacts DEF tx_vld
    <2>2. tx_stat_q'[t] = tx_stat_q[t]
      BY <1>1, <2>1, TxStep
    <2> QED BY <2>1, <2>2 DEF tx_vld
  <1>2. evict(in) => /\ rtrn_id = rtrn_fifo[1] /\ 1 \in 1 .. Len(rtrn_fifo)
    BY <1>0, EvictFacts
  <1>3. /\ \A i \in 1 .. Len(rtrn_fifo) : rtrn_fifo[i] \in tx_vld
        /\ \A i, j \in 1 .. Len(rtrn_fifo) : rtrn_fifo[i] = rtrn_fifo[j] => i = j
    BY DEF BufferInv, AnswersOK
  <1>4. \A t : in.rtrn = {t} => t \in tx_vld /\ \A i \in 1 .. Len(rtrn_fifo) : rtrn_fifo[i] # t
    BY DEF WBufferInput
  <1>5. ASSUME NEW i \in 1 .. Len(rtrn_fifo')
        PROVE  \/ \E j \in 1 .. Len(rtrn_fifo) :
                     /\ rtrn_fifo'[i] = rtrn_fifo[j]
                     /\ j = IF evict(in) THEN i + 1 ELSE i
               \/ i = Len(rtrn_fifo') /\ in.rtrn = {rtrn_fifo'[i]}
    BY FifoStep
  <1>6. Len(rtrn_fifo') \in Nat
    BY FifoStep
  <1>7. ASSUME NEW i \in 1 .. Len(rtrn_fifo') PROVE rtrn_fifo'[i] \in tx_vld'
    <2>1. CASE in.rtrn = {rtrn_fifo'[i]}
      BY <2>1, <1>1, <1>2, <1>4
    <2>2. ASSUME NEW j \in 1 .. Len(rtrn_fifo), rtrn_fifo'[i] = rtrn_fifo[j],
                 j = IF evict(in) THEN i + 1 ELSE i
          PROVE  rtrn_fifo'[i] \in tx_vld'
      <3>1. evict(in) => j # 1
        BY <2>2, <1>6
      <3>2. ~(evict(in) /\ rtrn_fifo[j] = rtrn_id)
        BY <3>1, <1>2, <1>3
      <3> QED BY <2>2, <3>2, <1>1, <1>3
    <2> QED BY <2>1, <2>2, <1>5
  <1>8. ASSUME NEW i \in 1 .. Len(rtrn_fifo'), NEW j \in 1 .. Len(rtrn_fifo'),
               rtrn_fifo'[i] = rtrn_fifo'[j]
        PROVE  i = j
    <2>1. CASE in.rtrn = {rtrn_fifo'[i]}
      <3>1. \A k \in 1 .. Len(rtrn_fifo) : rtrn_fifo[k] # rtrn_fifo'[i]
        BY <2>1, <1>4
      <3>2. i = Len(rtrn_fifo') /\ j = Len(rtrn_fifo')
        BY <3>1, <1>5, <1>8
      <3> QED BY <3>2
    <2>2. CASE in.rtrn # {rtrn_fifo'[i]}
      <3>1. PICK k \in 1 .. Len(rtrn_fifo) :
              rtrn_fifo'[i] = rtrn_fifo[k] /\ k = IF evict(in) THEN i + 1 ELSE i
        BY <2>2, <1>5
      <3>2. PICK m \in 1 .. Len(rtrn_fifo) :
              rtrn_fifo'[j] = rtrn_fifo[m] /\ m = IF evict(in) THEN j + 1 ELSE j
        BY <2>2, <1>5, <1>8
      <3>3. k = m
        BY <3>1, <3>2, <1>3, <1>8
      <3> QED BY <3>1, <3>2, <3>3, <1>6
    <2> QED BY <2>1, <2>2
  <1> QED BY <1>7, <1>8 DEF AnswersOK

\* The write buffer keeps its invariant.
LEMMA BufferStep ==
    ASSUME BufferInv, NEW in, WBufferInput(in), WBStep(in)
    PROVE  BufferInv'
  BY BufferTypes, BufferEntries, BufferLines, BufferTransactions, BufferOffer,
     BufferAnswers DEF BufferInv

-----------------------------------------------------------------------------
(* The bytes of the buffer *)

\* A byte leaves the buffer only with the transaction that carried it, and
\* only when it was not stored again.
LEMMA BufferedStep ==
    ASSUME BufferInv, NEW in, WBufferInput(in), WBStep(in), NEW l, NEW b,
           Buffered(l, b), ~Buffered(l, b)'
    PROVE  evict(in) /\ wbuffer_q[rtrn_ptr].line = l /\ b \in wr_data_be
  <1>1. PICK k \in Slot : wbuffer_q[k].line = l /\ b \in wbuffer_q[k].valid
    BY DEF Buffered
  <1> DEFINE e == wbuffer_q[k]
             n == wbuffer_q'[k]
  <1>2. /\ n.valid = (e.valid \ (Gone(in, k) \ e.dirty)) \cup Added(in, k)
        /\ n.valid # {} /\ e.valid # {} => n.line = e.line
    BY EntryStep
  <1>3. b \notin n.valid
    <2>1. b \in n.valid => n.line = l
      BY <1>1, <1>2
    <2> QED BY <2>1 DEF Buffered
  <1>4. b \in Gone(in, k) /\ b \notin e.dirty
    BY <1>1, <1>2, <1>3
  <1>5. evict(in) /\ k = rtrn_ptr
    BY <1>4, GoneSent
  <1>6. wr_data_be = wbuffer_q[k].txblock \ wbuffer_q[k].dirty
    BY <1>5, EvictFacts
  <1>7. Gone(in, k) = wbuffer_q[k].txblock
    BY <1>4, GoneSent
  <1> QED BY <1>1, <1>4, <1>5, <1>6, <1>7

\* A byte that is stored is in the buffer, and dirty, after the cycle.
LEMMA StoredStep ==
    ASSUME BufferInv, NEW in, WBufferInput(in), WBStep(in), NEW l, NEW b,
           b \in stored(granted(in), l)
    PROVE  /\ b \in Byte
           /\ Buffered(l, b)'
           /\ \A k \in Slot : valid(k) /\ wbuffer_q[k].line = l => b \in wbuffer_q'[k].dirty
  <1>1. granted(in) # {}
    BY DEF stored
  <1>2. PICK s : /\ granted(in) = {s}
                 /\ s.be \subseteq Byte
                 /\ wr_ptr(s.line) \in Slot
                 /\ valid(wr_ptr(s.line)) => wbuffer_q[wr_ptr(s.line)].line = s.line
                 /\ \A k \in Slot : valid(k) /\ wbuffer_q[k].line = s.line => k = wr_ptr(s.line)
    BY <1>1, Granted
  <1>3. s.line = l /\ b \in s.be
    BY <1>2 DEF stored
  <1> DEFINE k == wr_ptr(l)
  <1>4. k \in Slot /\ Added(in, k) = s.be
    BY <1>2, <1>3, AddedIs
  <1>5. b \in wbuffer_q'[k].dirty /\ b \in wbuffer_q'[k].valid
    BY <1>3, <1>4, EntryStep
  <1>6. wbuffer_q'[k].line = l
    <2>1. /\ wbuffer_q[k].valid # {} => wbuffer_q'[k].line = wbuffer_q[k].line
          /\ wbuffer_q[k].valid = {} =>
                \E u : granted(in) = {u} /\ wr_ptr(u.line) = k /\ wbuffer_q'[k].line = u.line
      BY <1>4, <1>5, EntryStep
    <2>2. CASE wbuffer_q[k].valid = {}
      BY <1>2, <1>3, <2>1, <2>2
    <2>3. CASE wbuffer_q[k].valid # {}
      BY <1>2, <1>3, <2>1, <2>3 DEF valid
    <2> QED BY <2>2, <2>3
  <1>7. Buffered(l, b)'
    BY <1>4, <1>5, <1>6 DEF Buffered
  <1> QED BY <1>2, <1>3, <1>5, <1>7

\* An entry whose transaction stays in flight.
LEMMA EntryInFlight ==
    ASSUME BufferInv, NEW in, WBufferInput(in), WBStep(in), NEW t \in tx_vld,
           ~(evict(in) /\ t = rtrn_id)
    PROVE  /\ t \in TxId /\ t \in tx_vld' /\ tx_stat_q'[t] = tx_stat_q[t]
           /\ tx_stat_q[t].ptr \in Slot
           /\ valid(tx_stat_q[t].ptr)
           /\ wbuffer_q[tx_stat_q[t].ptr].line \in Line
           /\ tx_stat_q[t].be \subseteq wbuffer_q[tx_stat_q[t].ptr].valid
           /\ wbuffer_q'[tx_stat_q[t].ptr].line = wbuffer_q[tx_stat_q[t].ptr].line
           /\ wbuffer_q[tx_stat_q[t].ptr].dirty \subseteq wbuffer_q'[tx_stat_q[t].ptr].dirty
  <1> DEFINE k == tx_stat_q[t].ptr
  <1>1. t \in TxId /\ ~(dirty_rd_en(in) /\ t = tx_id)
    BY SentFacts DEF tx_vld
  <1>2. tx_stat_q'[t] = tx_stat_q[t]
    BY <1>1, TxStep
  <1>3. t \in tx_vld'
    BY <1>1, <1>2 DEF tx_vld
  <1>4. Gone(in, k) = {} /\ Sent(in, k) = {}
    <2>1. ~(dirty_rd_en(in) /\ t = tx_id)
      BY <1>1
    <2> QED BY <1>3, <2>1, TxKept
  <1>5. k \in Slot /\ tx_stat_q[t].be # {} /\ tx_stat_q[t].be = wbuffer_q[k].txblock
    BY <1>1 DEF BufferInv, OneTransaction, WBTypeOK, Tx
  <1>6. /\ wbuffer_q[k].valid = wbuffer_q[k].dirty \cup wbuffer_q[k].txblock
        /\ wbuffer_q[k].valid # {} => wbuffer_q[k].line \in Line
    BY <1>5 DEF BufferInv, EntriesOK, EntryOK
  <1>7. /\ wbuffer_q'[k].valid = (wbuffer_q[k].valid \ (Gone(in, k) \ wbuffer_q[k].dirty)) \cup Added(in, k)
        /\ wbuffer_q'[k].dirty = (wbuffer_q[k].dirty \ Sent(in, k)) \cup Added(in, k)
        /\ wbuffer_q'[k].valid # {} /\ wbuffer_q[k].valid # {} => wbuffer_q'[k].line = wbuffer_q[k].line
    BY <1>5, EntryStep
  <1> HIDE DEF k
  <1>8. /\ wbuffer_q[k].valid # {} /\ tx_stat_q[t].be \subseteq wbuffer_q[k].valid
        /\ wbuffer_q'[k].valid # {}
        /\ wbuffer_q[k].dirty \subseteq wbuffer_q'[k].dirty
    BY <1>4, <1>5, <1>6, <1>7
  <1> QED BY <1>1, <1>2, <1>3, <1>5, <1>6, <1>7, <1>8 DEF valid, k

-----------------------------------------------------------------------------
(* The stores in flight and the memory *)

\* A store in flight carries the bytes of its transaction, the last values of
\* those that were not stored again.
FlightOK(s) ==
    /\ s.tid \in tx_vld
    /\ s.line = wbuffer_q[tx_stat_q[s.tid].ptr].line
    /\ s.be = tx_stat_q[s.tid].be
    /\ s.be \ wbuffer_q[tx_stat_q[s.tid].ptr].dirty \subseteq s.data

StoresOK ==
    /\ \A s \in stores : FlightOK(s)
    /\ \A s, u \in stores : s.tid = u.tid => s = u
    /\ \A i \in 1 .. Len(rtrn_fifo) : \A s \in stores : s.tid # rtrn_fifo[i]

\* What was answered is in the memory, unless it was stored again.
AnsweredInMemory ==
    \A i \in 1 .. Len(rtrn_fifo) :
        LET t == tx_stat_q[rtrn_fifo[i]]
        IN  t.be \ wbuffer_q[t.ptr].dirty \subseteq memory[wbuffer_q[t.ptr].line]

MemoryTypes ==
    /\ memory \in [Line -> SUBSET Byte]
    /\ stores \subseteq [tid: TxId, line: Line, be: SUBSET Byte, data: SUBSET Byte]

Survives == \A l \in Line : \A b \in Byte : b \in memory[l] \/ Buffered(l, b)

MemoryInv == MemoryTypes /\ StoresOK /\ AnsweredInMemory /\ Survives

\* What a cycle does to the memory and to the stores in flight.
MemoryStep(mem, arb, wb) ==
    /\ wb.dirty_ptr = arb.dirty_ptr
    /\ wb.rtrn = {s.tid : s \in acked(mem)}
    /\ memory' = memory_d(mem, granted(wb))
    /\ stores' = stores_d(mem, arb, wb, granted(wb))

\* At most one store is answered.
LEMMA AckedOne ==
    ASSUME StoresOK, NEW mem
    PROVE  acked(mem) = {} \/ \E a \in stores : acked(mem) = {a}
  BY DEF StoresOK, acked

LEMMA MemoryIs ==
    ASSUME NEW mem, NEW arb, NEW wb, MemoryStep(mem, arb, wb), NEW l \in Line
    PROVE  /\ acked(mem) = {} => memory'[l] = memory[l] \ stored(granted(wb), l)
           /\ \A a : acked(mem) = {a} =>
                 memory'[l] = (IF a.line = l THEN (memory[l] \ a.be) \cup a.data ELSE memory[l])
                                 \ stored(granted(wb), l)
  <1> DEFINE done == {s \in acked(mem) : s.line = l}
  <1>1. memory'[l] = ((memory[l] \ UNION {s.be : s \in done}) \cup UNION {s.data : s \in done})
                        \ stored(granted(wb), l)
    BY DEF MemoryStep, memory_d
  <1>2. CASE acked(mem) = {}
    <2>1. UNION {s.be : s \in done} = {} /\ UNION {s.data : s \in done} = {}
      BY <1>2
    <2> HIDE DEF done
    <2> QED BY <1>1, <1>2, <2>1
  <1>3. ASSUME NEW a, acked(mem) = {a}
        PROVE  memory'[l] = (IF a.line = l THEN (memory[l] \ a.be) \cup a.data ELSE memory[l])
                               \ stored(granted(wb), l)
    <2>1. CASE a.line = l
      <3>1. UNION {s.be : s \in done} = a.be /\ UNION {s.data : s \in done} = a.data
        BY <1>3, <2>1
      <3> HIDE DEF done
      <3> QED BY <1>1, <2>1, <3>1
    <2>2. CASE a.line # l
      <3>1. UNION {s.be : s \in done} = {} /\ UNION {s.data : s \in done} = {}
        BY <1>3, <2>2
      <3> HIDE DEF done
      <3> QED BY <1>1, <2>2, <3>1
    <2> QED BY <2>1, <2>2
  <1> QED BY <1>2, <1>3

\* A store in flight after a cycle was in flight before, or is the one sent.
LEMMA StoreIs ==
    ASSUME MemoryTypes, NEW mem, NEW arb, NEW wb, MemoryStep(mem, arb, wb), NEW n \in stores'
    PROVE  \/ \E s \in stores \ acked(mem) :
                 /\ n.tid = s.tid /\ n.line = s.line /\ n.be = s.be
                 /\ n.data = s.data \ stored(granted(wb), s.line)
                 /\ n = [s EXCEPT !.data = s.data \ stored(granted(wb), s.line)]
           \/ LET k == wb.dirty_ptr IN
              /\ dirty_rd_en(wb)
              /\ n = [tid |-> tx_id, line |-> wbuffer_q[k].line, be |-> tx_be(k),
                      data |-> (wbuffer_q[k].data \cap tx_be(k))
                                  \ stored(granted(wb), wbuffer_q[k].line)]
  <1> DEFINE k == wb.dirty_ptr
             new == [tid |-> tx_id, line |-> wbuffer_q[k].line, be |-> tx_be(k),
                     data |-> wbuffer_q[k].data \cap tx_be(k)]
             sent == IF dirty_rd_en(wb) THEN {new} ELSE {}
  <1>1. PICK s \in (stores \ acked(mem)) \cup sent :
            n = [s EXCEPT !.data = @ \ stored(granted(wb), s.line)]
    BY DEF MemoryStep, stores_d
  <1>2. CASE s \in stores \ acked(mem)
    <2>1. s \in [tid: TxId, line: Line, be: SUBSET Byte, data: SUBSET Byte]
      BY <1>2 DEF MemoryTypes
    <2>2. /\ n.tid = s.tid /\ n.line = s.line /\ n.be = s.be
          /\ n.data = s.data \ stored(granted(wb), s.line)
      BY <1>1, <2>1
    <2> QED BY <1>1, <1>2, <2>2
  <1>3. CASE s \in sent
    <2>1. dirty_rd_en(wb) /\ s = new
      BY <1>3
    <2> QED BY <1>1, <2>1
  <1> QED BY <1>2, <1>3

\* The answered transaction is that of a store in flight.
LEMMA RtrnIs ==
    ASSUME MemoryInv, NEW mem, NEW arb, NEW wb, MemoryStep(mem, arb, wb)
    PROVE  \/ wb.rtrn = {} /\ acked(mem) = {}
           \/ \E a \in stores : /\ acked(mem) = {a} /\ wb.rtrn = {a.tid}
                                /\ a.tid \in tx_vld
                                /\ \A i \in 1 .. Len(rtrn_fifo) : rtrn_fifo[i] # a.tid
  <1>1. CASE acked(mem) = {}
    BY <1>1 DEF MemoryStep
  <1>2. ASSUME NEW a \in stores, acked(mem) = {a}
        PROVE  /\ wb.rtrn = {a.tid} /\ a.tid \in tx_vld
               /\ \A i \in 1 .. Len(rtrn_fifo) : rtrn_fifo[i] # a.tid
    <2>1. wb.rtrn = {a.tid}
      BY <1>2 DEF MemoryStep
    <2>2. a.tid \in tx_vld /\ \A i \in 1 .. Len(rtrn_fifo) : rtrn_fifo[i] # a.tid
      BY DEF MemoryInv, StoresOK, FlightOK
    <2> QED BY <1>2, <2>1, <2>2
  <1> QED BY <1>1, <1>2, AckedOne DEF MemoryInv

LEMMA RtrnOf ==
    ASSUME MemoryInv, NEW mem, NEW arb, NEW wb, MemoryStep(mem, arb, wb), NEW t, wb.rtrn = {t}
    PROVE  \E a \in stores : acked(mem) = {a} /\ a.tid = t
  <1>1. t \in wb.rtrn
    OBVIOUS
  <1>2. PICK a \in stores : acked(mem) = {a} /\ wb.rtrn = {a.tid}
    BY <1>1, RtrnIs
  <1>3. a.tid = t
    BY <1>1, <1>2
  <1> QED BY <1>2, <1>3

\* What is in flight and not answered stays in flight.
LEMMA FlightKept ==
    ASSUME BufferInv, MemoryInv, NEW in, evict(in), NEW s \in stores
    PROVE  s.tid # rtrn_id
  <1>1. rtrn_id = rtrn_fifo[1] /\ Len(rtrn_fifo) > 0
    BY EvictFacts
  <1>2. Len(rtrn_fifo) \in Nat
    BY DEF BufferInv, WBTypeOK
  <1> QED BY <1>1, <1>2 DEF MemoryInv, StoresOK

LEMMA MemoryTypesStep ==
    ASSUME BufferInv, MemoryInv, NEW mem, NEW arb, NEW wb, MemoryStep(mem, arb, wb),
           WBufferInput(wb), WBStep(wb)
    PROVE  MemoryTypes'
  <1>1. memory' \in [Line -> SUBSET Byte]
    <2>1. ASSUME NEW l \in Line PROVE memory'[l] \subseteq Byte
      <3>1. memory[l] \subseteq Byte
        BY DEF MemoryInv, MemoryTypes
      <3>2. \A a \in stores : a.data \subseteq Byte
        BY DEF MemoryInv, MemoryTypes
      <3>3. CASE acked(mem) = {}
        BY <3>1, <3>3, MemoryIs
      <3>4. ASSUME NEW a \in stores, acked(mem) = {a} PROVE memory'[l] \subseteq Byte
        <4>1. memory'[l] = (IF a.line = l THEN (memory[l] \ a.be) \cup a.data ELSE memory[l])
                              \ stored(granted(wb), l)
          BY <3>4, MemoryIs
        <4> QED BY <3>1, <3>2, <4>1
      <3> QED BY <3>3, <3>4, AckedOne DEF MemoryInv
    <2>2. memory' = [l \in Line |-> memory'[l]]
      BY DEF MemoryStep, memory_d
    <2> QED BY <2>1, <2>2
  <1>2. ASSUME NEW n \in stores'
        PROVE  n \in [tid: TxId, line: Line, be: SUBSET Byte, data: SUBSET Byte]
    <2>1. ASSUME NEW s \in stores, n = [s EXCEPT !.data = s.data \ stored(granted(wb), s.line)]
          PROVE  n \in [tid: TxId, line: Line, be: SUBSET Byte, data: SUBSET Byte]
      <3>1. s \in [tid: TxId, line: Line, be: SUBSET Byte, data: SUBSET Byte]
        BY DEF MemoryInv, MemoryTypes
      <3> QED BY <2>1, <3>1
    <2>2. CASE LET k == wb.dirty_ptr IN
               /\ dirty_rd_en(wb)
               /\ n = [tid |-> tx_id, line |-> wbuffer_q[k].line, be |-> tx_be(k),
                       data |-> (wbuffer_q[k].data \cap tx_be(k))
                                   \ stored(granted(wb), wbuffer_q[k].line)]
      <3> DEFINE k == wb.dirty_ptr
      <3>1. /\ k \in Slot /\ tx_id \in TxId
            /\ tx_be(k) # {} /\ tx_be(k) \subseteq wbuffer_q[k].valid
        BY <2>2, SentFacts
      <3>2. /\ wbuffer_q[k].line \in Line
        BY <3>1 DEF BufferInv, EntriesOK, EntryOK
      <3>3. tx_be(k) \subseteq Byte
        BY <3>1 DEF BufferInv, WBTypeOK, Entry
      <3> QED BY <2>2, <3>1, <3>2, <3>3
    <2>3. MemoryTypes
      BY DEF MemoryInv
    <2> QED BY <2>1, <2>2, <2>3, StoreIs
  <1> QED BY <1>1, <1>2 DEF MemoryTypes

LEMMA StoresStep ==
    ASSUME BufferInv, MemoryInv, NEW mem, NEW arb, NEW wb, MemoryStep(mem, arb, wb),
           WBufferInput(wb), WBStep(wb)
    PROVE  StoresOK'
  <1> DEFINE k == wb.dirty_ptr
             OldStore(n, s) == /\ n.tid = s.tid /\ n.line = s.line /\ n.be = s.be
                               /\ n.data = s.data \ stored(granted(wb), s.line)
                               /\ n = [s EXCEPT !.data = s.data \ stored(granted(wb), s.line)]
             NewStore(n) == /\ dirty_rd_en(wb)
                            /\ n = [tid |-> tx_id, line |-> wbuffer_q[k].line, be |-> tx_be(k),
                                    data |-> (wbuffer_q[k].data \cap tx_be(k))
                                                \ stored(granted(wb), wbuffer_q[k].line)]
  <1>1. ASSUME NEW n \in stores'
        PROVE  (\E s \in stores \ acked(mem) : OldStore(n, s)) \/ NewStore(n)
    BY StoreIs DEF MemoryInv
  <1>2. ASSUME NEW n \in stores', NEW s \in stores, OldStore(n, s) PROVE FlightOK(n)'
    <2> DEFINE t == s.tid
               e == wbuffer_q[tx_stat_q[t].ptr]
               f == wbuffer_q'[tx_stat_q[t].ptr]
    <2>1. /\ t \in tx_vld /\ s.line = e.line /\ s.be = tx_stat_q[t].be
          /\ s.be \ e.dirty \subseteq s.data
      BY DEF MemoryInv, StoresOK, FlightOK
    <2>2. ~(evict(wb) /\ t = rtrn_id)
      BY FlightKept
    <2>3. /\ t \in tx_vld' /\ tx_stat_q'[t] = tx_stat_q[t]
          /\ tx_stat_q[t].ptr \in Slot /\ valid(tx_stat_q[t].ptr)
          /\ f.line = e.line /\ e.dirty \subseteq f.dirty
      BY <2>1, <2>2, EntryInFlight
    <2>4. stored(granted(wb), s.line) \subseteq f.dirty
      BY <2>1, <2>3, StoredStep
    <2>5. n.be \ f.dirty \subseteq n.data
      <3> HIDE DEF e, f
      <3> QED BY <1>2, <2>1, <2>3, <2>4
    <2>6. n.tid = t /\ n.line = s.line /\ n.be = s.be
      BY <1>2
    <2> QED BY <2>1, <2>3, <2>5, <2>6 DEF FlightOK
  <1>3. ASSUME NEW n \in stores', NewStore(n) PROVE FlightOK(n)'
    <2> DEFINE e == wbuffer_q[k]
               f == wbuffer_q'[k]
    <2>1. /\ k \in Slot /\ tx_id \in TxId /\ tx_be(k) # {}
          /\ tx_be(k) \subseteq e.valid
      BY <1>3, SentFacts
    <2>2. tx_stat_q'[tx_id] = [vld |-> TRUE, ptr |-> k, be |-> tx_be(k)]
      BY <1>3, <2>1, TxStep
    <2>3. tx_id \in tx_vld'
      BY <2>1, <2>2 DEF tx_vld
    <2>4. e.data = e.valid
      BY <2>1 DEF BufferInv, EntriesOK, EntryOK
    <2>5. Sent(wb, k) = tx_be(k)
      BY <1>3 DEF Sent
    <2>6. f.txblock # {} /\ f.valid = f.dirty \cup f.txblock
      <3>1. f.txblock # {}
        BY <2>1, <2>5, EntryStep
      <3>2. f.valid = f.dirty \cup f.txblock
        BY <2>1, BufferEntries DEF EntriesOK, EntryOK
      <3> QED BY <3>1, <3>2
    <2>7. f.line = e.line
      <3>1. f.valid # {} /\ e.valid # {}
        BY <2>1, <2>6
      <3> QED BY <2>1, <3>1, EntryStep
    <2>8. stored(granted(wb), e.line) \subseteq f.dirty
      <3>1. valid(k)
        BY <2>1 DEF valid
      <3> QED BY <2>1, <3>1, StoredStep
    <2>9. /\ n.tid = tx_id /\ n.line = e.line /\ n.be = tx_be(k)
          /\ n.data = (e.data \cap tx_be(k)) \ stored(granted(wb), e.line)
      BY <1>3
    <2> HIDE DEF e, f, k
    <2>10. n.be \ f.dirty \subseteq n.data
      BY <2>1, <2>4, <2>8, <2>9
    <2> QED BY <2>2, <2>3, <2>7, <2>9, <2>10 DEF FlightOK, f
  <1>4. \A n \in stores' : FlightOK(n)'
    BY <1>1, <1>2, <1>3
  <1>5. \A s \in stores : s.tid \in tx_vld
    BY DEF MemoryInv, StoresOK, FlightOK
  <1>6. \A n : NewStore(n) => n.tid = tx_id /\ tx_id \notin tx_vld
    BY SentFacts
  <1>7. \A s, u \in stores : s.tid = u.tid => s = u
    BY DEF MemoryInv, StoresOK
  <1>8. ASSUME NEW m \in stores', NEW n \in stores', m.tid = n.tid PROVE m = n
    <2>1. CASE NewStore(m) /\ NewStore(n)
      BY <2>1
    <2>2. CASE NewStore(m) /\ \E s \in stores : OldStore(n, s)
      <3>1. PICK s \in stores : OldStore(n, s)
        BY <2>2
      <3>2. m.tid = tx_id /\ tx_id \notin tx_vld
        BY <2>2, <1>6
      <3>3. n.tid = s.tid /\ s.tid \in tx_vld
        BY <3>1, <1>5
      <3> QED BY <3>2, <3>3, <1>8
    <2>3. CASE NewStore(n) /\ \E s \in stores : OldStore(m, s)
      <3>1. PICK s \in stores : OldStore(m, s)
        BY <2>3
      <3>2. n.tid = tx_id /\ tx_id \notin tx_vld
        BY <2>3, <1>6
      <3>3. m.tid = s.tid /\ s.tid \in tx_vld
        BY <3>1, <1>5
      <3> QED BY <3>2, <3>3, <1>8
    <2>4. CASE (\E s \in stores : OldStore(m, s)) /\ (\E s \in stores : OldStore(n, s))
      <3>1. PICK s \in stores : OldStore(m, s)
        BY <2>4
      <3>2. PICK u \in stores : OldStore(n, u)
        BY <2>4
      <3>3. m.tid = s.tid /\ n.tid = u.tid
        BY <3>1, <3>2
      <3>4. s = u
        BY <3>3, <1>7, <1>8
      <3> QED BY <3>1, <3>2, <3>4
    <2> HIDE DEF OldStore, NewStore
    <2> QED BY <2>1, <2>2, <2>3, <2>4, <1>1
  <1>9. ASSUME NEW i \in 1 .. Len(rtrn_fifo'), NEW n \in stores' PROVE n.tid # rtrn_fifo'[i]
    <2> DEFINE t == rtrn_fifo'[i]
    <2>1. \/ \E j \in 1 .. Len(rtrn_fifo) : t = rtrn_fifo[j]
          \/ wb.rtrn = {t}
      BY FifoStep
    <2>2. t \in tx_vld
      BY <2>1 DEF BufferInv, AnswersOK, WBufferInput
    <2>3. CASE NewStore(n)
      BY <2>2, <2>3, <1>6
    <2>4. ASSUME NEW s \in stores \ acked(mem), OldStore(n, s) PROVE n.tid # t
      <3>1. n.tid = s.tid
        BY <2>4
      <3>2. (\E j \in 1 .. Len(rtrn_fifo) : t = rtrn_fifo[j]) => s.tid # t
        BY DEF MemoryInv, StoresOK
      <3>4. t \in wb.rtrn => s.tid # t
        <4>1. SUFFICES ASSUME t \in wb.rtrn PROVE s.tid # t
          OBVIOUS
        <4>2. PICK a \in stores : acked(mem) = {a} /\ wb.rtrn = {a.tid}
          BY <4>1, RtrnIs
        <4>3. t = a.tid /\ s # a
          BY <4>1, <4>2, <2>4
        <4> QED BY <4>3, <1>7
      <3> QED BY <2>1, <3>1, <3>2, <3>4
    <2> HIDE DEF OldStore, NewStore
    <2> QED BY <1>1, <2>3, <2>4
  <1> QED BY <1>4, <1>8, <1>9 DEF StoresOK

\* A store in flight and another transaction never belong to the same line.
LEMMA OneFlightPerLine ==
    ASSUME BufferInv, MemoryInv, NEW a \in stores, NEW t \in tx_vld,
           a.line = wbuffer_q[tx_stat_q[t].ptr].line
    PROVE  a.tid = t
  <1>1. a.tid \in tx_vld /\ a.line = wbuffer_q[tx_stat_q[a.tid].ptr].line
    BY DEF MemoryInv, StoresOK, FlightOK
  <1>2. ASSUME NEW u \in tx_vld PROVE tx_stat_q[u].ptr \in Slot /\ valid(tx_stat_q[u].ptr)
    <2>1. tx_stat_q[u].ptr \in Slot
      BY DEF tx_vld, BufferInv, WBTypeOK, Tx
    <2>2. wbuffer_q[tx_stat_q[u].ptr].txblock # {}
      BY DEF BufferInv, OneTransaction
    <2> QED BY <2>1, <2>2 DEF valid, BufferInv, EntriesOK, EntryOK
  <1>3. tx_stat_q[a.tid].ptr = tx_stat_q[t].ptr
    BY <1>1, <1>2 DEF BufferInv, OneEntryPerLine
  <1> QED BY <1>1, <1>3 DEF BufferInv, OneTransaction

LEMMA AnsweredStep ==
    ASSUME BufferInv, MemoryInv, NEW mem, NEW arb, NEW wb, MemoryStep(mem, arb, wb),
           WBufferInput(wb), WBStep(wb)
    PROVE  AnsweredInMemory'
  <1> SUFFICES ASSUME NEW i \in 1 .. Len(rtrn_fifo')
               PROVE  tx_stat_q'[rtrn_fifo'[i]].be
                        \ wbuffer_q'[tx_stat_q'[rtrn_fifo'[i]].ptr].dirty
                          \subseteq memory'[wbuffer_q'[tx_stat_q'[rtrn_fifo'[i]].ptr].line]
    BY DEF AnsweredInMemory
  <1> DEFINE t == rtrn_fifo'[i]
             k == tx_stat_q[t].ptr
             e == wbuffer_q[k]
             f == wbuffer_q'[k]
             be == tx_stat_q[t].be
  <1>1. \/ \E j \in 1 .. Len(rtrn_fifo) : t = rtrn_fifo[j] /\ (j = IF evict(wb) THEN i + 1 ELSE i)
        \/ wb.rtrn = {t}
    BY FifoStep
  <1>2. t \in tx_vld
    BY <1>1 DEF BufferInv, AnswersOK, WBufferInput
  <1>3. ~(evict(wb) /\ t = rtrn_id)
    <2>1. SUFFICES ASSUME evict(wb), t = rtrn_id PROVE FALSE
      OBVIOUS
    <2>2. t = rtrn_fifo[1] /\ 1 \in 1 .. Len(rtrn_fifo)
      BY <2>1, EvictFacts DEF BufferInv, WBTypeOK
    <2>3. wb.rtrn # {t}
      BY <2>2 DEF WBufferInput
    <2>4. PICK j \in 1 .. Len(rtrn_fifo) : t = rtrn_fifo[j] /\ j = i + 1
      BY <1>1, <2>1, <2>3
    <2>5. j = 1
      BY <2>2, <2>4 DEF BufferInv, AnswersOK
    <2> QED BY <2>4, <2>5, FifoStep
  <1>4. /\ tx_stat_q'[t] = tx_stat_q[t] /\ k \in Slot /\ valid(k) /\ e.line \in Line
        /\ f.line = e.line /\ e.dirty \subseteq f.dirty
    BY <1>2, <1>3, EntryInFlight
  <1>5. stored(granted(wb), e.line) \subseteq f.dirty
    BY <1>4, StoredStep
  <1>6. ASSUME NEW j \in 1 .. Len(rtrn_fifo), t = rtrn_fifo[j]
        PROVE  be \ f.dirty \subseteq memory'[e.line]
    <2>1. be \ e.dirty \subseteq memory[e.line]
      BY <1>6 DEF MemoryInv, AnsweredInMemory
    <2>2. ASSUME NEW a \in stores, acked(mem) = {a} PROVE a.line # e.line
      <3>1. a.tid # t
        BY <1>6 DEF MemoryInv, StoresOK
      <3> QED BY <1>2, <3>1, OneFlightPerLine
    <2>3. memory'[e.line] = memory[e.line] \ stored(granted(wb), e.line)
      <3>1. PICK l \in Line : l = e.line
        BY <1>4
      <3>2. acked(mem) = {} \/ \E a \in stores : acked(mem) = {a}
        BY AckedOne DEF MemoryInv
      <3>3. /\ acked(mem) = {} => memory'[l] = memory[l] \ stored(granted(wb), l)
            /\ \A a : acked(mem) = {a} /\ a.line # l =>
                  memory'[l] = memory[l] \ stored(granted(wb), l)
        BY MemoryIs
      <3> HIDE DEF e
      <3>4. memory'[l] = memory[l] \ stored(granted(wb), l)
        BY <2>2, <3>1, <3>2, <3>3
      <3> QED BY <3>1, <3>4
    <2> HIDE DEF e, f, be
    <2> QED BY <1>4, <1>5, <2>1, <2>3
  <1>7. CASE wb.rtrn = {t}
    <2>0. wb.rtrn = {t} => \E a \in stores : acked(mem) = {a} /\ a.tid = t
      BY RtrnOf
    <2>1. PICK a \in stores : acked(mem) = {a} /\ a.tid = t
      BY <1>7, <2>0
    <2>2. a.line = e.line /\ a.be = be /\ a.be \ e.dirty \subseteq a.data
      BY <2>1 DEF MemoryInv, StoresOK, FlightOK
    <2>3. memory'[e.line] = ((memory[e.line] \ a.be) \cup a.data) \ stored(granted(wb), e.line)
      <3>1. PICK l \in Line : l = e.line
        BY <1>4
      <3>2. a.line = l => memory'[l] = ((memory[l] \ a.be) \cup a.data) \ stored(granted(wb), l)
        BY <2>1, MemoryIs
      <3> HIDE DEF e
      <3> QED BY <2>2, <3>1, <3>2
    <2>4. be \ f.dirty \subseteq memory'[e.line]
      <3> HIDE DEF e, f, be
      <3> QED BY <1>4, <1>5, <2>2, <2>3
    <2> QED BY <1>4, <2>4
  <1> QED BY <1>1, <1>4, <1>6, <1>7

LEMMA SurvivesStep ==
    ASSUME BufferInv, MemoryInv, NEW mem, NEW arb, NEW wb, MemoryStep(mem, arb, wb),
           WBufferInput(wb), WBStep(wb)
    PROVE  Survives'
  <1> SUFFICES ASSUME NEW l \in Line, NEW b \in Byte, ~Buffered(l, b)'
               PROVE  b \in memory'[l]
    BY DEF Survives
  <1>1. b \notin stored(granted(wb), l)
    BY StoredStep
  <1>2. b \in memory[l]
    <2>1. SUFFICES ASSUME Buffered(l, b) PROVE b \in memory[l]
      BY DEF MemoryInv, Survives
    <2>2. evict(wb) /\ wbuffer_q[rtrn_ptr].line = l /\ b \in wr_data_be
      BY <2>1, BufferedStep
    <2>3. rtrn_id = rtrn_fifo[1] /\ 1 \in 1 .. Len(rtrn_fifo)
      BY <2>2, EvictFacts DEF BufferInv, WBTypeOK
    <2>4. tx_stat_q[rtrn_id].be \ wbuffer_q[rtrn_ptr].dirty \subseteq memory[wbuffer_q[rtrn_ptr].line]
      BY <2>3 DEF MemoryInv, AnsweredInMemory, rtrn_ptr
    <2> QED BY <2>2, <2>4 DEF wr_data_be
  <1>3. CASE acked(mem) = {}
    BY <1>1, <1>2, <1>3, MemoryIs
  <1>4. ASSUME NEW a \in stores, acked(mem) = {a} PROVE b \in memory'[l]
    <2>1. memory'[l] = (IF a.line = l THEN (memory[l] \ a.be) \cup a.data ELSE memory[l])
                          \ stored(granted(wb), l)
      BY <1>4, MemoryIs
    <2>2. a.line = l /\ b \in a.be => b \in a.data
      <3>1. SUFFICES ASSUME a.line = l, b \in a.be, b \notin a.data PROVE FALSE
        OBVIOUS
      <3> DEFINE t == a.tid
                 k == tx_stat_q[t].ptr
      <3>2. t \in tx_vld /\ wbuffer_q[k].line = l /\ b \in wbuffer_q[k].dirty
        BY <3>1 DEF MemoryInv, StoresOK, FlightOK
      <3>3. ~(evict(wb) /\ t = rtrn_id)
        BY FlightKept
      <3>4. /\ k \in Slot /\ wbuffer_q'[k].line = l /\ b \in wbuffer_q'[k].dirty
        BY <3>2, <3>3, EntryInFlight
      <3>5. wbuffer_q'[k].valid = wbuffer_q'[k].dirty \cup wbuffer_q'[k].txblock
        BY <3>4, BufferEntries DEF EntriesOK, EntryOK
      <3>6. Buffered(l, b)'
        BY <3>4, <3>5 DEF Buffered
      <3> QED BY <3>6
    <2> QED BY <1>1, <1>2, <2>1, <2>2
  <1> QED BY <1>3, <1>4, AckedOne DEF MemoryInv

\* Memory and stores in flight keep their invariant.
LEMMA MemoryInvStep ==
    ASSUME BufferInv, MemoryInv, NEW mem, NEW arb, NEW wb, MemoryStep(mem, arb, wb),
           WBufferInput(wb), WBStep(wb)
    PROVE  MemoryInv'
  BY MemoryTypesStep, StoresStep, AnsweredStep, SurvivesStep DEF MemoryInv

-----------------------------------------------------------------------------
(* The wires of a cycle *)

\* The signals between the components in one clock cycle, and what it does.
Wired(core, mem, arb, mu, wr, wb, in, dm) ==
    /\ core \in CoreChoices /\ mem \in MemoryChoices /\ arb \in ArbiterChoices(core.req)
    /\ mu = MissUnitIn(core, mem, arb)
    /\ wr = MemArbitration(arb, mu)
    /\ wb = WBufferIn(core, mem, arb, mu, wr)
    /\ in = [p \in ReadPort |-> DCtrlIn(core, mu, wr, p)]
    /\ dm = DCacheMemIn(mu, wr, granted(wb))
    /\ WBStep(wb) /\ MUStep(mu) /\ DMStep(dm)
    /\ ports' = [p \in ReadPort |-> port_d(in[p], p)]
    /\ rdata' = [p \in ReadPort |-> rdata_d(core, in[p], p)]
    /\ memory' = memory_d(mem, granted(wb))
    /\ stores' = stores_d(mem, arb, wb, granted(wb))
    /\ load' = load_d(mu, granted(wb))
    /\ amo' = IF amo_ack(mu) THEN {} ELSE amo

LEMMA ClockIsWired ==
    ASSUME Clock
    PROVE  \E core, mem, arb, mu, wr, wb, in, dm : Wired(core, mem, arb, mu, wr, wb, in, dm)
  <1>1. PICK core \in CoreChoices, mem \in MemoryChoices : \E arb \in ArbiterChoices(core.req) :
            Cycle(core, mem, arb)
    BY DEF Clock
  <1>2. PICK arb \in ArbiterChoices(core.req) : Cycle(core, mem, arb)
    BY <1>1
  <1> DEFINE mu == MissUnitIn(core, mem, arb)
             wr == MemArbitration(arb, mu)
             wb == WBufferIn(core, mem, arb, mu, wr)
             in == [p \in ReadPort |-> DCtrlIn(core, mu, wr, p)]
             dm == DCacheMemIn(mu, wr, granted(wb))
  <1>3. WBStep(wb) /\ MUStep(mu) /\ DMStep(dm)
    BY <1>2 DEF Cycle
  <1>4. ports' = [p \in ReadPort |-> port_d(in[p], p)]
    BY <1>2 DEF Cycle
  <1>5. rdata' = [p \in ReadPort |-> rdata_d(core, in[p], p)]
    BY <1>2 DEF Cycle
  <1>6. memory' = memory_d(mem, granted(wb)) /\ stores' = stores_d(mem, arb, wb, granted(wb))
    BY <1>2 DEF Cycle
  <1>7. load' = load_d(mu, granted(wb)) /\ amo' = IF amo_ack(mu) THEN {} ELSE amo
    BY <1>2 DEF Cycle
  <1>8. Wired(core, mem, arb, mu, wr, wb, in, dm)
    BY <1>1, <1>2, <1>3, <1>4, <1>5, <1>6, <1>7 DEF Wired
  <1> HIDE DEF mu, wr, wb, in, dm
  <1> QED BY <1>8

CoreWires(core) ==
    /\ core.store = {} \/ \E s : /\ core.store = {s} /\ s.line \in Line
                                 /\ s.be \subseteq Byte /\ s.nc \in BOOLEAN
    /\ amo # {} => core.store = {}
    /\ Reading # {} => core.tag \in Line
    /\ core.tag \in Line \cup {NoLine}
    /\ core.kill \in BOOLEAN

LEMMA CoreIs ==
    ASSUME NEW core \in CoreChoices, enable_q \in BOOLEAN
    PROVE  CoreWires(core)
  <1> DEFINE Tags == IF Reading = {} THEN {NoLine} ELSE Line
             Kills == IF ports[1].state \in {"IDLE", "KILL_MISS", "KILL_MISS_ACK"}
                      THEN {FALSE} ELSE BOOLEAN
             Stores == {{}} \cup
                          (IF left = 0 \/ amo # {} THEN {}
                           ELSE {{s} : s \in StoreChoices})
  <1>0. core \in [req: {R \in SUBSET Accepting : Cardinality(R) <= left},
                  tag: Tags, kill: Kills, store: Stores]
    BY DEF CoreChoices
  <1>1. core.tag \in Tags /\ core.kill \in Kills /\ core.store \in Stores
    <2> HIDE DEF Tags, Kills, Stores
    <2> QED BY <1>0
  <1>2. core.store = {} \/ (amo = {} /\ \E s \in StoreChoices : core.store = {s})
    <2> HIDE DEF Tags, Kills
    <2> QED BY <1>1
  <1>3. ASSUME NEW s \in StoreChoices
        PROVE  s.line \in Line /\ s.be \subseteq Byte /\ s.nc \in BOOLEAN
    <2>1. PICK l \in Line, be \in StoreBytes : s = [line |-> l, be |-> be, nc |-> is_nc(l)]
      BY DEF StoreChoices
    <2>2. is_nc(l) \in BOOLEAN /\ be \subseteq Byte
      BY DCacheAssumption DEF is_nc
    <2> QED BY <2>1, <2>2
  <1>5. core.store = {} \/ \E s : /\ core.store = {s} /\ s.line \in Line
                                  /\ s.be \subseteq Byte /\ s.nc \in BOOLEAN
    BY <1>2, <1>3
  <1>6. /\ Reading # {} => core.tag \in Line
        /\ core.tag \in Line \cup {NoLine}
        /\ core.kill \in BOOLEAN
    <2> HIDE DEF Stores
    <2> QED BY <1>1
  <1>7. amo # {} => core.store = {}
    BY <1>2
  <1> QED BY <1>5, <1>6, <1>7 DEF CoreWires

MissWires(mem, arb, mu) ==
    /\ mu.miss_req = Missing \cup (IF miss_req_o THEN {2} ELSE {})
    /\ mu.line = <<ports[0].tag, ports[1].tag, wbuffer_q[arb.dirty_ptr].line>>
    /\ mu.nc = <<is_nc(ports[0].tag), is_nc(ports[1].tag), nc_pending_q>>
    /\ mu.tx_lines = tx_lines /\ mu.wbuffer_empty = empty_o
    /\ mu.enable_i = enable /\ mu.amo_req = (amo # {})
    /\ mu.repl_way = arb.way /\ mu.mem_ack = mem.ack /\ mu.rtrn = mem.rtrn

BufferWires(core, mem, arb, mu, wr, wb) ==
    /\ wb.store = core.store /\ wb.dirty_ptr = arb.dirty_ptr /\ wb.check_ptr = arb.check_ptr
    /\ wb.miss_ack = miss_ack(mu, 2) /\ wb.rtrn = {s.tid : s \in acked(mem)}
    /\ wb.rd_ack = rd_ack(wr, 2)
    /\ wb.rd_hit_oh = UNION {rd_hit_oh(c.tag) : c \in check_q}
    /\ wb.wr_cl_vld = wr_cl_vld(mu) /\ wb.wr_ack = wr_ack(wr)

CacheWires(arb, mu, wr, wb, dm) ==
    /\ wr.rd_sel = arb.rd_sel /\ wr.wr_cl_vld = wr_cl_vld(mu)
    /\ wr.wr_cl_we = wr_cl_we(mu) /\ wr.wr_req = wr_req_o
    /\ dm.rd_sel = arb.rd_sel /\ dm.wr_cl_vld = wr_cl_vld(mu)
    /\ dm.wr_cl_we = wr_cl_we(mu) /\ dm.wr_vld_bits = wr_vld_bits(mu)
    /\ dm.wr_cl = [tag |-> mshr_q.line, data |-> load]
    /\ dm.wr_req = wr_req_o /\ dm.new = granted(wb)
    /\ dm.wr_data_be = IF wr_req_o = {} THEN {} ELSE wr_data_be
    /\ dm.wr_data = IF wr_req_o = {} THEN {} ELSE wr_data

LEMMA WiresAre ==
    ASSUME NEW core, NEW mem, NEW arb, NEW mu, NEW wr, NEW wb, NEW in, NEW dm,
           Wired(core, mem, arb, mu, wr, wb, in, dm)
    PROVE  /\ MissWires(mem, arb, mu)
           /\ BufferWires(core, mem, arb, mu, wr, wb)
           /\ CacheWires(arb, mu, wr, wb, dm)
           /\ MemoryStep(mem, arb, wb)
  <1>1. MissWires(mem, arb, mu)
    BY DEF Wired, MissWires, MissUnitIn
  <1>2. /\ wr.rd_sel = arb.rd_sel /\ wr.wr_cl_vld = wr_cl_vld(mu)
        /\ wr.wr_cl_we = wr_cl_we(mu) /\ wr.wr_req = wr_req_o
    BY DEF Wired, MemArbitration
  <1>3. BufferWires(core, mem, arb, mu, wr, wb)
    BY <1>2 DEF Wired, BufferWires, WBufferIn
  <1>4. CacheWires(arb, mu, wr, wb, dm)
    BY <1>2 DEF Wired, CacheWires, DCacheMemIn
  <1>5. MemoryStep(mem, arb, wb)
    BY <1>3 DEF Wired, MemoryStep, BufferWires
  <1> QED BY <1>1, <1>3, <1>4, <1>5

-----------------------------------------------------------------------------
(* The memories of the cache *)

\* The read-out of the last cycle shows the tags as they still are.
ReadoutTags == rd_q.port # 3 => \A w \in Way : rd_q.set[w].tag = ways[w].tag

\* A byte of a way, and of a read-out for a port, is the last value unless the
\* write buffer has it.
WaysFresh ==
    state_q # "FLUSH" => \A w \in Way : ways[w].tag # NoLine =>
        \A b \in Byte : b \in ways[w].data \/ Buffered(ways[w].tag, b)
ReadoutFresh ==
    rd_q.port \in ReadPort => \A w \in Way : rd_q.set[w].tag # NoLine =>
        \A b \in Byte : b \in rd_q.set[w].data \/ Buffered(rd_q.set[w].tag, b)

\* The tag reads of the write buffer: the one that is compared in this cycle
\* has the tag of its entry, and the result of the one before is right unless
\* a line was written meanwhile or the entry is gone.
ChecksOK ==
    /\ check_q # {} => rd_q.port = 2
    /\ \A c \in check_q : wbuffer_q[c.ptr].line = c.tag
    /\ \A c \in check_q1 : valid(c.ptr) /\ ~wr_cl_vld_q =>
          c.hit_oh = {w \in Way : ways[w].tag = wbuffer_q[c.ptr].line}

CacheInv ==
    /\ DMTypeOK /\ ReadoutTags /\ WaysFresh /\ ReadoutFresh
    /\ ChecksOK /\ CheckedEntryKnowsItsWays /\ LineInOneWay

\* The read miss in flight: no store of its line is in flight, what it will
\* return is the last value unless the write buffer has it, and no way holds
\* its line if it is to be filled.
MshrOK ==
    mshr_vld_q => /\ mshr_q.line \in Line \ tx_lines
                  /\ \A b \in Byte : b \in load \/ Buffered(mshr_q.line, b)
                  /\ ~mshr_q.nc => \A w \in Way : ways[w].tag # mshr_q.line

\* When a word is written no line is, and no port reads.
LEMMA Arbitration ==
    ASSUME NEW arb, NEW mu, NEW wr, NEW wb, NEW dm, CacheWires(arb, mu, wr, wb, dm)
    PROVE  /\ wr_ack(dm) <=> wr_ack(wr)
           /\ \A p : rd_ack(dm, p) <=> (arb.rd_sel = p /\ ~wr_cl_vld(mu))
           /\ \A p : rd_ack(wr, p) <=> (arb.rd_sel = p /\ ~wr_cl_vld(mu))
           /\ wr_ack(dm) => /\ wr_cl_we(mu) = {} /\ wr_req_o # {}
                            /\ ~wr_cl_vld(mu) => arb.rd_sel \notin ReadPort
           /\ wr_req_o # {} /\ wr_cl_we(mu) = {} /\ ~wr_ack(dm) => arb.rd_sel \in ReadPort
           /\ ~wr_cl_vld(mu) => wr_cl_we(mu) = {}
  BY DEF CacheWires, wr_ack, rd_ack, wr_cl_vld, ReadPort

\* The ways after a cycle: invalidated, filled, or kept.
LEMMA WayEmptied ==
    ASSUME NEW arb, NEW mu, NEW wr, NEW wb, NEW dm,
           CacheWires(arb, mu, wr, wb, dm), DMStep(dm), NEW w \in Way,
           w \in wr_cl_we(mu), w \notin wr_vld_bits(mu)
    PROVE  ways'[w] = EmptyWay
  <1>1. ways'[w] = way_d(dm, w)
    BY DEF DMStep
  <1> QED BY <1>1 DEF way_d, CacheWires

LEMMA WayFilled ==
    ASSUME NEW arb, NEW mu, NEW wr, NEW wb, NEW dm,
           CacheWires(arb, mu, wr, wb, dm), DMStep(dm), NEW w \in Way,
           w \in wr_cl_we(mu), w \in wr_vld_bits(mu)
    PROVE  ways'[w] = [tag |-> mshr_q.line, data |-> load \ stored(granted(wb), mshr_q.line)]
  <1>1. ways'[w] = way_d(dm, w)
    BY DEF DMStep
  <1>2. /\ w \in dm.wr_cl_we /\ w \in dm.wr_vld_bits /\ dm.new = granted(wb)
        /\ dm.wr_cl = [tag |-> mshr_q.line, data |-> load]
    BY DEF CacheWires
  <1>3. ways'[w] = [dm.wr_cl EXCEPT !.data = @ \ stored(dm.new, dm.wr_cl.tag)]
    BY <1>1, <1>2 DEF way_d
  <1>4. dm.wr_cl.tag = mshr_q.line /\ dm.wr_cl.data = load
    BY <1>2
  <1> QED BY <1>2, <1>3, <1>4

LEMMA WayKept ==
    ASSUME NEW arb, NEW mu, NEW wr, NEW wb, NEW dm,
           CacheWires(arb, mu, wr, wb, dm), DMStep(dm), NEW w \in Way,
           w \notin wr_cl_we(mu), ways[w].tag # NoLine
    PROVE  ways'[w] = [tag |-> ways[w].tag,
                       data |-> (IF w \in wr_req_o /\ wr_ack(dm)
                                 THEN (ways[w].data \ wr_data_be) \cup (wr_data \cap wr_data_be)
                                 ELSE ways[w].data) \ stored(granted(wb), ways[w].tag)]
  <1>1. ways'[w] = way_d(dm, w)
    BY DEF DMStep
  <1>2. w \in wr_req_o => dm.wr_data_be = wr_data_be /\ dm.wr_data = wr_data
    BY DEF CacheWires
  <1>3. dm.wr_cl_we = wr_cl_we(mu) /\ dm.wr_req = wr_req_o /\ dm.new = granted(wb)
    BY DEF CacheWires
  <1>4. way_d(dm, w) = [tag |-> ways[w].tag,
                        data |-> (IF w \in dm.wr_req /\ wr_ack(dm)
                                  THEN (ways[w].data \ dm.wr_data_be) \cup (dm.wr_data \cap dm.wr_data_be)
                                  ELSE ways[w].data) \ stored(dm.new, ways[w].tag)]
    BY <1>3 DEF way_d
  <1>5. CASE w \in wr_req_o
    BY <1>1, <1>2, <1>3, <1>4, <1>5
  <1>6. CASE w \notin wr_req_o
    BY <1>1, <1>3, <1>4, <1>6
  <1> QED BY <1>5, <1>6

LEMMA WayUnused ==
    ASSUME NEW arb, NEW mu, NEW wr, NEW wb, NEW dm,
           CacheWires(arb, mu, wr, wb, dm), DMStep(dm), NEW w \in Way,
           w \notin wr_cl_we(mu), ways[w].tag = NoLine
    PROVE  ways'[w] = EmptyWay
  <1>1. ways'[w] = way_d(dm, w)
    BY DEF DMStep
  <1> QED BY <1>1 DEF way_d, CacheWires

\* The read-out after a cycle.
LEMMA ReadoutStep ==
    ASSUME CacheInv, NEW arb, NEW mu, NEW wr, NEW wb, NEW dm,
           CacheWires(arb, mu, wr, wb, dm), DMStep(dm)
    PROVE  \/ rd_q' = NoRead /\ ~(arb.rd_sel \in 0 .. 2 /\ ~wr_cl_vld(mu))
           \/ /\ arb.rd_sel \in 0 .. 2 /\ ~wr_cl_vld(mu)
              /\ rd_q'.port = arb.rd_sel
              /\ rd_q' \in [port: 0 .. 3, set: [Way -> WayState]]
              /\ \A w \in Way :
                    /\ rd_q'.set[w].tag = ways[w].tag
                    /\ arb.rd_sel \in ReadPort /\ ways[w].tag # NoLine =>
                          rd_q'.set[w].data = ways[w].data \ stored(granted(wb), ways[w].tag)
  <1> DEFINE Out(w) == IF dm.rd_sel = 2 \/ ways[w].tag = NoLine
                       THEN [ways[w] EXCEPT !.data = {}]
                       ELSE [ways[w] EXCEPT !.data = @ \ stored(dm.new, ways[w].tag)]
  <1>0. dm.rd_sel = arb.rd_sel /\ dm.new = granted(wb)
    BY DEF CacheWires
  <1>1. (\E p \in 0 .. 2 : rd_ack(dm, p)) <=> arb.rd_sel \in 0 .. 2 /\ ~wr_cl_vld(mu)
    BY Arbitration
  <1>2. CASE ~(\E p \in 0 .. 2 : rd_ack(dm, p))
    BY <1>1, <1>2 DEF DMStep
  <1>3. CASE \E p \in 0 .. 2 : rd_ack(dm, p)
    <2>1. rd_q' = [port |-> dm.rd_sel, set |-> [w \in Way |-> Out(w)]]
      BY <1>3 DEF DMStep
    <2>2. ASSUME NEW w \in Way
          PROVE  /\ Out(w) \in WayState /\ Out(w).tag = ways[w].tag
                 /\ arb.rd_sel \in ReadPort /\ ways[w].tag # NoLine =>
                       Out(w).data = ways[w].data \ stored(granted(wb), ways[w].tag)
      <3>1. ways[w] \in WayState
        BY DEF CacheInv, DMTypeOK
      <3>2. arb.rd_sel \in ReadPort => dm.rd_sel # 2
        BY <1>0 DEF ReadPort
      <3> QED BY <1>0, <3>1, <3>2 DEF WayState
    <2> HIDE DEF Out
    <2> QED BY <1>0, <1>1, <1>3, <2>1, <2>2
  <1> QED BY <1>2, <1>3

\* A line is filled only for the read miss in flight, and then it is cached.
LEMMA LineWrites ==
    ASSUME MUTypeOK, NEW mu
    PROVE  /\ state_q = "FLUSH" => wr_cl_we(mu) = Way /\ wr_vld_bits(mu) = {} /\ wr_cl_vld(mu)
           /\ \A w \in wr_vld_bits(mu) : /\ mshr_vld_q /\ load_ack(mu) /\ ~mshr_q.nc
                                         /\ wr_cl_we(mu) = {mshr_q.repl_way}
                                         /\ wr_vld_bits(mu) = {mshr_q.repl_way}
  <1>1. state_q = "FLUSH" => wr_cl_we(mu) = Way /\ wr_vld_bits(mu) = {} /\ wr_cl_vld(mu)
    BY CacheAssumption DEF wr_cl_we, wr_vld_bits, wr_cl_vld, flush_en
  <1>2. ASSUME NEW w \in wr_vld_bits(mu)
        PROVE  /\ mshr_vld_q /\ load_ack(mu) /\ ~mshr_q.nc
               /\ wr_cl_we(mu) = {mshr_q.repl_way}
               /\ wr_vld_bits(mu) = {mshr_q.repl_way}
    <2>1. ~flush_en /\ ~inv_vld(mu) /\ wr_vld_bits(mu) = wr_cl_we(mu)
      BY DEF wr_vld_bits
    <2>2. cl_write_en(mu) /\ wr_cl_we(mu) = {mshr_q.repl_way}
      BY <2>1 DEF wr_cl_we
    <2> QED BY <2>1, <2>2 DEF cl_write_en, load_ack
  <1> QED BY <1>1, <1>2

\* The tags of the ways change only when a line is written.
LEMMA TagStep ==
    ASSUME NEW arb, NEW mu, NEW wr, NEW wb, NEW dm,
           CacheWires(arb, mu, wr, wb, dm), DMStep(dm), NEW w \in Way
    PROVE  /\ w \notin wr_cl_we(mu) => ways'[w].tag = ways[w].tag
           /\ \/ ways'[w].tag = ways[w].tag
              \/ ways'[w].tag = NoLine
              \/ w \in wr_vld_bits(mu) /\ ways'[w].tag = mshr_q.line
  <1>1. CASE w \notin wr_cl_we(mu) /\ ways[w].tag = NoLine
    <2>1. ways'[w] = EmptyWay
      BY <1>1, WayUnused
    <2> QED BY <1>1, <2>1 DEF EmptyWay
  <1>2. CASE w \notin wr_cl_we(mu) /\ ways[w].tag # NoLine
    <2>1. PICK d : ways'[w] = [tag |-> ways[w].tag, data |-> d]
      BY <1>2, WayKept
    <2> QED BY <1>2, <2>1
  <1>3. CASE w \in wr_cl_we(mu) /\ w \notin wr_vld_bits(mu)
    <2>1. ways'[w] = EmptyWay
      BY <1>3, WayEmptied
    <2> QED BY <1>3, <2>1 DEF EmptyWay
  <1>4. CASE w \in wr_cl_we(mu) /\ w \in wr_vld_bits(mu)
    <2>1. PICK d : ways'[w] = [tag |-> mshr_q.line, data |-> d]
      BY <1>4, WayFilled
    <2> QED BY <1>4, <2>1
  <1> QED BY <1>1, <1>2, <1>3, <1>4

\* A byte that leaves the buffer is written to the ways that hold its line.
LEMMA EvictWrites ==
    ASSUME BufferInv, CacheInv, NEW core, NEW mem, NEW arb, NEW mu, NEW wr, NEW wb, NEW dm,
           BufferWires(core, mem, arb, mu, wr, wb), CacheWires(arb, mu, wr, wb, dm),
           evict(wb), NEW w \in Way, ways[w].tag = wbuffer_q[rtrn_ptr].line,
           NEW b \in wr_data_be
    PROVE  w \in wr_req_o /\ wr_ack(dm) /\ b \in wr_data
  <1>1. /\ rtrn_ptr \in Slot /\ wbuffer_q[rtrn_ptr].checked
        /\ wr_data_be = wbuffer_q[rtrn_ptr].txblock \ wbuffer_q[rtrn_ptr].dirty
    BY EvictFacts
  <1>2. wbuffer_q[rtrn_ptr].hit_oh = {v \in Way : ways[v].tag = wbuffer_q[rtrn_ptr].line}
    BY <1>1 DEF CacheInv, CheckedEntryKnowsItsWays
  <1>3. wr_req_o = wbuffer_q[rtrn_ptr].hit_oh
    BY DEF wr_req_o, evict
  <1>4. w \in wr_req_o
    BY <1>2, <1>3
  <1>5. wr_ack(dm)
    BY <1>4, Arbitration DEF evict, BufferWires
  <1>6. b \in wr_data
    BY <1>1 DEF wr_data, BufferInv, EntriesOK, EntryOK
  <1> QED BY <1>4, <1>5, <1>6

\* While no store of a line is in flight, its bytes stay in the buffer.
LEMMA BufferedKept ==
    ASSUME BufferInv, NEW in, WBufferInput(in), WBStep(in), NEW l, l \notin tx_lines, NEW b,
           Buffered(l, b)
    PROVE  Buffered(l, b)'
  <1> SUFFICES ASSUME ~Buffered(l, b)' PROVE FALSE
    OBVIOUS
  <1>1. evict(in) /\ wbuffer_q[rtrn_ptr].line = l
    BY BufferedStep
  <1>2. rtrn_id \in tx_vld
    BY <1>1, EvictFacts
  <1> QED BY <1>1, <1>2 DEF tx_lines, rtrn_ptr

\* Everything the cycle of the cache is about.
CacheStep(core, mem, arb, mu, wr, wb, dm) ==
    /\ BufferWires(core, mem, arb, mu, wr, wb) /\ CacheWires(arb, mu, wr, wb, dm)
    /\ WBufferInput(wb) /\ WBStep(wb) /\ DMStep(dm)
    /\ state_q' = state_d(mu)

\* What the head of the answers would write to a way is the last value.
LEMMA WrittenIsLast ==
    ASSUME BufferInv, NEW w \in wr_req_o, NEW b \in wr_data_be
    PROVE  b \in wr_data
  <1>2. returned
    BY DEF wr_req_o
  <1>3. rtrn_fifo # <<>> /\ rtrn_fifo \in Seq(TxId)
    BY <1>2 DEF returned, BufferInv, WBTypeOK
  <1>4. rtrn_id = rtrn_fifo[1] /\ 1 \in 1 .. Len(rtrn_fifo)
    BY <1>3 DEF rtrn_id
  <1>5. rtrn_id \in tx_vld
    BY <1>4 DEF BufferInv, AnswersOK
  <1>6. rtrn_ptr \in Slot /\ tx_stat_q[rtrn_id].be = wbuffer_q[rtrn_ptr].txblock
    BY <1>5 DEF tx_vld, rtrn_ptr, BufferInv, WBTypeOK, Tx, OneTransaction
  <1> QED BY <1>6 DEF wr_data, wr_data_be, BufferInv, EntriesOK, EntryOK

\* Ways stay fresh: what leaves the buffer is written to them.
LEMMA WaysFreshStep ==
    ASSUME BufferInv, CacheInv, MshrOK, MUTypeOK,
           NEW core, NEW mem, NEW arb, NEW mu, NEW wr, NEW wb, NEW dm,
           CacheStep(core, mem, arb, mu, wr, wb, dm)
    PROVE  WaysFresh'
  <1>a. /\ BufferWires(core, mem, arb, mu, wr, wb) /\ CacheWires(arb, mu, wr, wb, dm)
        /\ WBufferInput(wb) /\ WBStep(wb) /\ DMStep(dm)
    BY DEF CacheStep
  <1>b. ASSUME NEW w \in Way, NEW l, l = ways'[w].tag, l # NoLine, NEW b \in Byte,
               ~Buffered(l, b)'
        PROVE  b \in ways'[w].data
    <2>1. w \in wr_cl_we(mu) => w \in wr_vld_bits(mu)
      <3>1. w \in wr_cl_we(mu) /\ w \notin wr_vld_bits(mu) => ways'[w] = EmptyWay
        BY <1>a, WayEmptied
      <3> QED BY <1>b, <3>1 DEF EmptyWay
    <2>2. state_q # "FLUSH"
      BY <2>1, LineWrites
    <2>4. b \notin stored(granted(wb), l)
      BY <1>a, <1>b, StoredStep
    <2>5. CASE w \in wr_cl_we(mu)
      <3>1. w \in wr_vld_bits(mu) /\ mshr_vld_q
        BY <2>1, <2>5, LineWrites
      <3>2. ways'[w] = [tag |-> mshr_q.line, data |-> load \ stored(granted(wb), mshr_q.line)]
        BY <1>a, <2>5, <3>1, WayFilled
      <3>3. l = mshr_q.line /\ ways'[w].data = load \ stored(granted(wb), l)
        BY <1>b, <3>2
      <3>4. l \notin tx_lines
        BY <3>1, <3>3 DEF MshrOK
      <3>5. ~Buffered(l, b)
        BY <1>a, <1>b, <3>4, BufferedKept
      <3>6. b \in load
        BY <3>1, <3>3, <3>5 DEF MshrOK
      <3> QED BY <2>4, <3>3, <3>6
    <2>6. CASE w \notin wr_cl_we(mu)
      <3>1. ways[w].tag = l
        BY <1>a, <1>b, <2>6, TagStep
      <3>2. ways'[w] = [tag |-> ways[w].tag,
                        data |-> (IF w \in wr_req_o /\ wr_ack(dm)
                                  THEN (ways[w].data \ wr_data_be) \cup (wr_data \cap wr_data_be)
                                  ELSE ways[w].data) \ stored(granted(wb), ways[w].tag)]
        BY <1>a, <1>b, <2>6, <3>1, WayKept
      <3>3. ways'[w].data = (IF w \in wr_req_o /\ wr_ack(dm)
                             THEN (ways[w].data \ wr_data_be) \cup (wr_data \cap wr_data_be)
                             ELSE ways[w].data) \ stored(granted(wb), l)
        BY <3>1, <3>2
      <3>4. CASE Buffered(l, b)
        <4>1. evict(wb) /\ wbuffer_q[rtrn_ptr].line = l /\ b \in wr_data_be
          BY <1>a, <1>b, <3>4, BufferedStep
        <4>2. w \in wr_req_o /\ wr_ack(dm) /\ b \in wr_data
          BY <1>a, <3>1, <4>1, EvictWrites
        <4> QED BY <2>4, <3>3, <4>1, <4>2
      <3>5. CASE ~Buffered(l, b)
        <4>1. b \in ways[w].data
          BY <1>b, <2>2, <3>1, <3>5 DEF CacheInv, WaysFresh
        <4>2. w \in wr_req_o /\ b \in wr_data_be => b \in wr_data
          BY WrittenIsLast
        <4> QED BY <2>4, <3>3, <4>1, <4>2
      <3> QED BY <3>4, <3>5
    <2> QED BY <2>5, <2>6
  <1>c. ASSUME NEW w \in Way, ways'[w].tag # NoLine, NEW b \in Byte
        PROVE  b \in ways'[w].data \/ Buffered(ways[w].tag, b)'
    <2>1. PICK l : l = ways'[w].tag
      OBVIOUS
    <2>2. b \in ways'[w].data \/ Buffered(l, b)'
      BY <1>b, <1>c, <2>1
    <2> QED BY <2>1, <2>2 DEF Buffered
  <1> QED BY <1>c DEF WaysFresh

\* The read-out of a cycle: its tags are those of the ways, and its data are
\* fresh, since no word is written in the cycle of a read.
LEMMA ReadoutFreshStep ==
    ASSUME BufferInv, CacheInv, MUTypeOK,
           NEW core, NEW mem, NEW arb, NEW mu, NEW wr, NEW wb, NEW dm,
           CacheStep(core, mem, arb, mu, wr, wb, dm)
    PROVE  ReadoutTags' /\ ReadoutFresh'
  <1>a. /\ BufferWires(core, mem, arb, mu, wr, wb) /\ CacheWires(arb, mu, wr, wb, dm)
        /\ WBufferInput(wb) /\ WBStep(wb) /\ DMStep(dm)
    BY DEF CacheStep
  <1>1. CASE rd_q' = NoRead
    BY <1>1 DEF ReadoutTags, ReadoutFresh, NoRead, ReadPort
  <1>2. CASE /\ ~wr_cl_vld(mu)
             /\ rd_q'.port = arb.rd_sel
             /\ \A w \in Way :
                   /\ rd_q'.set[w].tag = ways[w].tag
                   /\ arb.rd_sel \in ReadPort /\ ways[w].tag # NoLine =>
                         rd_q'.set[w].data = ways[w].data \ stored(granted(wb), ways[w].tag)
    <2>0. wr_cl_we(mu) = {}
      BY <1>2 DEF wr_cl_vld
    <2>1. ReadoutTags'
      <3>1. \A w \in Way : ways'[w].tag = ways[w].tag
        BY <1>a, <2>0, TagStep
      <3> QED BY <1>2, <3>1 DEF ReadoutTags
    <2>2. ASSUME rd_q'.port \in ReadPort, NEW w \in Way, NEW l, l = rd_q'.set[w].tag,
                 l # NoLine, NEW b \in Byte, ~Buffered(l, b)'
          PROVE  b \in rd_q'.set[w].data
      <3>1. /\ ways[w].tag = l
            /\ rd_q'.set[w].data = ways[w].data \ stored(granted(wb), l)
        BY <1>2, <2>2
      <3>2. b \notin stored(granted(wb), l)
        BY <1>a, <2>2, StoredStep
      <3>3. state_q # "FLUSH"
        BY <1>2, LineWrites
      <3>4. ~Buffered(l, b)
        <4>1. SUFFICES ASSUME Buffered(l, b) PROVE FALSE
          OBVIOUS
        <4>2. evict(wb) /\ wbuffer_q[rtrn_ptr].line = l /\ b \in wr_data_be
          BY <1>a, <2>2, <4>1, BufferedStep
        <4>3. wr_ack(dm)
          BY <1>a, <3>1, <4>2, EvictWrites
        <4>4. arb.rd_sel \notin ReadPort
          BY <1>a, <1>2, <4>3, Arbitration
        <4> QED BY <1>2, <2>2, <4>4
      <3>5. b \in ways[w].data
        BY <2>2, <3>1, <3>3, <3>4 DEF CacheInv, WaysFresh
      <3> QED BY <3>1, <3>2, <3>5
    <2>3. ASSUME rd_q'.port \in ReadPort, NEW w \in Way, rd_q'.set[w].tag # NoLine,
                 NEW b \in Byte
          PROVE  b \in rd_q'.set[w].data \/ Buffered(rd_q.set[w].tag, b)'
      <3>1. PICK l : l = rd_q'.set[w].tag
        OBVIOUS
      <3>2. b \in rd_q'.set[w].data \/ Buffered(l, b)'
        BY <2>2, <2>3, <3>1
      <3> QED BY <3>1, <3>2 DEF Buffered
    <2>4. ReadoutFresh'
      BY <2>3 DEF ReadoutFresh
    <2> QED BY <2>1, <2>4
  <1> QED BY <1>a, <1>1, <1>2, ReadoutStep

-----------------------------------------------------------------------------
(* The miss unit *)

PortTypes ==
    ports \in [ReadPort -> [state: P(0)!State, tag: Line \cup {NoLine}, rd_ack: BOOLEAN]]

\* A port that replays or misses has the line of its request; a read that was
\* granted to a port in the last cycle is the one that was read out.
PortsOK ==
    \A p \in ReadPort :
        /\ ports[p].state \in {"REPLAY_REQ", "REPLAY_READ", "MISS_REQ", "KILL_MISS_ACK"}
              => ports[p].tag \in Line
        /\ ports[p].rd_ack => rd_q.port = p

\* A port that misses, and is not to be replayed, asks for a line in no way.
MissesOK ==
    state_q # "FLUSH" /\ enable_q => \A p \in Missing \ mshr_rdrd_collision_q :
        \A w \in Way : ways[w].tag # ports[p].tag

\* A load that waits for the memory to take it is that of a missing port, and
\* no store of its line is in flight.
LoadWait ==
    state_q = "LOAD_WAIT" =>
        /\ ~mshr_vld_q
        /\ miss_req_masked_q # {}
        /\ LET p == Min(miss_req_masked_q) IN
             /\ p \in Missing \ mshr_rdrd_collision_q
             /\ ports[p].tag \notin tx_lines
             /\ mshr_vld_q1 => mshr_q.line # ports[p].tag

\* A store that waits is the one on offer, and not of the line of the MSHR.
StoreWait ==
    state_q = "STORE_WAIT" =>
        /\ miss_req_masked_q = {WritePort}
        /\ \E k \in dirty : dirty_lock = {k} /\ (mshr_vld_q => mshr_q.line # wbuffer_q[k].line)

\* An atomic is sent when the buffer is empty, which it then stays.
AmoOK == state_q \in {"AMO", "AMO_WAIT"} => amo # {} /\ empty_o

MissInv ==
    /\ MUTypeOK /\ PortTypes /\ PortsOK /\ MissesOK /\ MshrOK /\ LoadWait /\ StoreWait /\ AmoOK
    /\ load \subseteq Byte /\ amo \in SUBSET Line /\ enable \in BOOLEAN

\* A port that misses is in one of two states.
LEMMA MissingIs == \A p \in ReadPort :
                       p \in Missing <=> ports[p].state \in {"MISS_REQ", "KILL_MISS_ACK"}
  BY DEF Missing, P!miss_req_o

LEMMA MissLines ==
    ASSUME NEW mem, NEW arb, NEW mu, MissWires(mem, arb, mu)
    PROVE  /\ \A p \in ReadPort : line(mu, p) = ports[p].tag
           /\ \A p \in ReadPort : mu.nc[p + 1] = is_nc(ports[p].tag)
           /\ line(mu, 2) = wbuffer_q[arb.dirty_ptr].line
           /\ mu.miss_req \subseteq {0, 1, 2}
           /\ 2 \in mu.miss_req => miss_req_o
           /\ \A p \in ReadPort : p \in mu.miss_req <=> p \in Missing
  <1>1. mu.line = <<ports[0].tag, ports[1].tag, wbuffer_q[arb.dirty_ptr].line>>
    BY DEF MissWires
  <1>2. mu.nc = <<is_nc(ports[0].tag), is_nc(ports[1].tag), nc_pending_q>>
    BY DEF MissWires
  <1>3. mu.miss_req = Missing \cup (IF miss_req_o THEN {2} ELSE {}) /\ Missing \subseteq {0, 1}
    BY DEF MissWires, Missing, ReadPort
  <1>4. /\ \A p \in ReadPort : line(mu, p) = ports[p].tag
        /\ line(mu, 2) = wbuffer_q[arb.dirty_ptr].line
    BY <1>1 DEF line, ReadPort
  <1>5. \A p \in ReadPort : mu.nc[p + 1] = is_nc(ports[p].tag)
    BY <1>2 DEF ReadPort
  <1>6. /\ mu.miss_req \subseteq {0, 1, 2}
        /\ 2 \in mu.miss_req => miss_req_o
        /\ \A p \in ReadPort : p \in mu.miss_req <=> p \in Missing
    BY <1>3 DEF ReadPort
  <1> QED BY <1>4, <1>5, <1>6

\* The port that is served, when one is.
LEMMA PortServed ==
    ASSUME MUTypeOK, NEW mem, NEW arb, NEW mu, MissWires(mem, arb, mu), requested(mu)
    PROVE  /\ port(mu) \in miss_req_masked(mu) /\ port(mu) \in {0, 1, 2}
           /\ \A q \in miss_req_masked(mu) : port(mu) <= q /\ q \in {0, 1, 2}
           /\ ~lock_reqs => port(mu) \in mu.miss_req
           /\ ~lock_reqs /\ mask_reads => port(mu) = 2
  <1>1. miss_req_masked(mu) \subseteq {0, 1, 2}
    BY MissLines DEF miss_req_masked, MUTypeOK, ReadPort, WritePort
  <1>2. miss_req_masked(mu) \subseteq Nat /\ miss_req_masked(mu) # {}
    BY <1>1 DEF requested
  <1>3. port(mu) \in miss_req_masked(mu) /\ \A q \in miss_req_masked(mu) : port(mu) <= q
    BY <1>2, MinIn DEF port
  <1>4. ~lock_reqs => port(mu) \in mu.miss_req
    BY <1>3 DEF miss_req_masked
  <1>5. ~lock_reqs /\ mask_reads => port(mu) = 2
    BY <1>3 DEF miss_req_masked, WritePort
  <1> QED BY <1>1, <1>3, <1>4, <1>5

\* A load that is offered to the memory: it is that of a port that misses, no
\* miss is in flight, and no store of its line.
LEMMA LoadOffered ==
    ASSUME MissInv, NEW mem, NEW arb, NEW mu, MissWires(mem, arb, mu), load_req(mu)
    PROVE  /\ port(mu) \in ReadPort /\ port(mu) \in Missing
           /\ port(mu) \notin mshr_rdrd_collision(mu)
           /\ port(mu) \notin mshr_rdrd_collision_q
           /\ ports[port(mu)].tag \in Line /\ ports[port(mu)].tag \notin tx_lines
           /\ line(mu, port(mu)) = ports[port(mu)].tag
           /\ state_q \in {"IDLE", "LOAD_WAIT"} /\ ~mshr_vld_q
           /\ miss_req_masked(mu) # {}
           /\ state_q = "IDLE" => serves(mu)
  <1> DEFINE p == port(mu)
  <1>a. Missing \subseteq ReadPort
    BY DEF Missing
  <1>1. CASE state_q = "LOAD_WAIT"
    <2>1. miss_req_masked(mu) = miss_req_masked_q /\ p = Min(miss_req_masked_q)
      BY <1>1 DEF miss_req_masked, lock_reqs, port
    <2>2. /\ ~mshr_vld_q /\ p \in Missing /\ p \notin mshr_rdrd_collision_q
          /\ ports[p].tag \notin tx_lines
          /\ mshr_vld_q1 => mshr_q.line # ports[p].tag
          /\ miss_req_masked(mu) # {}
      BY <1>1, <2>1 DEF MissInv, LoadWait
    <2>3. p \in ReadPort /\ line(mu, p) = ports[p].tag
      BY <1>a, <2>2, MissLines
    <2>4. p \notin mshr_rdrd_collision(mu)
      BY <2>2, <2>3 DEF mshr_rdrd_collision
    <2>5. ports[p].tag \in Line
      BY <2>2, <2>3, MissingIs DEF MissInv, PortsOK
    <2> QED BY <1>1, <2>2, <2>3, <2>4, <2>5
  <1>2. CASE state_q # "LOAD_WAIT"
    <2>1. /\ serves(mu) /\ p # WritePort /\ p \notin mshr_rdrd_collision(mu)
          /\ ~tx_rdwr_collision(mu)
      BY <1>2 DEF load_req, read_miss
    <2>2. state_q = "IDLE" /\ requested(mu) /\ ~lock_reqs
      BY <2>1 DEF serves, lock_reqs
    <2>3. p \in mu.miss_req /\ p \in {0, 1, 2} /\ (mask_reads => p = 2)
      BY <2>2, PortServed DEF MissInv
    <2>4. p \in ReadPort /\ ~mshr_vld_q
      BY <2>1, <2>3 DEF WritePort, ReadPort, mask_reads
    <2>5. p \in Missing /\ line(mu, p) = ports[p].tag
      BY <2>3, <2>4, MissLines
    <2>6. p \notin mshr_rdrd_collision_q
      BY <2>1, <2>3, <2>4 DEF mshr_rdrd_collision
    <2>7. ports[p].tag \notin tx_lines
      BY <2>1, <2>5 DEF tx_rdwr_collision, MissWires
    <2>8. ports[p].tag \in Line
      BY <2>4, <2>5, MissingIs DEF MissInv, PortsOK
    <2> QED BY <2>1, <2>2, <2>4, <2>5, <2>6, <2>7, <2>8 DEF requested
  <1> QED BY <1>1, <1>2

\* A store that is offered: not of the line of the MSHR, and the only offer.
LEMMA StoreOffered ==
    ASSUME MissInv, NEW mem, NEW arb, NEW mu, MissWires(mem, arb, mu),
           arb.dirty_ptr \in dirty_choices, store_req(mu)
    PROVE  /\ mshr_vld_q => mshr_q.line # wbuffer_q[arb.dirty_ptr].line
           /\ state_q = "IDLE" => serves(mu) /\ port(mu) = 2
           /\ state_q \in {"IDLE", "STORE_WAIT"} =>
                 /\ miss_req_masked(mu) = {2}
                 /\ dirty # {}
  <1>1. CASE state_q = "STORE_WAIT"
    <2>1. PICK k \in dirty : dirty_lock = {k} /\ (mshr_vld_q => mshr_q.line # wbuffer_q[k].line)
      BY <1>1 DEF MissInv, StoreWait
    <2>2. arb.dirty_ptr = k /\ dirty # {}
      BY <2>1 DEF dirty_choices
    <2>3. miss_req_masked(mu) = {2}
      BY <1>1 DEF miss_req_masked, lock_reqs, MissInv, StoreWait, WritePort
    <2> QED BY <1>1, <2>1, <2>2, <2>3
  <1>2. CASE state_q # "STORE_WAIT"
    <2>1. ~mshr_rdwr_collision(mu)
      BY <1>2 DEF store_req
    <2>2. mshr_vld_q => mshr_q.line # wbuffer_q[arb.dirty_ptr].line
      BY <2>1, MissLines DEF mshr_rdwr_collision, WritePort
    <2>3. ASSUME state_q = "IDLE"
          PROVE  /\ serves(mu) /\ port(mu) = 2 /\ miss_req_masked(mu) = {2} /\ dirty # {}
      <3>1. serves(mu) /\ port(mu) = 2 /\ requested(mu) /\ ~lock_reqs
        BY <2>3 DEF store_req, serves, WritePort, lock_reqs
      <3>2. /\ 2 \in miss_req_masked(mu) /\ 2 \in mu.miss_req
            /\ \A q \in miss_req_masked(mu) : 2 <= q /\ q \in {0, 1, 2}
        BY <3>1, PortServed DEF MissInv
      <3>3. miss_req_masked(mu) = {2}
        BY <3>2
      <3>4. dirty # {}
        BY <3>2, MissLines DEF miss_req_o
      <3> QED BY <3>1, <3>3, <3>4
    <2> QED BY <1>2, <2>2, <2>3
  <1> QED BY <1>1, <1>2

\* A transaction of the write buffer is taken.
LEMMA StoreTaken ==
    ASSUME MissInv, NEW core, NEW mem, NEW arb, NEW mu, NEW wr, NEW wb,
           MissWires(mem, arb, mu), BufferWires(core, mem, arb, mu, wr, wb),
           arb.dirty_ptr \in dirty_choices, dirty_rd_en(wb)
    PROVE  /\ ~load_req(mu) /\ mu.mem_ack
           /\ mshr_vld_q => mshr_q.line # wbuffer_q[arb.dirty_ptr].line
  <1>1. (load_req(mu) \/ store_req(mu)) /\ port(mu) = 2 /\ mu.mem_ack
    BY DEF dirty_rd_en, BufferWires, miss_ack
  <1>2. ~load_req(mu)
    BY <1>1, LoadOffered DEF ReadPort
  <1> QED BY <1>1, <1>2, StoreOffered

\* The lines of the stores in flight grow only by what is sent.
LEMMA TxLinesStep ==
    ASSUME BufferInv, NEW in, WBufferInput(in), WBStep(in), NEW l, l \in tx_lines', l \notin tx_lines
    PROVE  dirty_rd_en(in) /\ l = wbuffer_q[in.dirty_ptr].line
  <1>1. PICK t \in tx_vld' : l = wbuffer_q'[tx_stat_q'[t].ptr].line
    BY DEF tx_lines
  <1>2. t \in TxId /\ tx_stat_q'[t].vld
    BY <1>1 DEF tx_vld
  <1>3. CASE dirty_rd_en(in) /\ t = tx_id
    <2> DEFINE k == in.dirty_ptr
    <2>0. tx_stat_q'[t] = [vld |-> TRUE, ptr |-> in.dirty_ptr, be |-> tx_be(in.dirty_ptr)]
      BY <1>2, <1>3, TxStep
    <2>1. tx_stat_q'[t].ptr = k
      BY <2>0
    <2>2. k \in Slot /\ tx_be(k) # {} /\ tx_be(k) \subseteq wbuffer_q[k].valid
      BY <1>3, SentFacts
    <2>3. Sent(in, k) = tx_be(k)
      BY <1>3 DEF Sent
    <2>4. wbuffer_q'[k].txblock # {}
      BY <2>2, <2>3, EntryStep
    <2>5. valid(k)'
      BY <2>2, <2>4, BufferEntries DEF EntriesOK, EntryOK, valid
    <2>6. wbuffer_q'[k].line = wbuffer_q[k].line
      BY <2>2, <2>5, LineStep DEF valid
    <2> QED BY <1>1, <1>3, <2>1, <2>6
  <1>4. CASE ~(dirty_rd_en(in) /\ t = tx_id)
    <2>1. ~(evict(in) /\ t = rtrn_id)
      <3>1. evict(in) /\ t = rtrn_id => tx_stat_q'[t] = [vld |-> FALSE, ptr |-> 0, be |-> {}]
        BY <1>2, TxStep
      <3> QED BY <1>2, <3>1
    <2>2. tx_stat_q'[t] = tx_stat_q[t]
      BY <1>2, <1>4, <2>1, TxStep
    <2>3. t \in tx_vld
      BY <1>2, <2>2 DEF tx_vld
    <2>4. wbuffer_q'[tx_stat_q[t].ptr].line = wbuffer_q[tx_stat_q[t].ptr].line
      BY <2>1, <2>3, EntryInFlight
    <2>5. l = wbuffer_q[tx_stat_q[t].ptr].line
      BY <1>1, <2>2, <2>4
    <2> QED BY <2>3, <2>5 DEF tx_lines
  <1> QED BY <1>3, <1>4

\* The read miss in flight after a cycle.
LEMMA MshrStep ==
    ASSUME BufferInv, MemoryInv, CacheInv, MissInv,
           NEW core, NEW mem, NEW arb, NEW mu, NEW wr, NEW wb, NEW dm,
           MissWires(mem, arb, mu), arb.dirty_ptr \in dirty_choices,
           CacheStep(core, mem, arb, mu, wr, wb, dm), MUStep(mu),
           load' = load_d(mu, granted(wb))
    PROVE  MshrOK'
  <1>a. /\ BufferWires(core, mem, arb, mu, wr, wb) /\ CacheWires(arb, mu, wr, wb, dm)
        /\ WBufferInput(wb) /\ WBStep(wb) /\ DMStep(dm)
    BY DEF CacheStep
  <1>b. mshr_q' = mshr_d(mu) /\ mshr_vld_q' = mshr_vld_d(mu)
    BY DEF MUStep
  <1>d. wb.dirty_ptr = arb.dirty_ptr
    BY <1>a DEF BufferWires
  <1>e. MUTypeOK /\ MshrOK /\ Survives
    BY DEF MissInv, MemoryInv
  <1>1. CASE mshr_allocate(mu)
    <2> DEFINE p == port(mu)
    <2>l. PICK l : l = ports[p].tag
      OBVIOUS
    <2>0. load_req(mu)
      BY <1>1 DEF mshr_allocate
    <2>1. /\ p \in ReadPort /\ p \in Missing /\ p \notin mshr_rdrd_collision_q
          /\ l \in Line /\ l \notin tx_lines /\ line(mu, p) = l
          /\ state_q \in {"IDLE", "LOAD_WAIT"} /\ ~mshr_vld_q
      BY <2>l, <2>0, LoadOffered
    <2>2. mshr_q' = [line |-> l, nc |-> is_nc(l), repl_way |-> mu.repl_way, port |-> p]
      BY <1>b, <1>1, <2>l, <2>1, MissLines DEF mshr_d
    <2>3. ~dirty_rd_en(wb)
      BY <1>a, <2>0, StoreTaken
    <2>4. load' = memory[l] \ stored(granted(wb), l)
      BY <1>1, <2>1 DEF load_d
    <2>5. mshr_q'.line = l /\ mshr_q'.nc = is_nc(l)
      BY <2>2
    <2> HIDE DEF p
    <2>6. l \notin tx_lines'
      BY <1>a, <2>1, <2>3, TxLinesStep
    <2>7. ASSUME NEW b \in Byte, ~Buffered(l, b)' PROVE b \in load'
      <3>1. b \notin stored(granted(wb), l)
        BY <1>a, <2>7, StoredStep
      <3>2. ~Buffered(l, b)
        BY <1>a, <2>1, <2>7, BufferedKept
      <3> QED BY <1>e, <2>1, <2>4, <3>1, <3>2 DEF Survives
    <2>8. ASSUME ~is_nc(l), NEW w \in Way PROVE ways'[w].tag # l
      <3>1. enable_q /\ state_q # "FLUSH"
        BY <2>1, <2>8 DEF is_nc
      <3>2. ways[w].tag # l
        BY <2>l, <2>1, <3>1 DEF MissInv, MissesOK
      <3>3. w \notin wr_vld_bits(mu)
        BY <1>e, <2>1, LineWrites
      <3>4. NoLine # l
        BY <2>1, CacheAssumption
      <3> QED BY <1>a, <3>2, <3>3, <3>4, TagStep
    <2>9. \A b \in Byte : b \in load' \/ Buffered(mshr_q.line, b)'
      BY <2>5, <2>7 DEF Buffered
    <2> QED BY <2>1, <2>5, <2>6, <2>8, <2>9 DEF MshrOK
  <1>2. CASE ~mshr_allocate(mu) /\ mshr_vld_q /\ ~load_ack(mu)
    <2>l. PICK l : l = mshr_q.line
      OBVIOUS
    <2>1. mshr_q' = mshr_q
      BY <1>b, <1>2 DEF mshr_d
    <2>2. load' = load \ stored(granted(wb), l)
      BY <2>l, <1>2 DEF load_d
    <2>3. l \in Line /\ l \notin tx_lines
      BY <2>l, <1>e, <1>2 DEF MshrOK
    <2>4. dirty_rd_en(wb) => l # wbuffer_q[wb.dirty_ptr].line
      BY <2>l, <1>a, <1>d, <1>2, StoreTaken
    <2>5. \A b \in Byte : b \in load \/ Buffered(l, b)
      BY <2>l, <1>e, <1>2 DEF MshrOK
    <2>6. ~mshr_q.nc => \A w \in Way : ways[w].tag # l
      BY <2>l, <1>e, <1>2 DEF MshrOK
    <2>7. mshr_q'.line = l /\ mshr_q'.nc = mshr_q.nc
      BY <2>l, <2>1
    <2>8. l \notin tx_lines'
      BY <1>a, <2>3, <2>4, TxLinesStep
    <2>9. ASSUME NEW b \in Byte, ~Buffered(l, b)' PROVE b \in load'
      <3>1. b \notin stored(granted(wb), l)
        BY <1>a, <2>9, StoredStep
      <3>2. ~Buffered(l, b)
        BY <1>a, <2>3, <2>9, BufferedKept
      <3> QED BY <2>2, <2>5, <3>1, <3>2
    <2>10. ASSUME ~mshr_q.nc, NEW w \in Way PROVE ways'[w].tag # l
      <3>1. ways[w].tag # l
        BY <2>6, <2>10
      <3>3. w \notin wr_vld_bits(mu)
        BY <1>e, <1>2, LineWrites
      <3>4. NoLine # l
        BY <2>3, CacheAssumption
      <3> QED BY <1>a, <3>1, <3>3, <3>4, TagStep
    <2>11. \A b \in Byte : b \in load' \/ Buffered(mshr_q.line, b)'
      BY <2>7, <2>9 DEF Buffered
    <2> QED BY <2>3, <2>7, <2>8, <2>10, <2>11 DEF MshrOK
  <1>3. mshr_vld_q' => mshr_allocate(mu) \/ (mshr_vld_q /\ ~load_ack(mu))
    BY <1>b DEF mshr_vld_d
  <1>4. CASE ~mshr_vld_q'
    BY <1>4 DEF MshrOK
  <1> QED BY <1>1, <1>2, <1>3, <1>4

\* What the state after a cycle tells of the cycle.
LEMMA StateStep ==
    ASSUME MUTypeOK, NEW mu
    PROVE  /\ state_d(mu) \in {"IDLE", "DRAIN", "AMO", "FLUSH", "STORE_WAIT",
                               "LOAD_WAIT", "AMO_WAIT"}
           /\ state_d(mu) = "LOAD_WAIT" => load_req(mu) /\ ~mu.mem_ack
           /\ state_d(mu) = "STORE_WAIT" =>
                 store_req(mu) /\ ~mu.mem_ack /\ state_q \in {"IDLE", "STORE_WAIT"}
           /\ state_d(mu) \in {"AMO", "AMO_WAIT"} =>
                 \/ state_q = "IDLE" /\ mu.amo_req /\ mu.wbuffer_empty
                 \/ state_q = "AMO"
                 \/ state_q = "AMO_WAIT" /\ ~amo_ack(mu)
  <1> USE DEF state_d
  <1>1. CASE state_q = "IDLE"
    BY <1>1 DEF drained
  <1>2. CASE state_q = "STORE_WAIT"
    BY <1>2 DEF store_req
  <1>3. CASE state_q = "LOAD_WAIT"
    BY <1>3 DEF load_req
  <1>4. CASE state_q = "DRAIN"
    BY <1>4
  <1>5. CASE state_q = "FLUSH"
    BY <1>5
  <1>6. CASE state_q = "AMO"
    BY <1>6
  <1>7. CASE state_q = "AMO_WAIT"
    BY <1>7
  <1> QED BY <1>1, <1>2, <1>3, <1>4, <1>5, <1>6, <1>7 DEF MUTypeOK

-----------------------------------------------------------------------------
(* The read ports *)

PortWires(core, mu, wr, in) ==
    \A p \in ReadPort :
        /\ in[p].tag_valid = TRUE /\ in[p].tag = core.tag /\ in[p].kill = (core.kill /\ p = 1)
        /\ in[p].rd_ack = rd_ack(wr, p) /\ in[p].wr_cl_vld = wr_cl_vld(mu)
        /\ in[p].hit = (enable_q /\ rd_hit_oh(rd_line(core, p)) # {})
        /\ in[p].miss_ack = miss_ack(mu, p) /\ in[p].miss_replay = miss_replay(mu, p)
        /\ in[p].miss_rtrn = miss_rtrn(mu, p)

LEMMA PortsAreWired ==
    ASSUME NEW core, NEW mem, NEW arb, NEW mu, NEW wr, NEW wb, NEW in, NEW dm,
           Wired(core, mem, arb, mu, wr, wb, in, dm)
    PROVE  PortWires(core, mu, wr, in)
  <1>1. wr.wr_cl_vld = wr_cl_vld(mu)
    BY WiresAre DEF CacheWires
  <1>2. in = [p \in ReadPort |-> DCtrlIn(core, mu, wr, p)]
    BY DEF Wired
  <1> QED BY <1>1, <1>2 DEF PortWires, DCtrlIn

\* The registers of a port after a cycle: a port that replays or misses keeps
\* its line, or has just compared it.
LEMMA PortStep ==
    ASSUME PortTypes, NEW core, NEW mu, NEW wr, NEW in, PortWires(core, mu, wr, in),
           ports' = [p \in ReadPort |-> port_d(in[p], p)], NEW p \in ReadPort
    PROVE  /\ ports'[p].state \in P(0)!State
           /\ ports'[p].rd_ack \in BOOLEAN
           /\ ports'[p].rd_ack => rd_ack(wr, p)
           /\ ports'[p].tag = NoLine \/ ports'[p].tag = rd_line(core, p)
           /\ ports'[p].state \in {"REPLAY_REQ", "REPLAY_READ", "MISS_REQ", "KILL_MISS_ACK"} =>
                 /\ ports'[p].tag = rd_line(core, p)
                 /\ ports[p].state \in {"READ", "REPLAY_REQ", "REPLAY_READ", "MISS_REQ",
                                        "KILL_MISS_ACK"}
           /\ ports'[p].state \in {"MISS_REQ", "KILL_MISS_ACK"} =>
                 \/ ports[p].state \in {"MISS_REQ", "KILL_MISS_ACK"}
                 \/ /\ ports[p].state \in {"READ", "REPLAY_READ"}
                    /\ ~wr_cl_vld(mu) /\ ports[p].rd_ack
                    /\ enable_q => rd_hit_oh(rd_line(core, p)) = {}
           /\ ports[p].state \in {"MISS_REQ", "KILL_MISS_ACK"}
                 /\ ~miss_ack(mu, p) /\ ~miss_replay(mu, p) =>
                    ports'[p].state \in {"MISS_REQ", "KILL_MISS_ACK"}
  <1> DEFINE i == in[p]
             s == P(p)!state_d(i)
  <1>0. ports'[p] = port_d(i, p)
    OBVIOUS
  <1>1. ports'[p] = [state |-> s,
                     tag |-> IF s \in {"IDLE", "READ", "MISS_WAIT", "KILL_MISS"}
                             THEN NoLine ELSE P(p)!rd_tag_o(i),
                     rd_ack |-> s \in {"READ", "REPLAY_READ"} /\ i.rd_ack]
    BY <1>0 DEF port_d
  <1>2. /\ i.tag_valid = TRUE /\ i.tag = core.tag /\ i.kill \in BOOLEAN
        /\ i.rd_ack = rd_ack(wr, p) /\ i.wr_cl_vld = wr_cl_vld(mu)
        /\ i.hit = (enable_q /\ rd_hit_oh(rd_line(core, p)) # {})
        /\ i.miss_ack = miss_ack(mu, p) /\ i.miss_replay = miss_replay(mu, p)
    BY DEF PortWires
  <1>3. ports[p].state \in P(0)!State
    BY DEF PortTypes
  <1>4. P(p)!compares(i) <=> ports[p].state \in {"READ", "REPLAY_READ"} /\ ~i.kill
    BY <1>2 DEF P!compares, P!reading
  <1>5. P(p)!void(i) <=> wr_cl_vld(mu) \/ ~ports[p].rd_ack
    BY <1>2 DEF P!void
  <1>6. /\ ports[p].state # "READ" => P(p)!rd_tag_o(i) = rd_line(core, p)
        /\ ports[p].state = "READ" /\ ~i.kill => P(p)!rd_tag_o(i) = rd_line(core, p)
    BY <1>2, <1>4 DEF P!rd_tag_o, rd_line
  <1> HIDE DEF i
  <1>7. /\ s \in P(0)!State
        /\ s \in {"REPLAY_REQ", "REPLAY_READ", "MISS_REQ", "KILL_MISS_ACK"} =>
              /\ ports[p].state = "READ" => ~i.kill
              /\ ports[p].state \in {"READ", "REPLAY_REQ", "REPLAY_READ", "MISS_REQ",
                                     "KILL_MISS_ACK"}
        /\ s \in {"MISS_REQ", "KILL_MISS_ACK"} =>
              \/ ports[p].state \in {"MISS_REQ", "KILL_MISS_ACK"}
              \/ /\ ports[p].state \in {"READ", "REPLAY_READ"}
                 /\ ~P(p)!void(i) /\ ~i.hit
        /\ ports[p].state \in {"MISS_REQ", "KILL_MISS_ACK"}
              /\ ~i.miss_ack /\ ~i.miss_replay => s \in {"MISS_REQ", "KILL_MISS_ACK"}
    <2> USE DEF P!state_d, P!State, P!reading
    <2>1. CASE ports[p].state = "IDLE"
      BY <2>1
    <2>2. CASE ports[p].state = "READ"
      BY <2>2, <1>4
    <2>3. CASE ports[p].state = "REPLAY_READ"
      BY <2>3, <1>4
    <2>4. CASE ports[p].state = "MISS_REQ"
      BY <2>4
    <2>5. CASE ports[p].state = "MISS_WAIT"
      BY <2>5
    <2>6. CASE ports[p].state = "REPLAY_REQ"
      BY <2>6
    <2>7. CASE ports[p].state = "KILL_MISS_ACK"
      BY <2>7
    <2>8. CASE ports[p].state = "KILL_MISS"
      BY <2>8
    <2> QED BY <1>3, <2>1, <2>2, <2>3, <2>4, <2>5, <2>6, <2>7, <2>8
  <1> HIDE DEF s
  <1>8. /\ ports'[p].state = s
        /\ ports'[p].tag = (IF s \in {"IDLE", "READ", "MISS_WAIT", "KILL_MISS"}
                            THEN NoLine ELSE P(p)!rd_tag_o(i))
        /\ ports'[p].rd_ack = (s \in {"READ", "REPLAY_READ"} /\ i.rd_ack)
    BY <1>1
  <1>9. ports'[p].tag = NoLine \/ ports'[p].tag = rd_line(core, p)
    BY <1>6, <1>7, <1>8 DEF P!State
  <1>10. s \in {"REPLAY_REQ", "REPLAY_READ", "MISS_REQ", "KILL_MISS_ACK"} =>
            ports'[p].tag = rd_line(core, p)
    BY <1>6, <1>7, <1>8
  <1> QED BY <1>2, <1>5, <1>7, <1>8, <1>9, <1>10

\* The line a port compares, asks for or has just compared is one.
LEMMA RdLine ==
    ASSUME PortTypes, PortsOK, NEW core, CoreWires(core), NEW p \in ReadPort
    PROVE  /\ rd_line(core, p) \in Line \cup {NoLine}
           /\ ports[p].state \in {"READ", "REPLAY_REQ", "REPLAY_READ", "MISS_REQ",
                                  "KILL_MISS_ACK"} => rd_line(core, p) \in Line
  <1>1. ports[p].state = "READ" => core.tag \in Line
    BY DEF CoreWires, Reading
  <1>2. ports[p].tag \in Line \cup {NoLine}
    BY DEF PortTypes
  <1> QED BY <1>1, <1>2 DEF rd_line, CoreWires, PortsOK

LEMMA PortsStep ==
    ASSUME PortTypes, PortsOK, CacheInv,
           NEW core, NEW arb, NEW mu, NEW wr, NEW wb, NEW in, NEW dm,
           CoreWires(core), PortWires(core, mu, wr, in), CacheWires(arb, mu, wr, wb, dm),
           DMStep(dm), ports' = [p \in ReadPort |-> port_d(in[p], p)]
    PROVE  PortTypes' /\ PortsOK'
  <1>1. ASSUME NEW p \in ReadPort
        PROVE  /\ ports'[p].state \in P(0)!State /\ ports'[p].rd_ack \in BOOLEAN
               /\ ports'[p].tag \in Line \cup {NoLine}
               /\ ports'[p] = [state |-> ports'[p].state, tag |-> ports'[p].tag,
                               rd_ack |-> ports'[p].rd_ack]
               /\ ports'[p].state \in {"REPLAY_REQ", "REPLAY_READ", "MISS_REQ", "KILL_MISS_ACK"}
                     => ports'[p].tag \in Line
               /\ ports'[p].rd_ack => rd_q'.port = p
    <2>1. /\ ports'[p].state \in P(0)!State /\ ports'[p].rd_ack \in BOOLEAN
      BY PortStep
    <2>2. ports'[p].tag \in Line \cup {NoLine}
      BY PortStep, RdLine
    <2>3. ports'[p].state \in {"REPLAY_REQ", "REPLAY_READ", "MISS_REQ", "KILL_MISS_ACK"}
             => ports'[p].tag \in Line
      BY PortStep, RdLine
    <2>4. ports'[p].rd_ack => rd_q'.port = p
      <3>1. ports'[p].rd_ack => arb.rd_sel = p /\ ~wr_cl_vld(mu)
        BY PortStep, Arbitration
      <3>2. p \in 0 .. 2
        BY DEF ReadPort
      <3> QED BY <3>1, <3>2, ReadoutStep
    <2>5. ports'[p] = [state |-> ports'[p].state, tag |-> ports'[p].tag,
                       rd_ack |-> ports'[p].rd_ack]
      BY DEF port_d
    <2> QED BY <2>1, <2>2, <2>3, <2>4, <2>5
  <1>2. ports' \in [ReadPort -> [state: P(0)!State, tag: Line \cup {NoLine}, rd_ack: BOOLEAN]]
    <2> DEFINE R == [state: P(0)!State, tag: Line \cup {NoLine}, rd_ack: BOOLEAN]
    <2>1. ASSUME NEW p \in ReadPort PROVE ports'[p] \in R
      <3>1. PICK s \in P(0)!State, l \in Line \cup {NoLine}, a \in BOOLEAN :
                s = ports'[p].state /\ l = ports'[p].tag /\ a = ports'[p].rd_ack
        BY <1>1, Zenon
      <3>2. ports'[p] = [state |-> s, tag |-> l, rd_ack |-> a]
        BY <1>1, <3>1, Zenon
      <3> QED BY <3>2
    <2>2. ports' = [p \in ReadPort |-> ports'[p]]
      OBVIOUS
    <2> HIDE DEF R
    <2>3. ports' \in [ReadPort -> R]
      BY <2>1, <2>2
    <2> QED BY <2>3 DEF R
  <1> QED BY <1>1, <1>2 DEF PortTypes, PortsOK

\* A port that misses asks for a line in no way, or is to be replayed: what is
\* filled meanwhile collides with its request.
LEMMA MissesStep ==
    ASSUME BufferInv, CacheInv, MissInv,
           NEW core, NEW mem, NEW arb, NEW mu, NEW wr, NEW wb, NEW in, NEW dm,
           CoreWires(core), MissWires(mem, arb, mu), PortWires(core, mu, wr, in),
           CacheWires(arb, mu, wr, wb, dm), DMStep(dm), MUStep(mu),
           ports' = [p \in ReadPort |-> port_d(in[p], p)]
    PROVE  MissesOK'
  <1>a. MUTypeOK /\ PortTypes /\ PortsOK /\ MissesOK
    BY DEF MissInv
  <1>b. /\ enable_q' = enable_d(mu) /\ mshr_rdrd_collision_q' = mshr_rdrd_collision(mu)
    BY DEF MUStep
  <1> SUFFICES ASSUME enable_q', NEW p \in ReadPort, p \in Missing',
                      p \notin mshr_rdrd_collision(mu), NEW w \in Way
               PROVE  ways'[w].tag # ports'[p].tag
    BY <1>b DEF MissesOK, Missing
  <1>1. ports'[p].state \in {"MISS_REQ", "KILL_MISS_ACK"}
    BY DEF Missing, P!miss_req_o
  <1> DEFINE l == rd_line(core, p)
  <1>2. ports'[p].tag = l /\ l \in Line
    BY <1>a, <1>1, PortStep, RdLine
  <1>3. NoLine # l
    BY <1>2, CacheAssumption
  <1> HIDE DEF l
  <1>4. CASE state_q = "FLUSH"
    <2>1. w \in wr_cl_we(mu) /\ w \notin wr_vld_bits(mu)
      BY <1>a, <1>4, LineWrites
    <2>2. ways'[w] = EmptyWay
      BY <2>1, WayEmptied
    <2> QED BY <1>2, <1>3, <2>2 DEF EmptyWay
  <1>5. CASE state_q # "FLUSH"
    <2>1. enable_q
      BY <1>b, <1>5 DEF enable_d, flush_en
    <2>2. CASE ports[p].state \in {"MISS_REQ", "KILL_MISS_ACK"}
      <3>1. p \in Missing /\ p \in mu.miss_req /\ line(mu, p) = ports[p].tag
        BY <2>2, MissingIs, MissLines
      <3>2. ports[p].tag = l
        BY <2>2 DEF rd_line, l
      <3>3. p \notin mshr_rdrd_collision_q /\ (mshr_vld_q => mshr_q.line # l)
        BY <3>1, <3>2 DEF mshr_rdrd_collision
      <3>4. ways[w].tag # l
        BY <1>a, <1>5, <2>1, <3>1, <3>2, <3>3 DEF MissesOK
      <3>5. w \in wr_vld_bits(mu) => mshr_vld_q
        BY <1>a, LineWrites
      <3> QED BY <1>2, <1>3, <3>3, <3>4, <3>5, TagStep
    <2>3. CASE ports[p].state \notin {"MISS_REQ", "KILL_MISS_ACK"}
      <3>1. ~wr_cl_vld(mu) /\ ports[p].rd_ack /\ rd_hit_oh(l) = {}
        BY <1>a, <1>1, <2>1, <2>3, PortStep DEF l
      <3>2. rd_q.port = p
        BY <1>a, <3>1 DEF PortsOK
      <3>3. rd_q.set[w].tag = ways[w].tag
        BY <3>2 DEF CacheInv, ReadoutTags, ReadPort
      <3>4. rd_q.set[w].tag # l
        BY <3>1 DEF rd_hit_oh
      <3>5. w \notin wr_cl_we(mu)
        BY <3>1 DEF wr_cl_vld
      <3>6. ways'[w].tag = ways[w].tag
        BY <3>5, TagStep
      <3> QED BY <1>2, <3>3, <3>4, <3>6
    <2> QED BY <2>2, <2>3
  <1> QED BY <1>4, <1>5

\* A load stays what it was while it waits for the memory.
LEMMA LoadWaitStep ==
    ASSUME BufferInv, MissInv,
           NEW core, NEW mem, NEW arb, NEW mu, NEW wr, NEW wb, NEW in,
           MissWires(mem, arb, mu), BufferWires(core, mem, arb, mu, wr, wb),
           PortWires(core, mu, wr, in), WBufferInput(wb), WBStep(wb), MUStep(mu),
           arb.dirty_ptr \in dirty_choices,
           ports' = [p \in ReadPort |-> port_d(in[p], p)]
    PROVE  LoadWait'
  <1> SUFFICES ASSUME state_d(mu) = "LOAD_WAIT" PROVE LoadWait'
    BY DEF LoadWait, MUStep
  <1>a. MUTypeOK /\ PortTypes /\ PortsOK
    BY DEF MissInv
  <1>1. load_req(mu) /\ ~mu.mem_ack
    BY <1>a, StateStep
  <1>p. PICK p : p = port(mu)
    OBVIOUS
  <1>l. PICK l : l = ports[p].tag
    OBVIOUS
  <1>2. /\ p \in ReadPort /\ p \in Missing
        /\ p \notin mshr_rdrd_collision(mu)
        /\ l \in Line /\ l \notin tx_lines
        /\ ~mshr_vld_q /\ miss_req_masked(mu) # {}
    BY <1>p, <1>l, <1>1, LoadOffered
  <1>3. ~mshr_vld_q' /\ ~mshr_vld_q1' /\ mshr_rdrd_collision_q' = mshr_rdrd_collision(mu)
    BY <1>1, <1>2 DEF MUStep, mshr_vld_d, mshr_allocate
  <1>4. miss_req_masked_q' = miss_req_masked(mu) /\ p = Min(miss_req_masked_q')
    BY <1>p DEF MUStep, port
  <1>5. ~miss_ack(mu, p) /\ ~miss_replay(mu, p)
    BY <1>1, <1>2 DEF miss_ack, miss_replay
  <1>6. ports[p].state \in {"MISS_REQ", "KILL_MISS_ACK"}
    BY <1>2, MissingIs
  <1>7. ports'[p].state \in {"MISS_REQ", "KILL_MISS_ACK"}
    BY <1>a, <1>2, <1>5, <1>6, PortStep
  <1>8. p \in Missing'
    BY <1>2, <1>7 DEF Missing, P!miss_req_o
  <1>9. ports'[p].tag = l
    <2>1. ports'[p].tag = rd_line(core, p)
      BY <1>a, <1>2, <1>7, PortStep
    <2> QED BY <1>l, <1>6, <2>1 DEF rd_line
  <1>10. ~dirty_rd_en(wb)
    BY <1>1, StoreTaken
  <1>11. l \notin tx_lines'
    BY <1>2, <1>10, TxLinesStep
  <1>12. LET q == Min(miss_req_masked_q') IN
            /\ q \in Missing' \ mshr_rdrd_collision_q'
            /\ ports'[q].tag \notin tx_lines'
            /\ mshr_vld_q1' => mshr_q'.line # ports'[q].tag
    BY <1>2, <1>3, <1>4, <1>8, <1>9, <1>11
  <1>13. miss_req_masked_q' # {}
    BY <1>2, <1>4
  <1> QED BY <1>3, <1>12, <1>13 DEF LoadWait

\* A store stays on offer while it waits for the memory.
LEMMA StoreWaitStep ==
    ASSUME BufferInv, MissInv,
           NEW core, NEW mem, NEW arb, NEW mu, NEW wr, NEW wb,
           MissWires(mem, arb, mu), BufferWires(core, mem, arb, mu, wr, wb),
           WBufferInput(wb), WBStep(wb), MUStep(mu), arb.dirty_ptr \in dirty_choices
    PROVE  StoreWait'
  <1> SUFFICES ASSUME state_d(mu) = "STORE_WAIT" PROVE StoreWait'
    BY DEF StoreWait, MUStep
  <1>a. MUTypeOK
    BY DEF MissInv
  <1>1. store_req(mu) /\ ~mu.mem_ack /\ state_q \in {"IDLE", "STORE_WAIT"}
    BY <1>a, StateStep
  <1>k. PICK k : k = arb.dirty_ptr
    OBVIOUS
  <1>2. /\ mshr_vld_q => mshr_q.line # wbuffer_q[k].line
        /\ miss_req_masked(mu) = {2} /\ dirty # {}
    BY <1>k, <1>1, StoreOffered
  <1>3. ~dirty_rd_en(wb) /\ wb.dirty_ptr = k
    BY <1>k, <1>1 DEF dirty_rd_en, BufferWires, miss_ack
  <1>4. dirty_lock' = {k}
    BY <1>2, <1>3 DEF WBStep
  <1>5. k \in dirty'
    BY <1>4, BufferOffer DEF OfferedIsDirty
  <1>6. k \in dirty
    BY <1>k, <1>2 DEF dirty_choices, BufferInv, OfferedIsDirty
  <1>7. k \in Slot /\ valid(k) /\ valid(k)'
    BY <1>5, <1>6 DEF dirty, bdirty, valid
  <1>8. wbuffer_q'[k].line = wbuffer_q[k].line
    BY <1>7, LineStep
  <1>9. mshr_q' = mshr_q /\ (mshr_vld_q' => mshr_vld_q)
    BY <1>1 DEF MUStep, mshr_d, mshr_vld_d, mshr_allocate
  <1>10. miss_req_masked_q' = {WritePort}
    BY <1>2 DEF MUStep, WritePort
  <1>11. mshr_vld_q' => mshr_q'.line # wbuffer_q'[k].line
    BY <1>2, <1>8, <1>9
  <1> QED BY <1>4, <1>5, <1>10, <1>11 DEF StoreWait

\* The buffer is empty, and stays so, while an atomic is under way.
LEMMA AmoStep ==
    ASSUME BufferInv, MissInv,
           NEW core, NEW mem, NEW arb, NEW mu, NEW wr, NEW wb,
           CoreWires(core), MissWires(mem, arb, mu), BufferWires(core, mem, arb, mu, wr, wb),
           WBufferInput(wb), WBStep(wb), MUStep(mu),
           mem.rtrn.type = "ATOMIC_ACK" => state_q = "AMO_WAIT",
           amo' = IF amo_ack(mu) THEN {} ELSE amo
    PROVE  AmoOK' /\ amo' \in SUBSET Line
  <1>0. amo' \in SUBSET Line
    BY DEF MissInv
  <1> SUFFICES ASSUME state_d(mu) \in {"AMO", "AMO_WAIT"} PROVE AmoOK'
    BY <1>0 DEF AmoOK, MUStep
  <1>a. MUTypeOK /\ AmoOK
    BY DEF MissInv
  <1>b. /\ mu.amo_req = (amo # {}) /\ mu.wbuffer_empty = empty_o /\ mu.rtrn = mem.rtrn
    BY DEF MissWires
  <1>1. \/ state_q = "IDLE" /\ mu.amo_req /\ mu.wbuffer_empty
        \/ state_q = "AMO"
        \/ state_q = "AMO_WAIT" /\ ~amo_ack(mu)
    BY <1>a, StateStep
  <1>2. amo # {} /\ empty_o
    BY <1>a, <1>b, <1>1 DEF AmoOK
  <1>3. ~amo_ack(mu)
    BY <1>b, <1>1 DEF amo_ack
  <1>4. wb.store = {}
    BY <1>2 DEF CoreWires, BufferWires
  <1>5. granted(wb) = {}
    BY <1>4 DEF granted
  <1>6. ASSUME NEW k \in Slot PROVE ~valid(k)'
    <2>1. valid(k)' => valid(k)
      BY <1>5, LineStep
    <2> QED BY <1>2, <2>1 DEF empty_o
  <1>7. empty_o'
    BY <1>6 DEF empty_o
  <1> QED BY <1>2, <1>3, <1>7 DEF AmoOK

\* What a fill brings in is in no way.
LEMMA LineInOneWayStep ==
    ASSUME CacheInv, MissInv, NEW arb, NEW mu, NEW wr, NEW wb, NEW dm,
           CacheWires(arb, mu, wr, wb, dm), DMStep(dm)
    PROVE  LineInOneWay'
  <1>a. MUTypeOK /\ MshrOK /\ LineInOneWay
    BY DEF CacheInv, MissInv
  <1> SUFFICES ASSUME NEW v \in Way, NEW w \in Way, v # w, ways'[v].tag # NoLine,
                      ways'[v].tag = ways'[w].tag
               PROVE  FALSE
    BY DEF LineInOneWay
  <1>1. state_q # "FLUSH"
    <2>1. state_q = "FLUSH" => v \in wr_cl_we(mu) /\ v \notin wr_vld_bits(mu)
      BY <1>a, LineWrites
    <2>2. state_q = "FLUSH" => ways'[v] = EmptyWay
      BY <2>1, WayEmptied
    <2> QED BY <2>2 DEF EmptyWay
  <1>2. ASSUME NEW x \in wr_vld_bits(mu)
        PROVE  /\ wr_vld_bits(mu) = {x}
               /\ \A y \in Way : ways[y].tag # mshr_q.line
    <2>1. mshr_vld_q /\ ~mshr_q.nc /\ wr_vld_bits(mu) = {mshr_q.repl_way}
      BY <1>a, LineWrites
    <2> QED BY <1>a, <2>1 DEF MshrOK
  <1>3. \/ ways'[v].tag = ways[v].tag
        \/ v \in wr_vld_bits(mu) /\ ways'[v].tag = mshr_q.line
    BY TagStep
  <1>4. \/ ways'[w].tag = ways[w].tag
        \/ w \in wr_vld_bits(mu) /\ ways'[w].tag = mshr_q.line
    BY TagStep
  <1>5. ways[v].tag # NoLine => ways[v].tag # ways[w].tag
    BY <1>a, <1>1 DEF LineInOneWay
  <1>6. ~(v \in wr_vld_bits(mu) /\ w \in wr_vld_bits(mu))
    BY <1>2
  <1> QED BY <1>2, <1>3, <1>4, <1>5, <1>6

\* An entry that is checked after a cycle: no line was written in it and in
\* the cycle before, and what it knows is old or comes from the last check.
LEMMA CheckedIs ==
    ASSUME BufferInv, NEW in, WBufferInput(in), WBStep(in), NEW k \in Slot, wbuffer_q'[k].checked
    PROVE  /\ valid(k) /\ valid(k)' /\ wbuffer_q'[k].line = wbuffer_q[k].line
           /\ ~in.wr_cl_vld /\ ~wr_cl_vld_q
           /\ \/ wbuffer_q[k].checked /\ wbuffer_q'[k].hit_oh = wbuffer_q[k].hit_oh
              \/ \E c \in check_q1 : c.ptr = k /\ wbuffer_q'[k].hit_oh = c.hit_oh
  <1> DEFINE e == wbuffer_q[k]
             result == {c \in check_q1 : c.ptr = k /\ valid(k)}
             gone == IF evict(in) /\ k = rtrn_ptr THEN tx_stat_q[rtrn_id].be ELSE {}
             sent == IF dirty_rd_en(in) /\ k = in.dirty_ptr THEN tx_be(k) ELSE {}
             all == granted(in)
             new == {s \in all : wr_ptr(s.line) = k}
             be == UNION {s.be : s \in new}
             rest == e.valid \ (gone \ e.dirty)
             l == IF new = {} THEN e.line ELSE (CHOOSE s \in new : TRUE).line
             valid1 == rest \cup be
             dirty1 == (e.dirty \ sent) \cup be
             block1 == (e.txblock \ gone) \cup sent
             data1 == ((e.data \cap rest) \ stored(all, l)) \cup be
             checked1 == /\ e.checked \/ result # {}
                         /\ ~inval_hit(in, k)
                         /\ new = {}
             hit1 == IF result = {} THEN e.hit_oh ELSE (CHOOSE c \in result : TRUE).hit_oh
  <1>1. wbuffer_q'[k] = entry_d(in, k)
    BY DEF WBStep
  <1>2. entry_d(in, k) = IF valid1 = {} THEN EmptyEntry
                         ELSE [line |-> l, valid |-> valid1, dirty |-> dirty1,
                               txblock |-> block1, data |-> data1,
                               checked |-> checked1, hit_oh |-> hit1]
    BY DEF entry_d
  <1>3. new = {} => be = {}
    OBVIOUS
  <1>4. result # {} => /\ (CHOOSE c \in result : TRUE) \in check_q1
                       /\ (CHOOSE c \in result : TRUE).ptr = k
    OBVIOUS
  <1> HIDE DEF result, new, be, l, dirty1, block1, data1, hit1, rest, checked1
  <1>5. valid1 # {}
    BY <1>1, <1>2 DEF EmptyEntry
  <1>6. /\ wbuffer_q'[k].checked = checked1 /\ wbuffer_q'[k].hit_oh = hit1
        /\ wbuffer_q'[k].line = l /\ wbuffer_q'[k].valid = valid1
    <2>1. wbuffer_q'[k] = [line |-> l, valid |-> valid1, dirty |-> dirty1,
                           txblock |-> block1, data |-> data1,
                           checked |-> checked1, hit_oh |-> hit1]
      BY <1>1, <1>2, <1>5
    <2> HIDE DEF valid1
    <2> QED BY <2>1
  <1>7. (e.checked \/ result # {}) /\ ~inval_hit(in, k) /\ new = {}
    BY <1>6 DEF checked1
  <1>8. valid(k) /\ valid(k)' /\ l = e.line
    BY <1>3, <1>5, <1>6, <1>7 DEF rest, l, valid
  <1>9. ~in.wr_cl_vld /\ ~wr_cl_vld_q
    BY <1>7, <1>8 DEF inval_hit
  <1>10. CASE result = {}
    BY <1>6, <1>7, <1>8, <1>9, <1>10 DEF hit1
  <1>11. CASE result # {}
    <2>1. PICK c \in check_q1 : c.ptr = k /\ hit1 = c.hit_oh
      BY <1>4, <1>11 DEF hit1
    <2> QED BY <1>6, <1>8, <1>9, <2>1
  <1> QED BY <1>10, <1>11

\* The tags of the ways stay while no line is written.
LEMMA TagsKept ==
    ASSUME NEW arb, NEW mu, NEW wr, NEW wb, NEW dm,
           CacheWires(arb, mu, wr, wb, dm), DMStep(dm), ~wr_cl_vld(mu)
    PROVE  \A w \in Way : ways'[w].tag = ways[w].tag
  <1>1. wr_cl_we(mu) = {}
    BY DEF wr_cl_vld
  <1> QED BY <1>1, TagStep

LEMMA CheckedStep ==
    ASSUME BufferInv, CacheInv,
           NEW core, NEW mem, NEW arb, NEW mu, NEW wr, NEW wb, NEW dm,
           CacheStep(core, mem, arb, mu, wr, wb, dm)
    PROVE  CheckedEntryKnowsItsWays'
  <1>a. /\ BufferWires(core, mem, arb, mu, wr, wb) /\ CacheWires(arb, mu, wr, wb, dm)
        /\ WBufferInput(wb) /\ WBStep(wb) /\ DMStep(dm)
    BY DEF CacheStep
  <1>1. ASSUME NEW k \in Slot, wbuffer_q'[k].checked
        PROVE  wbuffer_q'[k].hit_oh = {w \in Way : ways'[w].tag = wbuffer_q'[k].line}
    <2>1. /\ valid(k) /\ wbuffer_q'[k].line = wbuffer_q[k].line
          /\ ~wb.wr_cl_vld /\ ~wr_cl_vld_q
      BY <1>a, <1>1, CheckedIs
    <2>2. \/ wbuffer_q[k].checked /\ wbuffer_q'[k].hit_oh = wbuffer_q[k].hit_oh
          \/ \E c \in check_q1 : c.ptr = k /\ wbuffer_q'[k].hit_oh = c.hit_oh
      BY <1>a, <1>1, CheckedIs
    <2>3. ~wr_cl_vld(mu)
      BY <1>a, <2>1 DEF BufferWires
    <2>4. \A w \in Way : ways'[w].tag = ways[w].tag
      BY <1>a, <2>3, TagsKept
    <2>5. CASE wbuffer_q[k].checked /\ wbuffer_q'[k].hit_oh = wbuffer_q[k].hit_oh
      <3>1. wbuffer_q[k].hit_oh = {w \in Way : ways[w].tag = wbuffer_q[k].line}
        BY <2>5 DEF CacheInv, CheckedEntryKnowsItsWays
      <3> QED BY <2>1, <2>4, <2>5, <3>1
    <2>6. ASSUME NEW c \in check_q1, c.ptr = k, wbuffer_q'[k].hit_oh = c.hit_oh
          PROVE  wbuffer_q'[k].hit_oh = {w \in Way : ways'[w].tag = wbuffer_q'[k].line}
      <3>1. c.hit_oh = {w \in Way : ways[w].tag = wbuffer_q[k].line}
        BY <2>1, <2>6 DEF CacheInv, ChecksOK
      <3> QED BY <2>1, <2>4, <2>6, <3>1
    <2> QED BY <2>2, <2>5, <2>6
  <1> QED BY <1>1 DEF CheckedEntryKnowsItsWays

\* An entry that is to be checked stays: only a checked one is evicted.
LEMMA UncheckedStays ==
    ASSUME BufferInv, NEW in, WBufferInput(in), WBStep(in), NEW k \in tocheck
    PROVE  k \in Slot /\ wbuffer_q[k].line \in Line /\ wbuffer_q'[k].line = wbuffer_q[k].line
  <1>1. k \in Slot /\ wbuffer_q[k].valid # {} /\ ~wbuffer_q[k].checked
    BY DEF tocheck, valid
  <1>2. Gone(in, k) = {}
    BY <1>1, EvictFacts DEF Gone
  <1>3. wbuffer_q'[k].valid # {} /\ wbuffer_q'[k].line = wbuffer_q[k].line
    BY <1>1, <1>2, EntryStep
  <1>4. wbuffer_q[k].line \in Line
    BY <1>1 DEF BufferInv, EntriesOK, EntryOK
  <1> QED BY <1>1, <1>3, <1>4

LEMMA ChecksStep ==
    ASSUME BufferInv, CacheInv,
           NEW core, NEW mem, NEW arb, NEW mu, NEW wr, NEW wb, NEW dm,
           CacheStep(core, mem, arb, mu, wr, wb, dm)
    PROVE  ChecksOK'
  <1>a. /\ BufferWires(core, mem, arb, mu, wr, wb) /\ CacheWires(arb, mu, wr, wb, dm)
        /\ WBufferInput(wb) /\ WBStep(wb) /\ DMStep(dm)
    BY DEF CacheStep
  <1>b. /\ wb.rd_ack = rd_ack(wr, 2) /\ wb.wr_cl_vld = wr_cl_vld(mu)
        /\ wb.rd_hit_oh = UNION {rd_hit_oh(c.tag) : c \in check_q}
    BY <1>a DEF BufferWires
  <1>1. (check_q' # {} => rd_q'.port = 2) /\ \A c \in check_q' : wbuffer_q'[c.ptr].line = c.tag
    <2>1. CASE tocheck # {} /\ wb.rd_ack
      <3> DEFINE k == wb.check_ptr
      <3>1. check_q' = {[ptr |-> k, tag |-> wbuffer_q[k].line]}
        BY <1>a, <2>1 DEF WBStep
      <3>2. rd_q'.port = 2
        <4>1. arb.rd_sel = 2 /\ ~wr_cl_vld(mu)
          BY <1>a, <1>b, <2>1, Arbitration
        <4>2. 2 \in 0 .. 2
          OBVIOUS
        <4> QED BY <1>a, <4>1, <4>2, ReadoutStep
      <3>3. k \in tocheck
        BY <1>a, <2>1 DEF WBufferInput, check_choices
      <3>4. wbuffer_q'[k].line = wbuffer_q[k].line
        BY <1>a, <3>3, UncheckedStays
      <3>5. \A c \in check_q' : wbuffer_q'[c.ptr].line = c.tag
        BY <3>1, <3>4
      <3> QED BY <3>2, <3>5
    <2>2. CASE ~(tocheck # {} /\ wb.rd_ack)
      <3>1. check_q' = {}
        BY <1>a, <2>2 DEF WBStep
      <3> QED BY <3>1
    <2> QED BY <2>1, <2>2
  <1>3. ASSUME NEW c \in check_q1', valid(c.ptr)', ~wr_cl_vld_q'
        PROVE  c.hit_oh = {w \in Way : ways'[w].tag = wbuffer_q'[c.ptr].line}
    <2>1. PICK d \in check_q : c = [ptr |-> d.ptr, hit_oh |-> wb.rd_hit_oh]
      BY <1>a DEF WBStep
    <2>2. d \in [ptr: Slot, tag: Line] /\ check_q = {d}
      BY DEF BufferInv, WBTypeOK, AtMostOne
    <2>3. c.ptr = d.ptr /\ c.hit_oh = wb.rd_hit_oh /\ d.ptr \in Slot /\ d.tag \in Line
      BY <2>1, <2>2
    <2>4. wb.rd_hit_oh = rd_hit_oh(d.tag)
      BY <1>b, <2>2
    <2>5. wbuffer_q[d.ptr].line = d.tag /\ rd_q.port = 2
      BY DEF CacheInv, ChecksOK
    <2>6. valid(d.ptr)
      BY <2>3, <2>5, CacheAssumption DEF BufferInv, EntriesOK, EntryOK, EmptyEntry, valid
    <2>7. wbuffer_q'[d.ptr].line = d.tag
      <3>1. valid(d.ptr)'
        BY <1>3, <2>3 DEF valid
      <3> QED BY <1>a, <2>3, <2>5, <2>6, <3>1, LineStep
    <2>8. ~wr_cl_vld(mu)
      BY <1>a, <1>b, <1>3 DEF WBStep
    <2>9. \A w \in Way : ways'[w].tag = rd_q.set[w].tag
      BY <1>a, <2>5, <2>8, TagsKept DEF CacheInv, ReadoutTags
    <2>10. c.hit_oh = {w \in Way : rd_q.set[w].tag = d.tag}
      BY <2>3, <2>4 DEF rd_hit_oh
    <2> QED BY <2>3, <2>7, <2>9, <2>10
  <1>4. \A c \in check_q1' : valid(c.ptr)' /\ ~wr_cl_vld_q' =>
            c.hit_oh = {w \in Way : ways'[w].tag = wbuffer_q'[c.ptr].line}
    BY <1>3
  <1> QED BY <1>1, <1>4 DEF ChecksOK

\* The types of the memories.
LEMMA CacheTypesStep ==
    ASSUME BufferInv, CacheInv, MissInv,
           NEW core, NEW mem, NEW arb, NEW mu, NEW wr, NEW wb, NEW dm,
           CacheStep(core, mem, arb, mu, wr, wb, dm)
    PROVE  DMTypeOK'
  <1>a. /\ CacheWires(arb, mu, wr, wb, dm) /\ DMStep(dm)
    BY DEF CacheStep
  <1>0. EmptyWay \in WayState
    BY DEF EmptyWay, WayState
  <1>1. ASSUME NEW w \in Way PROVE ways'[w] \in WayState
    <2>0. ways[w].tag \in Line \cup {NoLine} /\ ways[w].data \subseteq Byte
      BY DEF CacheInv, DMTypeOK, WayState
    <2>1. CASE w \in wr_cl_we(mu) /\ w \notin wr_vld_bits(mu)
      BY <1>a, <1>0, <2>1, WayEmptied
    <2>2. CASE w \in wr_cl_we(mu) /\ w \in wr_vld_bits(mu)
      <3>1. ways'[w] = [tag |-> mshr_q.line, data |-> load \ stored(granted(wb), mshr_q.line)]
        BY <1>a, <2>2, WayFilled
      <3>2. mshr_q.line \in Line \cup {NoLine} /\ load \subseteq Byte
        BY DEF MissInv, MUTypeOK
      <3> QED BY <3>1, <3>2 DEF WayState
    <2>3. CASE w \notin wr_cl_we(mu) /\ ways[w].tag = NoLine
      BY <1>a, <1>0, <2>3, WayUnused
    <2>4. CASE w \notin wr_cl_we(mu) /\ ways[w].tag # NoLine
      <3> DEFINE d == (IF w \in wr_req_o /\ wr_ack(dm)
                       THEN (ways[w].data \ wr_data_be) \cup (wr_data \cap wr_data_be)
                       ELSE ways[w].data) \ stored(granted(wb), ways[w].tag)
      <3>1. ways'[w] = [tag |-> ways[w].tag, data |-> d]
        BY <1>a, <2>4, WayKept
      <3>2. w \in wr_req_o => wr_data \subseteq Byte
        <4>1. SUFFICES ASSUME w \in wr_req_o PROVE wr_data \subseteq Byte
          OBVIOUS
        <4>2. rtrn_fifo # <<>> /\ rtrn_fifo \in Seq(TxId)
          BY <4>1 DEF wr_req_o, returned, BufferInv, WBTypeOK
        <4>3. rtrn_id \in TxId
          BY <4>2 DEF rtrn_id
        <4>4. rtrn_ptr \in Slot
          BY <4>3 DEF rtrn_ptr, BufferInv, WBTypeOK, Tx
        <4> QED BY <4>4 DEF wr_data, BufferInv, WBTypeOK, Entry
      <3>3. d \subseteq Byte
        BY <2>0, <3>2
      <3> HIDE DEF d
      <3> QED BY <2>0, <3>1, <3>3 DEF WayState
    <2> QED BY <2>1, <2>2, <2>3, <2>4
  <1>2. ways' \in [Way -> WayState]
    <2>1. ways' = [w \in Way |-> ways'[w]]
      BY <1>a DEF DMStep
    <2> QED BY <1>1, <2>1
  <1>3. NoRead \in [port: 0 .. 3, set: [Way -> WayState]]
    BY <1>0 DEF NoRead
  <1>4. rd_q' \in [port: 0 .. 3, set: [Way -> WayState]]
    BY <1>a, <1>3, ReadoutStep
  <1> QED BY <1>2, <1>4 DEF DMTypeOK

\* The invariant of the memories.
LEMMA CacheInvStep ==
    ASSUME BufferInv, CacheInv, MissInv,
           NEW core, NEW mem, NEW arb, NEW mu, NEW wr, NEW wb, NEW dm,
           CacheStep(core, mem, arb, mu, wr, wb, dm)
    PROVE  CacheInv'
  <1>1. CacheWires(arb, mu, wr, wb, dm) /\ DMStep(dm)
    BY DEF CacheStep
  <1>2. MUTypeOK /\ MshrOK
    BY DEF MissInv
  <1>3. WaysFresh'
    BY <1>2, WaysFreshStep
  <1>4. ReadoutTags' /\ ReadoutFresh'
    BY <1>2, ReadoutFreshStep
  <1>5. ChecksOK' /\ CheckedEntryKnowsItsWays' /\ DMTypeOK'
    BY ChecksStep, CheckedStep, CacheTypesStep
  <1>6. LineInOneWay'
    BY <1>1, LineInOneWayStep
  <1> QED BY <1>3, <1>4, <1>5, <1>6 DEF CacheInv

\* The types of the miss unit and of the load in flight.
LEMMA MissTypesStep ==
    ASSUME MemoryInv, MissInv, NEW mem, NEW arb, NEW mu, NEW wb, MissWires(mem, arb, mu),
           arb.way \in Way, MUStep(mu), load' = load_d(mu, granted(wb))
    PROVE  MUTypeOK' /\ load' \subseteq Byte
  <1>a. MUTypeOK
    BY DEF MissInv
  <1>1. state_q' \in {"IDLE", "DRAIN", "AMO", "FLUSH", "STORE_WAIT", "LOAD_WAIT", "AMO_WAIT"}
    BY <1>a, StateStep DEF MUStep
  <1>2. enable_q' \in BOOLEAN
    BY DEF MUStep, enable_d, MissWires, MissInv, MUTypeOK
  <1>3. mshr_vld_q' \in BOOLEAN /\ mshr_vld_q1' \in BOOLEAN
    BY DEF MUStep, mshr_vld_d, MissInv, MUTypeOK
  <1>4. mshr_rdrd_collision_q' \in SUBSET ReadPort
    BY DEF MUStep, mshr_rdrd_collision
  <1>5. miss_req_masked_q' \in SUBSET (ReadPort \cup {WritePort})
    <2>1. miss_req_masked(mu) \subseteq {0, 1, 2}
      BY <1>a, MissLines DEF miss_req_masked, MUTypeOK, ReadPort, WritePort
    <2> QED BY <2>1 DEF MUStep, ReadPort, WritePort
  <1>6. CASE mshr_allocate(mu)
    <2> DEFINE p == port(mu)
    <2>1. load_req(mu)
      BY <1>6 DEF mshr_allocate
    <2>2. p \in ReadPort /\ ports[p].tag \in Line /\ line(mu, p) = ports[p].tag
      BY <2>1, LoadOffered
    <2>3. mu.nc[p + 1] \in BOOLEAN
      <3>1. mu.nc[p + 1] = is_nc(ports[p].tag)
        BY <2>2, MissLines
      <3>2. is_nc(ports[p].tag) \in BOOLEAN
        BY DEF is_nc
      <3> QED BY <3>1, <3>2
    <2>4. mshr_q' = [line |-> ports[p].tag, nc |-> mu.nc[p + 1],
                     repl_way |-> mu.repl_way, port |-> p]
      BY <1>6, <2>2 DEF MUStep, mshr_d
    <2>5. mu.repl_way \in Way
      BY DEF MissWires
    <2>6. mshr_q' \in [line: Line \cup {NoLine}, nc: BOOLEAN, repl_way: Way, port: ReadPort]
      <3> HIDE DEF p
      <3> QED BY <2>2, <2>3, <2>4, <2>5
    <2>7. load' \subseteq Byte
      <3>1. load' = memory[ports[p].tag] \ stored(granted(wb), ports[p].tag)
        BY <1>6, <2>2 DEF load_d
      <3> QED BY <2>2, <3>1 DEF MemoryInv, MemoryTypes
    <2> QED BY <1>1, <1>2, <1>3, <1>4, <1>5, <2>6, <2>7 DEF MUTypeOK
  <1>7. CASE ~mshr_allocate(mu)
    <2>1. mshr_q' \in [line: Line \cup {NoLine}, nc: BOOLEAN, repl_way: Way, port: ReadPort]
      BY <1>7, <1>a DEF MUStep, mshr_d, MUTypeOK
    <2>2. load' \subseteq Byte
      BY <1>7 DEF load_d, MissInv
    <2> QED BY <1>1, <1>2, <1>3, <1>4, <1>5, <2>1, <2>2 DEF MUTypeOK
  <1> QED BY <1>6, <1>7

-----------------------------------------------------------------------------
(* The answers to the core *)

\* A word whose bytes are the last values unless the buffer has them is, with
\* the bytes of the buffer laid over it, the last value.
LEMMA Overlaid ==
    ASSUME BufferInv, NEW l \in Line, NEW word, word \subseteq Byte,
           \A b \in Byte : b \in word \/ Buffered(l, b)
    PROVE  overlay(l, word) = Byte
  <1>1. CASE wbuffer_hit(l) = {}
    <2>1. ASSUME NEW b \in Byte PROVE ~Buffered(l, b)
      BY <1>1 DEF wbuffer_hit, Buffered, valid
    <2>2. word = Byte
      BY <2>1
    <2> QED BY <1>1, <2>2 DEF overlay
  <1>2. CASE wbuffer_hit(l) # {}
    <2> DEFINE k == Min(wbuffer_hit(l))
               e == wbuffer_q[k]
    <2>1. wbuffer_hit(l) \subseteq Nat
      BY SlotNat DEF wbuffer_hit
    <2>2. k \in wbuffer_hit(l)
      BY <1>2, <2>1, MinIn
    <2>3. k \in Slot /\ valid(k) /\ e.line = l
      BY <2>2 DEF wbuffer_hit
    <2>4. e.data = e.valid /\ e.valid \subseteq Byte
      BY <2>3 DEF BufferInv, EntriesOK, EntryOK, WBTypeOK, Entry
    <2>5. ASSUME NEW b \in Byte, Buffered(l, b) PROVE b \in e.valid
      <3>1. PICK j \in Slot : wbuffer_q[j].line = l /\ b \in wbuffer_q[j].valid
        BY <2>5 DEF Buffered
      <3>2. j = k
        BY <2>3, <3>1 DEF BufferInv, OneEntryPerLine, valid
      <3> QED BY <3>1, <3>2
    <2>6. overlay(l, word) = (e.data \cap e.valid) \cup (word \ e.valid)
      BY <1>2 DEF overlay
    <2> HIDE DEF e, k
    <2> QED BY <2>4, <2>5, <2>6
  <1> QED BY <1>1, <1>2

\* Every answer is the last value.
LEMMA ReadsStep ==
    ASSUME BufferInv, CacheInv, MissInv, NEW core, NEW mu, NEW wr, NEW in,
           CoreWires(core), PortWires(core, mu, wr, in),
           rdata' = [p \in ReadPort |-> rdata_d(core, in[p], p)]
    PROVE  /\ ReadsReturnLastStore'
           /\ rdata' \in [ReadPort -> SUBSET Byte]
  <1>a. PortTypes /\ PortsOK /\ MshrOK /\ load \subseteq Byte
    BY DEF MissInv
  <1>1. ASSUME NEW p \in ReadPort PROVE rdata'[p] = Byte
    <2> DEFINE i == in[p]
               l == rd_line(core, p)
    <2>0. rdata'[p] = rdata_d(core, i, p)
      OBVIOUS
    <2>1. /\ i.miss_rtrn = miss_rtrn(mu, p) /\ i.wr_cl_vld = wr_cl_vld(mu)
          /\ i.hit = (enable_q /\ rd_hit_oh(l) # {})
      BY DEF PortWires
    <2>2. CASE i.kill \/ ~P(p)!data_rvalid(i)
      BY <2>0, <2>2 DEF rdata_d
    <2>3. CASE ~i.kill /\ i.miss_rtrn
      <3>0. CASE ~P(p)!data_rvalid(i)
        BY <2>2, <3>0
      <3>1. CASE P(p)!data_rvalid(i)
        <4>1. mshr_vld_q
          BY <2>1, <2>3 DEF miss_rtrn, load_ack
        <4>2. mshr_q.line \in Line /\ \A b \in Byte : b \in load \/ Buffered(mshr_q.line, b)
          BY <1>a, <4>1 DEF MshrOK
        <4>3. overlay(mshr_q.line, load) = Byte
          BY <1>a, <4>2, Overlaid
        <4> QED BY <2>0, <2>3, <3>1, <4>3 DEF rdata_d
      <3> QED BY <3>0, <3>1
    <2>4. CASE ~i.kill /\ ~i.miss_rtrn /\ P(p)!data_rvalid(i)
      <3>1. P(p)!hits(i)
        BY <2>4 DEF P!data_rvalid
      <3>2. ports[p].state \in {"READ", "REPLAY_READ"} /\ ports[p].rd_ack /\ i.hit
        BY <3>1 DEF P!hits, P!compares, P!reading, P!void
      <3>3. l \in Line /\ rd_q.port = p /\ rd_hit_oh(l) # {}
        BY <1>a, <2>1, <3>2, RdLine DEF PortsOK
      <3>4. rd_hit_oh(l) \subseteq Nat
        BY CacheAssumption DEF rd_hit_oh
      <3>w. PICK w : w = Min(rd_hit_oh(l))
        OBVIOUS
      <3>5. w \in rd_hit_oh(l)
        BY <3>w, <3>3, <3>4, MinIn
      <3>6. w \in Way /\ rd_q.set[w].tag = l /\ l # NoLine
        BY <3>3, <3>5, CacheAssumption DEF rd_hit_oh
      <3>7. \A b \in Byte : b \in rd_q.set[w].data \/ Buffered(l, b)
        BY <3>3, <3>6 DEF CacheInv, ReadoutFresh
      <3>8. rd_q.set[w].data \subseteq Byte
        BY <3>6 DEF CacheInv, DMTypeOK, WayState
      <3>9. overlay(l, rd_q.set[w].data) = Byte
        BY <3>3, <3>7, <3>8, Overlaid
      <3>10. rd_data(l) = rd_q.set[w].data
        BY <3>w DEF rd_data
      <3>11. rdata_d(core, i, p) = overlay(l, rd_data(l))
        BY <2>4 DEF rdata_d
      <3> QED BY <2>0, <3>9, <3>10, <3>11
    <2> QED BY <2>2, <2>3, <2>4
  <1>2. rdata' \in [ReadPort -> SUBSET Byte]
    <2>1. rdata' = [p \in ReadPort |-> rdata'[p]]
      OBVIOUS
    <2> QED BY <1>1, <2>1
  <1> QED BY <1>1, <1>2 DEF ReadsReturnLastStore

-----------------------------------------------------------------------------
(* A clock cycle *)

IInv == /\ BufferInv /\ MemoryInv /\ CacheInv /\ MissInv
        /\ ReadsReturnLastStore /\ rdata \in [ReadPort -> SUBSET Byte]

LEMMA ArbitersAre ==
    ASSUME NEW req, NEW arb \in ArbiterChoices(req)
    PROVE  /\ arb.dirty_ptr \in dirty_choices /\ arb.check_ptr \in check_choices
           /\ arb.way \in Way
  <1> DEFINE Sel == rd_choices({p \in ReadPort : P(p)!rd_req_o([data_req |-> p \in req])}
                                   \cup (IF tocheck = {} THEN {} ELSE {2}))
             Ways == IF Missing = {} THEN {Min(Way)} ELSE Way
  <1>1. arb \in [rd_sel: Sel, dirty_ptr: dirty_choices, check_ptr: check_choices, way: Ways]
    BY DEF ArbiterChoices
  <1>2. Ways \subseteq Way
    BY CacheAssumption, MinIn
  <1> HIDE DEF Sel, Ways
  <1> QED BY <1>1, <1>2

\* An atomic is answered only when it has been taken.
LEMMA AtomicAnswered ==
    ASSUME NEW mem \in MemoryChoices, mem.rtrn.type = "ATOMIC_ACK"
    PROVE  state_q = "AMO_WAIT"
  <1> DEFINE Acks == IF Missing = {} /\ ~miss_req_o /\ state_q # "AMO" THEN {FALSE} ELSE BOOLEAN
             r == mem.rtrn
             Invalidations == {[type |-> "INV_REQ", ways |-> W] : W \in {{w} : w \in Way} \cup {Way}}
             Atomics == {[type |-> "ATOMIC_ACK"] : l \in
                          {l \in amo : state_q = "AMO_WAIT" /\ \A w \in Way : ways[w].tag # l}}
             StoreAcks == {[type |-> "STORE_ACK", tid |-> s.tid] : s \in stores}
  <1>1. mem \in [rtrn: Messages, ack: Acks]
    BY DEF MemoryChoices
  <1>2. r \in Messages
    BY <1>1
  <1>3. \/ r = NoMessage \/ r = [type |-> "LOAD_ACK"]
        \/ r \in StoreAcks \/ r \in Atomics \/ r \in Invalidations
    BY <1>2 DEF Messages
  <1>4. r \in StoreAcks => r.type = "STORE_ACK"
    OBVIOUS
  <1>5. r \in Invalidations => r.type = "INV_REQ"
    OBVIOUS
  <1>6. r \in Atomics => state_q = "AMO_WAIT"
    OBVIOUS
  <1> HIDE DEF StoreAcks, Invalidations, Atomics, Acks
  <1> QED BY <1>3, <1>4, <1>5, <1>6 DEF NoMessage

\* The inputs of the write buffer in a cycle.
LEMMA BufferInputs ==
    ASSUME BufferInv, MemoryInv, MissInv,
           NEW core, NEW mem, NEW arb, NEW mu, NEW wr, NEW wb, NEW in, NEW dm,
           Wired(core, mem, arb, mu, wr, wb, in, dm)
    PROVE  WBufferInput(wb)
  <1>1. BufferWires(core, mem, arb, mu, wr, wb) /\ MemoryStep(mem, arb, wb)
    BY WiresAre
  <1>2. CoreWires(core)
    <2>1. core \in CoreChoices /\ enable_q \in BOOLEAN
      BY DEF Wired, MissInv, MUTypeOK
    <2> QED BY <2>1, CoreIs
  <1>3. arb.dirty_ptr \in dirty_choices /\ arb.check_ptr \in check_choices
    BY ArbitersAre DEF Wired
  <1>4. \/ wb.store = {}
        \/ \E s : wb.store = {s} /\ s.line \in Line /\ s.be \subseteq Byte /\ s.nc \in BOOLEAN
    BY <1>1, <1>2 DEF BufferWires, CoreWires
  <1>5. wb.dirty_ptr \in dirty_choices /\ wb.check_ptr \in check_choices
    BY <1>1, <1>3 DEF BufferWires
  <1>6. wb.rd_hit_oh \subseteq Way
    <2>1. wb.rd_hit_oh = UNION {rd_hit_oh(c.tag) : c \in check_q}
      BY <1>1 DEF BufferWires
    <2>2. \A l : rd_hit_oh(l) \subseteq Way
      BY DEF rd_hit_oh
    <2> QED BY <2>1, <2>2
  <1>7. wb.wr_cl_vld \in BOOLEAN
    BY <1>1 DEF BufferWires, wr_cl_vld
  <1>8. \/ wb.rtrn = {}
        \/ \E t \in tx_vld : wb.rtrn = {t} /\ \A i \in 1 .. Len(rtrn_fifo) : rtrn_fifo[i] # t
    BY <1>1, RtrnIs
  <1> QED BY <1>4, <1>5, <1>6, <1>7, <1>8 DEF WBufferInput

LEMMA ClockStep ==
    ASSUME IInv, Clock, enable' = enable
    PROVE  IInv'
  <1>a. BufferInv /\ MemoryInv /\ CacheInv /\ MissInv
    BY DEF IInv
  <1>1. PICK core, mem, arb, mu, wr, wb, in, dm : Wired(core, mem, arb, mu, wr, wb, in, dm)
    BY ClockIsWired
  <1>2. /\ MissWires(mem, arb, mu) /\ BufferWires(core, mem, arb, mu, wr, wb)
        /\ CacheWires(arb, mu, wr, wb, dm) /\ MemoryStep(mem, arb, wb)
    BY <1>1, WiresAre
  <1>3. PortWires(core, mu, wr, in)
    BY <1>1, PortsAreWired
  <1>4. CoreWires(core)
    <2>1. core \in CoreChoices /\ enable_q \in BOOLEAN
      BY <1>a, <1>1 DEF Wired, MissInv, MUTypeOK
    <2> QED BY <2>1, CoreIs
  <1>5. arb.dirty_ptr \in dirty_choices /\ arb.way \in Way
    BY <1>1, ArbitersAre DEF Wired
  <1>6. WBufferInput(wb)
    BY <1>a, <1>1, BufferInputs
  <1>7. WBStep(wb) /\ MUStep(mu) /\ DMStep(dm)
    BY <1>1 DEF Wired
  <1>8. /\ ports' = [p \in ReadPort |-> port_d(in[p], p)]
        /\ rdata' = [p \in ReadPort |-> rdata_d(core, in[p], p)]
        /\ load' = load_d(mu, granted(wb))
        /\ amo' = IF amo_ack(mu) THEN {} ELSE amo
    BY <1>1 DEF Wired
  <1>9. mem.rtrn.type = "ATOMIC_ACK" => state_q = "AMO_WAIT"
    BY <1>1, AtomicAnswered DEF Wired
  <1>10. CacheStep(core, mem, arb, mu, wr, wb, dm)
    BY <1>2, <1>6, <1>7 DEF CacheStep, MUStep
  <1>11. BufferInv'
    BY <1>a, <1>6, <1>7, BufferStep
  <1>12. MemoryInv'
    BY <1>a, <1>2, <1>6, <1>7, MemoryInvStep
  <1>13. CacheInv'
    BY <1>a, <1>10, CacheInvStep
  <1>14. MUTypeOK' /\ load' \subseteq Byte
    BY <1>a, <1>2, <1>5, <1>7, <1>8, MissTypesStep
  <1>15. PortTypes' /\ PortsOK'
    <2>1. PortTypes /\ PortsOK
      BY <1>a DEF MissInv
    <2> QED BY <1>a, <1>2, <1>3, <1>4, <1>7, <1>8, <2>1, PortsStep
  <1>16. MissesOK'
    BY <1>a, <1>2, <1>3, <1>4, <1>7, <1>8, MissesStep
  <1>17. MshrOK'
    BY <1>a, <1>2, <1>5, <1>7, <1>8, <1>10, MshrStep
  <1>18. LoadWait'
    BY <1>a, <1>2, <1>3, <1>5, <1>6, <1>7, <1>8, LoadWaitStep
  <1>19. StoreWait'
    BY <1>a, <1>2, <1>5, <1>6, <1>7, StoreWaitStep
  <1>20. AmoOK' /\ amo' \in SUBSET Line
    BY <1>a, <1>2, <1>4, <1>6, <1>7, <1>8, <1>9, AmoStep
  <1>21. enable' \in BOOLEAN
    BY <1>a DEF MissInv
  <1>22. MissInv'
    BY <1>14, <1>15, <1>16, <1>17, <1>18, <1>19, <1>20, <1>21 DEF MissInv
  <1>23. ReadsReturnLastStore' /\ rdata' \in [ReadPort -> SUBSET Byte]
    BY <1>a, <1>3, <1>4, <1>8, ReadsStep
  <1> QED BY <1>11, <1>12, <1>13, <1>22, <1>23 DEF IInv

\* Without a clock the cache and the memory stay.
LEMMA UnclockedStep ==
    ASSUME IInv, UNCHANGED <<ports, cacheVars, memVars>>,
           amo' \in SUBSET Line, amo = amo' \/ amo = {}, enable' \in BOOLEAN,
           UNCHANGED rdata \/ rdata' = [p \in ReadPort |-> Byte]
    PROVE  IInv'
  <1>1. UNCHANGED <<ports, wbVars, muVars, dmVars, memory, stores, load>>
    BY DEF cacheVars, memVars
  <1>2. BufferInv'
    BY <1>1 DEF IInv, BufferInv, WBTypeOK, EntriesOK, OneEntryPerLine, OneTransaction,
                OfferedIsDirty, AnswersOK, wbVars, valid, tx_vld, dirty, bdirty
  <1>3. MemoryInv'
    BY <1>1 DEF IInv, MemoryInv, MemoryTypes, StoresOK, FlightOK, AnsweredInMemory, Survives,
                Buffered, wbVars, tx_vld
  <1>4. CacheInv'
    BY <1>1 DEF IInv, CacheInv, DMTypeOK, ReadoutTags, WaysFresh, ReadoutFresh, ChecksOK,
                CheckedEntryKnowsItsWays, LineInOneWay, Buffered, valid, wbVars, muVars, dmVars
  <1>5. MissInv'
    <2>1. MUTypeOK' /\ PortTypes' /\ PortsOK' /\ load' \subseteq Byte
      BY <1>1 DEF IInv, MissInv, MUTypeOK, PortTypes, PortsOK, muVars, dmVars
    <2>2. MissesOK' /\ MshrOK'
      BY <1>1 DEF IInv, MissInv, MissesOK, MshrOK, Missing, P!miss_req_o, Buffered, tx_lines,
                  tx_vld, wbVars, muVars, dmVars
    <2>3. LoadWait' /\ StoreWait'
      BY <1>1 DEF IInv, MissInv, LoadWait, StoreWait, Missing, P!miss_req_o, tx_lines, tx_vld,
                  dirty, bdirty, wbVars, muVars
    <2>4. AmoOK'
      BY <1>1 DEF IInv, MissInv, AmoOK, empty_o, valid, wbVars, muVars
    <2> QED BY <2>1, <2>2, <2>3, <2>4 DEF MissInv
  <1>6. ReadsReturnLastStore' /\ rdata' \in [ReadPort -> SUBSET Byte]
    BY DEF IInv, ReadsReturnLastStore
  <1> QED BY <1>2, <1>3, <1>4, <1>5, <1>6 DEF IInv

LEMMA NextStep ==
    ASSUME IInv, [Next]_vars
    PROVE  IInv'
  <1>1. CASE Clock
    <2>1. enable' = enable
      BY <1>1 DEF Clock, Cycle
    <2> QED BY <1>1, <2>1, ClockStep
  <1>2. CASE Atomic
    BY <1>2, UnclockedStep DEF Atomic, IInv, MissInv
  <1>3. CASE WriteCsr
    BY <1>3, UnclockedStep DEF WriteCsr, IInv, MissInv
  <1>4. CASE UNCHANGED vars
    BY <1>4, UnclockedStep DEF vars, IInv, MissInv
  <1> QED BY <1>1, <1>2, <1>3, <1>4 DEF Next

\* After reset: nothing is buffered or in flight, and the ways hold anything.
LEMMA Initially ==
    ASSUME Init
    PROVE  IInv
  <1>0. 0 \in Slot /\ Min(Way) \in Way
    BY SlotNat, CacheAssumption, MinIn
  <1>1. /\ wbuffer_q = [k \in Slot |-> EmptyEntry]
        /\ tx_stat_q = [t \in TxId |-> [vld |-> FALSE, ptr |-> 0, be |-> {}]]
        /\ rtrn_fifo = <<>> /\ check_q = {} /\ check_q1 = {} /\ dirty_lock = {}
        /\ wr_cl_vld_q = FALSE /\ nc_pending_q = FALSE
    BY DEF Init, WBInit
  <1>2. tx_vld = {}
    BY <1>1 DEF tx_vld
  <1>3. \A k \in Slot : wbuffer_q[k] = EmptyEntry /\ ~valid(k)
    BY <1>1 DEF valid, EmptyEntry
  <1>4. BufferInv
    <2>1. EmptyEntry \in Entry
      BY DEF EmptyEntry, Entry
    <2>2. [vld |-> FALSE, ptr |-> 0, be |-> {}] \in Tx
      BY <1>0 DEF Tx
    <2>3. wbuffer_q \in [Slot -> Entry] /\ tx_stat_q \in [TxId -> Tx]
      BY <1>1, <2>1, <2>2
    <2>4. WBTypeOK
      <3>1. \A S : {} \in AtMostOne(S)
        BY DEF AtMostOne
      <3>2. <<>> \in Seq(TxId)
        OBVIOUS
      <3> QED BY <1>1, <2>3, <3>1, <3>2 DEF WBTypeOK
    <2>5. EntriesOK
      <3>1. EntryOK(EmptyEntry)
        <4>1. /\ EmptyEntry.valid = {} /\ EmptyEntry.dirty = {} /\ EmptyEntry.txblock = {}
              /\ EmptyEntry.data = {}
          BY DEF EmptyEntry
        <4> QED BY <4>1 DEF EntryOK
      <3> QED BY <1>3, <3>1 DEF EntriesOK
    <2>6. OneEntryPerLine /\ OneTransaction
      BY <1>2, <1>3 DEF OneEntryPerLine, OneTransaction, EmptyEntry
    <2>7. OfferedIsDirty /\ AnswersOK
      BY <1>1 DEF OfferedIsDirty, AnswersOK
    <2> QED BY <2>4, <2>5, <2>6, <2>7 DEF BufferInv
  <1>5. MemoryInv
    <2>1. memory = [l \in Line |-> Byte] /\ stores = {}
      BY DEF Init
    <2> QED BY <1>1, <2>1 DEF MemoryInv, MemoryTypes, StoresOK, AnsweredInMemory, Survives
  <1>6. state_q = "FLUSH" /\ ~mshr_vld_q /\ rd_q = NoRead
    BY DEF Init, MUInit, DMInit
  <1>7. CacheInv
    <2>1. ways \in [Way -> WayState]
      <3>1. [tag: Line \cup {NoLine}, data: {{}}] \subseteq WayState
        BY DEF WayState
      <3> QED BY <3>1 DEF Init, DMInit
    <2>2. NoRead \in [port: 0 .. 3, set: [Way -> WayState]] /\ NoRead.port = 3
      BY DEF NoRead, EmptyWay, WayState
    <2>3. DMTypeOK /\ ReadoutTags /\ ReadoutFresh
      BY <1>6, <2>1, <2>2 DEF DMTypeOK, ReadoutTags, ReadoutFresh, ReadPort
    <2>4. ChecksOK /\ CheckedEntryKnowsItsWays
      BY <1>1, <1>3 DEF ChecksOK, CheckedEntryKnowsItsWays, EmptyEntry
    <2> QED BY <1>6, <2>3, <2>4 DEF CacheInv, WaysFresh, LineInOneWay
  <1>8. MissInv
    <2>1. ports = [p \in ReadPort |-> [state |-> "IDLE", tag |-> NoLine, rd_ack |-> FALSE]]
      BY DEF Init
    <2>2. PortTypes /\ PortsOK
      BY <2>1 DEF PortTypes, PortsOK, P!State
    <2>3. MUTypeOK
      BY <1>0 DEF Init, MUInit, MUTypeOK, ReadPort
    <2>4. load = {} /\ amo = {} /\ enable = TRUE
      BY DEF Init
    <2> QED BY <1>6, <2>2, <2>3, <2>4
            DEF MissInv, MissesOK, MshrOK, LoadWait, StoreWait, AmoOK
  <1>9. ReadsReturnLastStore /\ rdata \in [ReadPort -> SUBSET Byte]
    BY DEF Init, ReadsReturnLastStore
  <1> QED BY <1>4, <1>5, <1>7, <1>8, <1>9 DEF IInv

LEMMA Invariance == Spec => []IInv
  BY Initially, NextStep, PTL DEF Spec

-----------------------------------------------------------------------------
(* The theorems *)

\* The answers are different transactions, so there are no more than those.
LEMMA FewAnswers ==
    ASSUME BufferInv
    PROVE  Len(rtrn_fifo) <= MAX_TX
  <1>1. rtrn_fifo \in Seq(TxId) /\ Len(rtrn_fifo) \in Nat
    BY DEF BufferInv, WBTypeOK
  <1>2. MAX_TX \in Nat \ {0}
    BY CacheAssumption
  <1>3. IsFiniteSet(TxId) /\ Cardinality(TxId) = MAX_TX
    <2>1. 0 \in Int /\ MAX_TX - 1 \in Int
      BY <1>2
    <2>2. /\ IsFiniteSet(0 .. MAX_TX - 1)
          /\ Cardinality(0 .. MAX_TX - 1) = IF 0 > MAX_TX - 1 THEN 0 ELSE (MAX_TX - 1) - 0 + 1
      BY <2>1, FS_Interval
    <2> QED BY <1>2, <2>2 DEF TxId
  <1>4. IsFiniteSet(1 .. Len(rtrn_fifo)) /\ Cardinality(1 .. Len(rtrn_fifo)) = Len(rtrn_fifo)
    <2>1. /\ IsFiniteSet(1 .. Len(rtrn_fifo))
          /\ Cardinality(1 .. Len(rtrn_fifo)) =
                IF 1 > Len(rtrn_fifo) THEN 0 ELSE Len(rtrn_fifo) - 1 + 1
      BY <1>1, FS_Interval
    <2> QED BY <1>1, <2>1
  <1>5. SUFFICES ASSUME Len(rtrn_fifo) > MAX_TX PROVE FALSE
    BY <1>1, <1>2
  <1>6. rtrn_fifo \in [1 .. Len(rtrn_fifo) -> TxId]
    BY <1>1
  <1>7. Cardinality(1 .. Len(rtrn_fifo)) > Cardinality(TxId)
    BY <1>3, <1>4, <1>5
  <1>8. \E i, j \in 1 .. Len(rtrn_fifo) : i # j /\ rtrn_fifo[i] = rtrn_fifo[j]
    BY <1>3, <1>4, <1>6, <1>7, FS_PigeonHole
  <1> QED BY <1>8 DEF BufferInv, AnswersOK

\* Types of the registers of wt_dcache.sv and its parts; only a read port owns
\* the MSHR, and i_rtrn_id_fifo never holds more than DCACHE_MAX_TX answers.
THEOREM TypeCorrect == Spec => []DCacheTypeOK
  <1>1. IInv => DCacheTypeOK
    BY FewAnswers DEF IInv, BufferInv, MemoryInv, MemoryTypes, CacheInv, MissInv, PortTypes,
                      DCacheTypeOK
  <1> QED BY <1>1, Invariance, PTL

\* A read that is answered returns, byte by byte, the value stored last
\* (the overlay of wbuffer_data_i in wt_dcache_mem.sv, the collision checks of
\* wt_dcache_missunit.sv, the replay of wt_dcache_ctrl.sv).
THEOREM ReadsAreLast == Spec => []ReadsReturnLastStore
  <1>1. IInv => ReadsReturnLastStore
    BY DEF IInv
  <1> QED BY <1>1, Invariance, PTL

\* A checked entry of the write buffer knows the ways that hold its line
\* (inval_hit, check_en_q1 and wr_cl_vld_q of wt_dcache_wbuffer.sv).
THEOREM ChecksAreCurrent == Spec => []CheckedEntryKnowsItsWays
  <1>1. IInv => CheckedEntryKnowsItsWays
    BY DEF IInv, CacheInv
  <1> QED BY <1>1, Invariance, PTL

\* No line is in two ways (mshr_rdrd_collision of wt_dcache_missunit.sv).
THEOREM WaysDiffer == Spec => []LineInOneWay
  <1>1. IInv => LineInOneWay
    BY DEF IInv, CacheInv
  <1> QED BY <1>1, Invariance, PTL

\* The last store to a byte is in memory or in the write buffer, whatever the
\* order in which the memory performs the transactions (p_tx_stat, p_buffer).
THEOREM StoresSurvive == Spec => []LastStoreSurvives
  <1>1. ASSUME IInv PROVE LastStoreSurvives
    <2>1. ASSUME NEW l \in Line, NEW b \in Byte, b \notin memory[l]
          PROVE  \E k \in Slot : /\ wbuffer_q[k].line = l /\ b \in wbuffer_q[k].valid
                                 /\ b \in wbuffer_q[k].data
      <3>1. PICK k \in Slot : wbuffer_q[k].line = l /\ b \in wbuffer_q[k].valid
        BY <1>1, <2>1 DEF IInv, MemoryInv, Survives, Buffered
      <3>2. wbuffer_q[k].data = wbuffer_q[k].valid
        BY <1>1 DEF IInv, BufferInv, EntriesOK, EntryOK
      <3> QED BY <3>1, <3>2
    <2> QED BY <2>1 DEF LastStoreSurvives
  <1> QED BY <1>1, Invariance, PTL

\* An atomic is sent when all stores before it are in memory (the DRAIN state
\* of wt_dcache_missunit.sv).
THEOREM AtomicsAfterStores == Spec => []AtomicSeesAllStores
  <1>1. ASSUME IInv, state_q \in {"AMO", "AMO_WAIT"}, NEW l \in amo PROVE memory[l] = Byte
    <2>1. empty_o /\ l \in Line
      BY <1>1 DEF IInv, MissInv, AmoOK
    <2>2. ASSUME NEW b \in Byte PROVE ~Buffered(l, b)
      BY <2>1 DEF empty_o, valid, Buffered
    <2>3. memory[l] \subseteq Byte
      BY <1>1, <2>1 DEF IInv, MemoryInv, MemoryTypes
    <2> QED BY <1>1, <2>1, <2>2, <2>3 DEF IInv, MemoryInv, Survives
  <1>2. IInv => AtomicSeesAllStores
    BY <1>1 DEF AtomicSeesAllStores
  <1> QED BY <1>2, Invariance, PTL

\* The transactions of tx_stat_q cover exactly what the entries block, and the
\* memory answers only transactions that are on record.
THEOREM TransactionsMatch == Spec => []TransactionsMatchEntries
  <1>1. ASSUME IInv PROVE TransactionsMatchEntries
    <2>1. ASSUME NEW k \in Slot
          PROVE  /\ wbuffer_q[k].valid = wbuffer_q[k].dirty \cup wbuffer_q[k].txblock
                 /\ wbuffer_q[k].txblock = UNION {tx_stat_q[t].be :
                                               t \in {u \in tx_vld : tx_stat_q[u].ptr = k}}
      <3>0. BufferInv
        BY <1>1 DEF IInv
      <3>1. wbuffer_q[k].valid = wbuffer_q[k].dirty \cup wbuffer_q[k].txblock
        BY <3>0 DEF BufferInv, EntriesOK, EntryOK
      <3>2. ASSUME NEW t \in tx_vld, tx_stat_q[t].ptr = k
            PROVE  tx_stat_q[t].be = wbuffer_q[k].txblock
        BY <3>0, <3>2 DEF BufferInv, OneTransaction
      <3>3. wbuffer_q[k].txblock # {} => \E t \in tx_vld : tx_stat_q[t].ptr = k
        BY <3>0 DEF BufferInv, OneTransaction
      <3>4. ASSUME NEW b, b \in wbuffer_q[k].txblock
            PROVE  b \in UNION {tx_stat_q[t].be : t \in {u \in tx_vld : tx_stat_q[u].ptr = k}}
        BY <3>2, <3>3, <3>4
      <3>5. ASSUME NEW b, b \in UNION {tx_stat_q[t].be : t \in {u \in tx_vld : tx_stat_q[u].ptr = k}}
            PROVE  b \in wbuffer_q[k].txblock
        BY <3>2, <3>5
      <3> QED BY <3>1, <3>4, <3>5
    <2>2. \A s \in stores : tx_stat_q[s.tid].vld
      BY <1>1 DEF IInv, MemoryInv, StoresOK, FlightOK, tx_vld
    <2> QED BY <2>1, <2>2 DEF TransactionsMatchEntries
  <1> QED BY <1>1, Invariance, PTL
=============================================================================
