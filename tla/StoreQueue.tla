----------------------------- MODULE StoreQueue -----------------------------
(***************************************************************************)
(* What the store buffer promises, without pointers, counters and valid    *)
(* bits: two FIFO queues.  A store enters the speculative queue, moves to  *)
(* the committed queue in program order when it commits, and leaves that   *)
(* queue in the same order when the cache takes it.  A flush discards the  *)
(* speculative stores, all of them, and nothing else.                      *)
(*                                                                         *)
(* All four may happen in one clock cycle, except that a cycle that        *)
(* commits does not flush.                                                 *)
(***************************************************************************)
EXTENDS Sequences, Naturals

CONSTANTS SPEC_CAPACITY, COMMIT_CAPACITY, Store

VARIABLES speculative, committed

\* The stores that enter the speculative queue in a cycle: none or one.
Arrival == {<<>>} \cup {<<s>> : s \in Store}

Init == speculative = <<>> /\ committed = <<>>

Drop(q, b) == IF b THEN Tail(q) ELSE q

Cycle(arrival, commit, grant) ==
    /\ commit => speculative # <<>> /\ Len(committed) < COMMIT_CAPACITY
    /\ grant => committed # <<>>
    /\ speculative' = Drop(speculative, commit) \o arrival
    /\ Len(speculative') <= SPEC_CAPACITY
    /\ committed' = Drop(committed, grant)
                       \o (IF commit THEN <<Head(speculative)>> ELSE <<>>)

Flush(grant) ==
    /\ grant => committed # <<>>
    /\ speculative' = <<>>
    /\ committed' = Drop(committed, grant)

Next == \/ \E arrival \in Arrival, commit, grant \in BOOLEAN :
              Cycle(arrival, commit, grant)
        \/ \E grant \in BOOLEAN : Flush(grant)

Spec == Init /\ [][Next]_<<speculative, committed>>
=============================================================================
