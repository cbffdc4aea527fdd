----------------------------- MODULE CacheTypes -----------------------------
(***************************************************************************)
(* What the parts of the write-through data cache share.  All lines are of *)
(* the same set and a line has one word.  A value is abstracted to whether *)
(* it is the one stored last: every place that can hold a word holds the   *)
(* set of its bytes for which it is, and a store that is granted removes   *)
(* its bytes everywhere but in the write buffer.                           *)
(***************************************************************************)
EXTENDS Naturals, Sequences, FiniteSetsExt

CONSTANTS Line, Byte, Way,
          DEPTH,       \* entries of the write buffer, DCACHE_WBUF_DEPTH
          MAX_TX       \* its transactions in flight, DCACHE_MAX_TX

NoLine == "no line"     \* the address of what is not valid

ASSUME CacheAssumption ==
    /\ NoLine \notin Line
    /\ Byte \subseteq 0 .. 7
    /\ Way \subseteq Nat /\ IsFiniteSet(Way) /\ Way # {}
    /\ DEPTH \in Nat \ {0} /\ MAX_TX \in Nat \ {0}

\* The bytes of line l among those of `new', the store granted in this
\* cycle ({} or {[line, be, nc]}).
stored(new, l) == UNION {s.be : s \in {s \in new : s.line = l}}
=============================================================================
