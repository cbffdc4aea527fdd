----------------------------- MODULE MCWalkPort -----------------------------
(***************************************************************************)
(* Progress of the page table walker.  As in MCCoreLive, clk makes every   *)
(* cycle visible and fairness says what the data cache does: it serves a   *)
(* read port at last.                                                      *)
(***************************************************************************)
EXTENDS WalkPort

VARIABLE clk

ReadOffered == ptw_state_q = "WAIT_GRANT" /\ dc_state_q = "IDLE"
Replays == dc_state_q \in {"REPLAY_REQ", "REPLAY_READ", "MISS_REQ"}
Misses == dc_state_q = "MISS_WAIT"

LiveInit == Init /\ clk = FALSE
LiveNext == Next /\ clk' = ~clk

Fairness ==
    /\ []<>clk /\ []<>~clk
    /\ []<>~ReadOffered /\ []<>~Replays /\ []<>~Misses

LiveSpec == LiveInit /\ [][LiveNext]_<<vars, clk>> /\ Fairness

\* Every walk ends, flushed or not: the walker never waits for an
\* answer that does not come, and a walk of LEVELS levels does not restart.
WalkEnds == ptw_state_q # "IDLE" ~> ptw_state_q = "IDLE"
=============================================================================
