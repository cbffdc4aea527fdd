----------------------------- MODULE MCCoreLive -----------------------------
(***************************************************************************)
(* Progress of the pipeline of Core.tla.                                   *)
(*                                                                         *)
(* The variable clk makes every cycle visible, including one in which no   *)
(* register changes, so that fairness can be stated on states: the clock   *)
(* ticks, and the data cache and the page tables answer.  Nothing is asked *)
(* of the front end, which may stop to issue at any time.                  *)
(***************************************************************************)
EXTENDS MCCore

VARIABLE clk

liveVars == <<coreVars, clk>>

LiveInit == Init /\ clk = FALSE
LiveNext == Next /\ clk' = ~clk

-----------------------------------------------------------------------------
(* Situations that only an answer of the environment ends.  A load whose    *)
(* reads are lost to refills or whose miss is replayed is served at last,   *)
(* since the arbiters of the cache rotate and the write it conflicts with   *)
(* completes.                                                               *)

StoreOffered(k) == data_req /\ commit_read_pointer_q = k
AmoOffered == amo_req(amo_valid_commit)
WritesPending == ld_state_q = "WAIT_WB_EMPTY"
LoadOffered == ld_state_q = "WAIT_GNT" /\ dc_state_q = "IDLE"
LoadReplays == dc_state_q \in {"REPLAY_REQ", "REPLAY_READ", "MISS_REQ", "KILL_MISS_ACK"}
LoadMisses == dc_state_q \in {"MISS_WAIT", "KILL_MISS"}
Walks == ptw_state_q \in {"WAIT_GRANT", "PTE_LOOKUP", "WAIT_RVALID"}

Fairness ==
    /\ []<>clk /\ []<>~clk
    /\ \A k \in CommitIndex : []<>~StoreOffered(k)
    /\ []<>~AmoOffered
    /\ []<>~WritesPending
    /\ []<>~LoadOffered
    /\ []<>~LoadReplays
    /\ []<>~LoadMisses
    /\ []<>~Walks

LiveSpec == LiveInit /\ [][LiveNext]_liveVars /\ Fairness

-----------------------------------------------------------------------------

\* Every issued instruction leaves the scoreboard.  A load behind a store to
\* the same page offset waits for the store to reach the cache, the store
\* waits to be the oldest instruction, and a load of a non-idempotent page
\* waits for that itself.
EveryInstructionLeaves ==
    \A i \in TransId : mem_sb[i].issued ~> ~mem_sb[i].issued
=============================================================================
