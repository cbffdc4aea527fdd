-------------------------------- MODULE Harts --------------------------------
(***************************************************************************)
(* The harts of the machine layer (src/pk/machine), each at one place of   *)
(* the code: "super" while it runs the supervisor, or a label of Htif or   *)
(* Ipi while it serves a call in machine mode, with interrupts off.        *)
(* MAX_HARTS is 1 in the sources, marked "arbitrary" (mtrap.h:9); the code *)
(* is written for any number.                                              *)
(***************************************************************************)
EXTENDS Naturals, FiniteSets, FiniteSetsExt

CONSTANT MAX_HARTS

ASSUME HartsAssumption == MAX_HARTS \in Nat \ {0}

Hart == 0 .. MAX_HARTS - 1

VARIABLE pc        \* [Hart -> label]

At(h, l)       == pc[h] = l
Step(h, a, b)  == At(h, a) /\ pc' = [pc EXCEPT ![h] = b]
=============================================================================
