------------------------------- MODULE MCCore -------------------------------
(***************************************************************************)
(* Small programs for the model checker: the front end issues any sequence *)
(* of instructions from the set a configuration picks.                     *)
(***************************************************************************)
EXTENDS Core

CONSTANTS p1, p2, p3, o1, d1, d2   \* model values for pages, offsets and data

Access(op, p, o, d) ==
    [op |-> op, req |-> [page |-> p, off |-> o, data |-> d], misaligned |-> FALSE]
Load(p, o) == Access("load", p, o, zero.data)
Put(p, o, d) == Access("store", p, o, d)
Amo(p, o, d) == Access("amo", p, o, d)
Misaligned(ins) == [ins EXCEPT !.misaligned = TRUE]
Other(op) == [op |-> op, req |-> zero, misaligned |-> FALSE]

OrderInstr == {Load(p1, o1), Put(p1, o1, d2), Other("csr")}

CommitInstr == {Put(p1, o1, d1), Put(p1, o1, d2), Amo(p1, o1, d1),
                Other("sfence"), Other("trap")}

FaultInstr == {Load(p1, o1), Load(p2, o1), Put(p3, o1, d2), Misaligned(Load(p1, o1))}

LiveInstr == {Load(p2, o1), Put(p1, o1, d1)}

ExceptionInstr == {Load(p1, o1), Load(p2, o1)}
StepInstr == {Load(p1, o1), Put(p1, o1, d2)}
=============================================================================
