--------------------------------- MODULE Ipi ---------------------------------
(***************************************************************************)
(* Inter-processor interrupts of the machine layer: send_ipi and           *)
(* send_ipi_many (src/pk/machine/mtrap.c) on the sender's side, the        *)
(* interrupt entry of mentry.S on the receiver's.                          *)
(*                                                                         *)
(* Every access to a word that another hart also uses is a step of its     *)
(* own; the atomic operations are those of a build with the A extension,   *)
(* and the fences of the code order the rest.  Hart is the set of harts    *)
(* that are not disabled: a disabled hart gets no event and its ipi word   *)
(* stays clear, so that nobody waits for it.  The two remote fences differ *)
(* in the instruction the receiver executes and are one event here.        *)
(* Names ending in _Mutant are mistakes the checks are known to find; no   *)
(* specification uses them.                                                *)
(***************************************************************************)
EXTENDS Harts

VARIABLES
    ipi,           \* [Hart -> BOOLEAN] *hls->ipi: the interrupt line
    pending,       \* [Hart -> events]  hls->mipi_pending
    ssip,          \* [Hart -> BOOLEAN] MIP_SSIP
    event,         \* [Hart -> event]   argument of send_ipi_many
    mask,          \* [Hart -> set of harts] the harts it addresses
    todo,          \* [Hart -> set of harts] the harts left in the present loop
    incoming,      \* [Hart -> BOOLEAN] incoming_ipi
    taken,         \* [Hart -> events]  the events the handler has fetched
    owed           \* history: [Hart -> senders whose fence it has not executed]

ipiVars == <<ipi, pending, ssip, event, mask, todo, incoming, taken, owed>>

Event == {"soft", "fence", "halt"}

IpiInit ==
    /\ ipi = [h \in Hart |-> FALSE]
    /\ pending = [h \in Hart |-> {}]
    /\ ssip = [h \in Hart |-> FALSE]
    /\ event = [h \in Hart |-> "soft"]
    /\ mask = [h \in Hart |-> {}]
    /\ todo = [h \in Hart |-> {}]
    /\ incoming = [h \in Hart |-> FALSE]
    /\ taken = [h \in Hart |-> {}]
    /\ owed = [h \in Hart |-> {}]

-----------------------------------------------------------------------------
(* The sender.                                                              *)

\* send_ipi_many is entered with the harts of M to address.
SendMany(h, e, M) ==
    /\ event' = [event EXCEPT ![h] = e]
    /\ mask' = [mask EXCEPT ![h] = M]
    /\ todo' = [todo EXCEPT ![h] = M]
    /\ incoming' = [incoming EXCEPT ![h] = FALSE]
    /\ UNCHANGED <<ipi, pending, ssip, taken, owed>>

Target(h) == Min(todo[h])

\* send_ipi posts the event ...
PostEvent(h) ==
    /\ Step(h, "post", "ring")
    /\ pending' = [pending EXCEPT ![Target(h)] = @ \cup {event[h]}]
    /\ owed' = IF event[h] = "fence"
               THEN [owed EXCEPT ![Target(h)] = @ \cup {h}] ELSE owed
    /\ UNCHANGED <<ipi, ssip, event, mask, todo, incoming, taken>>

\* ... and raises the line; after the last hart the loop that waits begins,
\* except for a software interrupt.
RingLine_Mutant(h) ==
    LET rest == todo[h] \ {Target(h)} IN
    /\ Step(h, "ring", IF rest # {} THEN "post"
                       ELSE IF event[h] = "halt" THEN "watch" ELSE "super")
    /\ ipi' = [ipi EXCEPT ![Target(h)] = TRUE]
    /\ todo' = [todo EXCEPT ![h] = rest]
    /\ mask' = [mask EXCEPT ![h] = IF rest = {} THEN {} ELSE @]
    /\ UNCHANGED <<pending, ssip, event, incoming, taken, owed>>

RingLine(h) ==
    LET rest == todo[h] \ {Target(h)} IN
    /\ Step(h, "ring", IF rest # {} THEN "post"
                       ELSE IF event[h] = "soft" THEN "super" ELSE "watch")
    /\ ipi' = [ipi EXCEPT ![Target(h)] = TRUE]
    /\ todo' = [todo EXCEPT ![h] = IF rest = {} /\ event[h] # "soft" THEN mask[h] ELSE rest]
    /\ mask' = [mask EXCEPT ![h] = IF rest = {} THEN {} ELSE @]
    /\ UNCHANGED <<pending, ssip, event, incoming, taken, owed>>

\* The sender looks at the line of the next hart ...
Watch(h) ==
    /\ todo[h] # {}
    /\ \/ /\ ~ipi[Target(h)]
          /\ At(h, "watch")
          /\ todo' = [todo EXCEPT ![h] = @ \ {Target(h)}]
          /\ UNCHANGED pc
       \/ /\ ipi[Target(h)]
          /\ Step(h, "watch", "consume")
          /\ UNCHANGED todo
    /\ UNCHANGED <<ipi, pending, ssip, event, mask, incoming, taken, owed>>

\* ... and, as long as that is raised, takes its own line down.
Consume_Mutant(h) ==
    /\ Step(h, "consume", "watch")
    /\ UNCHANGED ipiVars

Consume(h) ==
    /\ Step(h, "consume", "watch")
    /\ incoming' = [incoming EXCEPT ![h] = @ \/ ipi[h]]
    /\ ipi' = [ipi EXCEPT ![h] = FALSE]
    /\ UNCHANGED <<pending, ssip, event, mask, todo, taken, owed>>

\* The line it took down is raised again and the interrupt taken on return; the
\* halting hart stays in wfi.
Restore_Mutant(h) ==
    /\ todo[h] = {}
    /\ Step(h, "watch", IF event[h] = "halt" THEN "halted" ELSE "super")
    /\ incoming' = [incoming EXCEPT ![h] = FALSE]
    /\ event' = [event EXCEPT ![h] = "soft"]
    /\ UNCHANGED <<ipi, pending, ssip, mask, todo, taken, owed>>

Restore(h) ==
    /\ todo[h] = {}
    /\ Step(h, "watch", CASE event[h] = "halt" -> "halted"
                         [] event[h] # "halt" /\ incoming[h] -> "due"
                         [] OTHER -> "super")
    /\ ipi' = [ipi EXCEPT ![h] = @ \/ incoming[h]]
    /\ incoming' = [incoming EXCEPT ![h] = FALSE]
    /\ event' = [event EXCEPT ![h] = "soft"]
    /\ UNCHANGED <<pending, ssip, mask, todo, taken, owed>>

-----------------------------------------------------------------------------
(* The receiver.                                                            *)

\* A line raised by another hart takes its time to interrupt the supervisor, a
\* line the hart has restored itself does so at once.  The handler first clears
\* the line, ...
TakeInterrupt(h) ==
    /\ ipi[h]
    /\ Step(h, "super", "fetch") \/ Step(h, "due", "fetch")
    /\ ipi' = [ipi EXCEPT ![h] = FALSE]
    /\ UNCHANGED <<pending, ssip, event, mask, todo, incoming, taken, owed>>

\* ... then swaps the events out, ...
FetchEvents(h) ==
    /\ Step(h, "fetch", "handle")
    /\ taken' = [taken EXCEPT ![h] = pending[h]]
    /\ pending' = [pending EXCEPT ![h] = {}]
    /\ UNCHANGED <<ipi, ssip, event, mask, todo, incoming, owed>>

\* ... and acts on each of them.
HandleEvents(h) ==
    /\ Step(h, "handle", IF "halt" \in taken[h] THEN "halted" ELSE "super")
    /\ ssip' = [ssip EXCEPT ![h] = @ \/ "soft" \in taken[h]]
    /\ owed' = [owed EXCEPT ![h] = IF "fence" \in taken[h] THEN {} ELSE @]
    /\ taken' = [taken EXCEPT ![h] = {}]
    /\ UNCHANGED <<ipi, pending, event, mask, todo, incoming>>

IpiStep(h) ==
    \/ PostEvent(h) \/ RingLine(h) \/ Watch(h) \/ Consume(h) \/ Restore(h)
    \/ TakeInterrupt(h) \/ FetchEvents(h) \/ HandleEvents(h)

\* mcall_clear_ipi
ClearSoft(h) ==
    /\ ssip' = [ssip EXCEPT ![h] = FALSE]
    /\ UNCHANGED <<ipi, pending, event, mask, todo, incoming, taken, owed>>

IpiTypeOK ==
    /\ ipi \in [Hart -> BOOLEAN]
    /\ pending \in [Hart -> SUBSET Event]
    /\ ssip \in [Hart -> BOOLEAN]
    /\ event \in [Hart -> Event]
    /\ mask \in [Hart -> SUBSET Hart]
    /\ todo \in [Hart -> SUBSET Hart]
    /\ incoming \in [Hart -> BOOLEAN]
    /\ taken \in [Hart -> SUBSET Event]
    /\ owed \in [Hart -> SUBSET Hart]
=============================================================================
