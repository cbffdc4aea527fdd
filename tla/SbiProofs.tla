------------------------------ MODULE SbiProofs ------------------------------
(***************************************************************************)
(* Proofs about inter-processor interrupts for every number of harts and   *)
(* of calls.  The HTIF takes part only through the program counters.       *)
(***************************************************************************)
EXTENDS Sbi, TLAPS, WellFoundedInduction

HtifLabel == {"super", "magic", "lock", "get", "set", "put", "wait", "unlock", "result", "off"}
IpiLabel == {"post", "ring", "watch", "consume", "due", "fetch", "handle", "halted"}
Label == HtifLabel \cup IpiLabel

\* A line is put aside only in the waiting loop.
AsideInLoop == \A h \in Hart : incoming[h] => pc[h] \in {"watch", "consume"}

\* A sender that posts has a hart to post to, one it was asked to address.
SenderHasTarget ==
    \A h \in Hart : pc[h] \in {"post", "ring"} => todo[h] # {} /\ todo[h] \subseteq mask[h]

\* A fence that is owed is among the events of the hart, posted or fetched.
FencePending(i) ==
    "fence" \in pending[i] \/ (pc[i] = "handle" /\ "fence" \in taken[i])
FenceNotForgotten == \A i \in Hart : owed[i] # {} => FencePending(i)

\* The hart will act on a fence: its line is up or put aside, or its handler
\* runs and has the event or is about to fetch it.
WillAct(i) ==
    ipi[i] \/ incoming[i] \/ pc[i] = "fetch" \/ (pc[i] = "handle" /\ "fence" \in taken[i])
FenceAnnounced ==
    \A h, i \in Hart : h \in owed[i] =>
        WillAct(i) \/ (pc[h] = "ring" /\ todo[h] # {} /\ Target(h) = i)

\* The sender has yet to find the line of i down in its present fence call.
Awaits(h, i) ==
    /\ event[h] = "fence"
    /\ \/ pc[h] \in {"post", "ring"} /\ i \in mask[h]
       \/ pc[h] \in {"watch", "consume"} /\ i \in todo[h]

\* The hart executes the fence before it runs its supervisor again.
FenceFirst(i) ==
    \/ incoming[i]
    \/ pc[i] = "due" /\ ipi[i]
    \/ pc[i] = "fetch"
    \/ pc[i] = "handle" /\ "fence" \in taken[i]
    \/ pc[i] = "halted"
AnsweredFenceComesFirst ==
    \A h, i \in Hart : h \in owed[i] /\ ~Awaits(h, i) => FenceFirst(i)

\* The inductive invariant.
IInv ==
    /\ IpiTypeOK /\ pc \in [Hart -> Label]
    /\ AsideInLoop /\ SenderHasTarget
    /\ NoEventLost
    /\ FenceNotForgotten /\ FenceAnnounced /\ AnsweredFenceComesFirst

-----------------------------------------------------------------------------

\* The loops of send_ipi_many go through the harts in ascending order: the next
\* one is always among those left.
LEMMA TargetLeft ==
    ASSUME NEW h, todo[h] \subseteq Hart, todo[h] # {}
    PROVE  Target(h) \in todo[h]
  <1> DEFINE R == OpToRel(<, Nat)
  <1>1. IsWellFoundedOn(R, Nat)
    BY NatLessThanWellFounded
  <1>2. \A x, y \in Nat : x < y => <<x, y>> \in R
    BY DEF OpToRel
  <1> HIDE DEF R
  <1>3. todo[h] \subseteq Nat
    BY HartsAssumption DEF Hart
  <1>4. PICK x \in todo[h] : \A y \in todo[h] : ~(<<y, x>> \in R)
    BY <1>1, <1>3, WFMin
  <1>5. ASSUME NEW y \in todo[h] PROVE x <= y
    <2>1. x \in Nat /\ y \in Nat
      BY <1>3
    <2>2. ~(y < x)
      BY <1>2, <1>4, <2>1, Zenon
    <2> QED BY <2>1, <2>2
  <1> QED BY <1>5 DEF Target, Min

LEMMA PostEventInv == ASSUME NEW g \in Hart, IInv, PostEvent(g) PROVE IInv'
  <1> USE DEF IInv, PostEvent, Step, At
  <1>1. todo[g] # {} /\ todo[g] \subseteq Hart /\ todo[g] \subseteq mask[g]
    BY DEF SenderHasTarget, IpiTypeOK
  <1>2. Target(g) \in todo[g] /\ Target(g) \in Hart
    BY <1>1, TargetLeft
  <1>3. IpiTypeOK' /\ (pc \in [Hart -> Label])'
    <2>1. pending' \in [Hart -> SUBSET Event]
      BY <1>2 DEF IpiTypeOK
    <2>2. owed' \in [Hart -> SUBSET Hart]
      BY <1>2 DEF IpiTypeOK
    <2>3. pc' \in [Hart -> Label]
      BY DEF Label, IpiLabel
    <2> QED BY <2>1, <2>2, <2>3 DEF IpiTypeOK
  <1>4. AsideInLoop' /\ SenderHasTarget'
    BY <1>2 DEF IpiTypeOK, AsideInLoop, SenderHasTarget
  <1>5. \A h \in Hart : Target(h)' = Target(h)
    BY DEF Target
  <1>6. NoEventLost'
    BY <1>2, <1>5 DEF IpiTypeOK, NoEventLost
  <1>7. FenceNotForgotten'
    BY <1>2 DEF IpiTypeOK, FenceNotForgotten, FencePending
  <1>8. FenceAnnounced'
    BY <1>1, <1>2, <1>5 DEF IpiTypeOK, FenceAnnounced, WillAct
  <1>9. AnsweredFenceComesFirst'
    BY <1>1, <1>2 DEF IpiTypeOK, AnsweredFenceComesFirst, FenceFirst, Awaits
  <1> QED BY <1>3, <1>4, <1>6, <1>7, <1>8, <1>9
LEMMA RingLineInv == ASSUME NEW g \in Hart, IInv, RingLine(g) PROVE IInv'
  <1> USE DEF IInv, RingLine, Step, At
  <1>1. todo[g] # {} /\ todo[g] \subseteq Hart
    BY DEF SenderHasTarget, IpiTypeOK
  <1>2. Target(g) \in todo[g] /\ Target(g) \in Hart
    BY <1>1, TargetLeft
  <1>3. IpiTypeOK' /\ (pc \in [Hart -> Label])'
    BY <1>1, <1>2 DEF IpiTypeOK, Label, HtifLabel, IpiLabel, Event
  <1>4. AsideInLoop' /\ SenderHasTarget'
    BY <1>1, <1>2 DEF IpiTypeOK, AsideInLoop, SenderHasTarget
  <1>5. \A h \in Hart : h # g => Target(h)' = Target(h)
    BY DEF Target, IpiTypeOK
  <1>6. NoEventLost'
    BY <1>1, <1>2, <1>5 DEF IpiTypeOK, NoEventLost, AsideInLoop
  <1>7. FenceNotForgotten'
    BY <1>1, <1>2 DEF IpiTypeOK, FenceNotForgotten, FencePending
  <1>8. FenceAnnounced'
    BY <1>1, <1>2, <1>5 DEF IpiTypeOK, FenceAnnounced, WillAct, FenceNotForgotten, FencePending, AsideInLoop
  <1>9. AnsweredFenceComesFirst'
    BY <1>1, <1>2 DEF IpiTypeOK, AnsweredFenceComesFirst, FenceFirst, Awaits, FenceNotForgotten, FencePending, AsideInLoop, FenceAnnounced, WillAct, SenderHasTarget
  <1> QED BY <1>3, <1>4, <1>6, <1>7, <1>8, <1>9

LEMMA WatchInv == ASSUME NEW g \in Hart, IInv, Watch(g) PROVE IInv'
  <1> USE DEF IInv, Watch, Step, At
  <1>1. todo[g] # {} /\ todo[g] \subseteq Hart
    BY DEF SenderHasTarget, IpiTypeOK
  <1>2. Target(g) \in todo[g] /\ Target(g) \in Hart
    BY <1>1, TargetLeft
  <1>3. IpiTypeOK' /\ (pc \in [Hart -> Label])'
    BY <1>1, <1>2 DEF IpiTypeOK, Label, HtifLabel, IpiLabel, Event
  <1>4. AsideInLoop' /\ SenderHasTarget'
    BY <1>1, <1>2 DEF IpiTypeOK, AsideInLoop, SenderHasTarget
  <1>5. \A h \in Hart : h # g => Target(h)' = Target(h)
    BY DEF Target, IpiTypeOK
  <1>6. NoEventLost'
    BY <1>1, <1>2, <1>5 DEF IpiTypeOK, NoEventLost, AsideInLoop
  <1>7. FenceNotForgotten'
    BY <1>1, <1>2 DEF IpiTypeOK, FenceNotForgotten, FencePending
  <1>8. FenceAnnounced'
    BY <1>1, <1>2, <1>5 DEF IpiTypeOK, FenceAnnounced, WillAct, FenceNotForgotten, FencePending, AsideInLoop
  <1>9. AnsweredFenceComesFirst'
    BY <1>1, <1>2 DEF IpiTypeOK, AnsweredFenceComesFirst, FenceFirst, Awaits, FenceNotForgotten, FencePending, AsideInLoop, FenceAnnounced, WillAct, SenderHasTarget
  <1> QED BY <1>3, <1>4, <1>6, <1>7, <1>8, <1>9

LEMMA ConsumeInv == ASSUME NEW g \in Hart, IInv, Consume(g) PROVE IInv'
  <1> USE DEF IInv, Consume, Step, At
  <1>3. IpiTypeOK' /\ (pc \in [Hart -> Label])'
    BY DEF IpiTypeOK, Label, HtifLabel, IpiLabel, Event
  <1>4. AsideInLoop' /\ SenderHasTarget'
    BY DEF IpiTypeOK, AsideInLoop, SenderHasTarget
  <1>5. \A h \in Hart : Target(h)' = Target(h)
    BY DEF Target, IpiTypeOK
  <1>6. NoEventLost'
    BY <1>5 DEF IpiTypeOK, NoEventLost, AsideInLoop
  <1>7. FenceNotForgotten'
    BY DEF IpiTypeOK, FenceNotForgotten, FencePending
  <1>8. FenceAnnounced'
    BY <1>5 DEF IpiTypeOK, FenceAnnounced, WillAct, FenceNotForgotten, FencePending, AsideInLoop
  <1>9. AnsweredFenceComesFirst'
    BY DEF IpiTypeOK, AnsweredFenceComesFirst, FenceFirst, Awaits, FenceNotForgotten, FencePending, AsideInLoop, FenceAnnounced, WillAct, SenderHasTarget
  <1> QED BY <1>3, <1>4, <1>6, <1>7, <1>8, <1>9

LEMMA RestoreInv == ASSUME NEW g \in Hart, IInv, Restore(g) PROVE IInv'
  <1> USE DEF IInv, Restore, Step, At
  <1>3. IpiTypeOK' /\ (pc \in [Hart -> Label])'
    BY DEF IpiTypeOK, Label, HtifLabel, IpiLabel, Event
  <1>4. AsideInLoop' /\ SenderHasTarget'
    BY DEF IpiTypeOK, AsideInLoop, SenderHasTarget
  <1>5. \A h \in Hart : Target(h)' = Target(h)
    BY DEF Target, IpiTypeOK
  <1>6. NoEventLost'
    BY <1>5 DEF IpiTypeOK, NoEventLost, AsideInLoop
  <1>7. FenceNotForgotten'
    BY DEF IpiTypeOK, FenceNotForgotten, FencePending
  <1>8. FenceAnnounced'
    BY <1>5 DEF IpiTypeOK, FenceAnnounced, WillAct, FenceNotForgotten, FencePending, AsideInLoop
  <1>9. AnsweredFenceComesFirst'
    BY DEF IpiTypeOK, AnsweredFenceComesFirst, FenceFirst, Awaits, FenceNotForgotten, FencePending, AsideInLoop, FenceAnnounced, WillAct, SenderHasTarget
  <1> QED BY <1>3, <1>4, <1>6, <1>7, <1>8, <1>9

LEMMA TakeInterruptInv == ASSUME NEW g \in Hart, IInv, TakeInterrupt(g) PROVE IInv'
  <1> USE DEF IInv, TakeInterrupt, Step, At
  <1>3. IpiTypeOK' /\ (pc \in [Hart -> Label])'
    BY DEF IpiTypeOK, Label, HtifLabel, IpiLabel, Event
  <1>4. AsideInLoop' /\ SenderHasTarget'
    BY DEF IpiTypeOK, AsideInLoop, SenderHasTarget
  <1>5. \A h \in Hart : Target(h)' = Target(h)
    BY DEF Target, IpiTypeOK
  <1>6. NoEventLost'
    BY <1>5 DEF IpiTypeOK, NoEventLost, AsideInLoop
  <1>7. FenceNotForgotten'
    BY DEF IpiTypeOK, FenceNotForgotten, FencePending
  <1>8. FenceAnnounced'
    BY <1>5 DEF IpiTypeOK, FenceAnnounced, WillAct, FenceNotForgotten, FencePending, AsideInLoop
  <1>9. AnsweredFenceComesFirst'
    BY DEF IpiTypeOK, AnsweredFenceComesFirst, FenceFirst, Awaits, FenceNotForgotten, FencePending, AsideInLoop, FenceAnnounced, WillAct, SenderHasTarget
  <1> QED BY <1>3, <1>4, <1>6, <1>7, <1>8, <1>9

LEMMA FetchEventsInv == ASSUME NEW g \in Hart, IInv, FetchEvents(g) PROVE IInv'
  <1> USE DEF IInv, FetchEvents, Step, At
  <1>3. IpiTypeOK' /\ (pc \in [Hart -> Label])'
    BY DEF IpiTypeOK, Label, HtifLabel, IpiLabel, Event
  <1>4. AsideInLoop' /\ SenderHasTarget'
    BY DEF IpiTypeOK, AsideInLoop, SenderHasTarget
  <1>5. \A h \in Hart : Target(h)' = Target(h)
    BY DEF Target, IpiTypeOK
  <1>6. NoEventLost'
    BY <1>5 DEF IpiTypeOK, NoEventLost, AsideInLoop
  <1>7. FenceNotForgotten'
    BY DEF IpiTypeOK, FenceNotForgotten, FencePending
  <1>8. FenceAnnounced'
    BY <1>5 DEF IpiTypeOK, FenceAnnounced, WillAct, FenceNotForgotten, FencePending, AsideInLoop
  <1>9. AnsweredFenceComesFirst'
    BY DEF IpiTypeOK, AnsweredFenceComesFirst, FenceFirst, Awaits, FenceNotForgotten, FencePending, AsideInLoop, FenceAnnounced, WillAct, SenderHasTarget
  <1> QED BY <1>3, <1>4, <1>6, <1>7, <1>8, <1>9

LEMMA HandleEventsInv == ASSUME NEW g \in Hart, IInv, HandleEvents(g) PROVE IInv'
  <1> USE DEF IInv, HandleEvents, Step, At
  <1>3. IpiTypeOK' /\ (pc \in [Hart -> Label])'
    BY DEF IpiTypeOK, Label, HtifLabel, IpiLabel, Event
  <1>4. AsideInLoop' /\ SenderHasTarget'
    BY DEF IpiTypeOK, AsideInLoop, SenderHasTarget
  <1>5. \A h \in Hart : Target(h)' = Target(h)
    BY DEF Target, IpiTypeOK
  <1>6. NoEventLost'
    BY <1>5 DEF IpiTypeOK, NoEventLost, AsideInLoop
  <1>7. FenceNotForgotten'
    BY DEF IpiTypeOK, FenceNotForgotten, FencePending
  <1>8. FenceAnnounced'
    BY <1>5 DEF IpiTypeOK, FenceAnnounced, WillAct, FenceNotForgotten, FencePending, AsideInLoop
  <1>9. AnsweredFenceComesFirst'
    BY DEF IpiTypeOK, AnsweredFenceComesFirst, FenceFirst, Awaits, FenceNotForgotten, FencePending, AsideInLoop, FenceAnnounced, WillAct, SenderHasTarget
  <1> QED BY <1>3, <1>4, <1>6, <1>7, <1>8, <1>9

\* A step that leaves the interrupts alone: a hart outside their code stays there.
LEMMA QuietInv ==
    ASSUME IInv, pc' \in [Hart -> Label], ssip' \in [Hart -> BOOLEAN],
           UNCHANGED <<ipi, pending, event, mask, todo, incoming, taken, owed>>,
           \A h \in Hart : pc'[h] = pc[h] \/ (pc[h] \in HtifLabel /\ pc'[h] \in HtifLabel)
    PROVE  IInv'
  <1> USE DEF IInv
  <1>1. \A h \in Hart : \A l \in IpiLabel : pc'[h] = l <=> pc[h] = l
    BY DEF HtifLabel, IpiLabel
  <1>2. \A h \in Hart :
          /\ pc'[h] = "post" <=> pc[h] = "post"
          /\ pc'[h] = "ring" <=> pc[h] = "ring"
          /\ pc'[h] = "watch" <=> pc[h] = "watch"
          /\ pc'[h] = "consume" <=> pc[h] = "consume"
          /\ pc'[h] = "due" <=> pc[h] = "due"
          /\ pc'[h] = "fetch" <=> pc[h] = "fetch"
          /\ pc'[h] = "handle" <=> pc[h] = "handle"
          /\ pc'[h] = "halted" <=> pc[h] = "halted"
    BY <1>1 DEF IpiLabel
  <1>3. IpiTypeOK'
    BY DEF IpiTypeOK
  <1>4. AsideInLoop' /\ SenderHasTarget'
    BY <1>2 DEF AsideInLoop, SenderHasTarget
  <1>5. \A h \in Hart : Target(h)' = Target(h)
    BY DEF Target
  <1>6. NoEventLost'
    BY <1>2, <1>5 DEF NoEventLost, At
  <1>7. FenceNotForgotten'
    BY <1>2 DEF FenceNotForgotten, FencePending
  <1>8. FenceAnnounced'
    BY <1>2, <1>5 DEF FenceAnnounced, WillAct
  <1>9. AnsweredFenceComesFirst'
    BY <1>2 DEF AnsweredFenceComesFirst, FenceFirst, Awaits
  <1> QED BY <1>3, <1>4, <1>6, <1>7, <1>8, <1>9

\* A call of send_ipi_many begins.
LEMMA SendManyInv ==
    ASSUME IInv, NEW g \in Hart, NEW e \in Event, NEW M \in SUBSET Hart, M # {},
           Step(g, "super", "post"), SendMany(g, e, M)
    PROVE  IInv'
  <1> USE DEF IInv, SendMany, Step, At
  <1>1. ~incoming[g]
    BY DEF AsideInLoop
  <1>2. IpiTypeOK' /\ (pc \in [Hart -> Label])'
    BY DEF IpiTypeOK, Label, IpiLabel
  <1>3. AsideInLoop' /\ SenderHasTarget'
    BY DEF IpiTypeOK, AsideInLoop, SenderHasTarget
  <1>4. \A h \in Hart : h # g => Target(h)' = Target(h)
    BY DEF Target, IpiTypeOK
  <1>5. NoEventLost'
    BY <1>1, <1>4 DEF IpiTypeOK, NoEventLost
  <1>6. FenceNotForgotten'
    BY DEF IpiTypeOK, FenceNotForgotten, FencePending
  <1>7. FenceAnnounced'
    BY <1>1, <1>4 DEF IpiTypeOK, FenceAnnounced, WillAct
  <1>8. AnsweredFenceComesFirst'
    BY <1>1 DEF IpiTypeOK, AnsweredFenceComesFirst, FenceFirst, Awaits
  <1> QED BY <1>2, <1>3, <1>5, <1>6, <1>7, <1>8

\* The HTIF moves its hart between its own labels.
LEMMA HtifMoves ==
    ASSUME NEW g \in Hart, pc \in [Hart -> Label],
           HtifStep(g) \/ Putchar(g) \/ Getchar(g) \/ Syscall(g) \/ HtifShutdown(g)
    PROVE  /\ pc' \in [Hart -> Label]
           /\ \A h \in Hart : pc'[h] = pc[h] \/ (pc[h] \in HtifLabel /\ pc'[h] \in HtifLabel)
  <1>1. \/ pc' = pc
        \/ \E a, b \in HtifLabel : Step(g, a, b)
    <2>1. CASE Lock(g)
      BY <2>1 DEF Lock, HtifLabel
    <2>2. CASE Get(g)
      BY <2>2 DEF Get, HtifLabel
    <2>3. CASE SetLoop(g) \/ WaitOther(g) \/ Poweroff(g)
      BY <2>3 DEF SetLoop, WaitOther, Poweroff
    <2>4. CASE SetFree(g) \/ Put(g) \/ WaitDone(g)
      BY <2>4 DEF SetFree, Put, WaitDone, HtifLabel
    <2>5. CASE Unlock(g)
      BY <2>5 DEF Unlock, HtifLabel
    <2>6. CASE MagicLock(g) \/ MagicUnlock(g)
      BY <2>6 DEF MagicLock, MagicUnlock, HtifLabel
    <2>7. CASE Putchar(g) \/ Getchar(g) \/ Syscall(g) \/ HtifShutdown(g)
      BY <2>7 DEF Putchar, Getchar, Call, Syscall, HtifShutdown, HtifLabel
    <2> QED BY <2>1, <2>2, <2>3, <2>4, <2>5, <2>6, <2>7 DEF HtifStep
  <1>2. ASSUME NEW a \in HtifLabel, NEW b \in HtifLabel, Step(g, a, b)
        PROVE  /\ pc' \in [Hart -> Label]
               /\ \A h \in Hart : pc'[h] = pc[h] \/ (pc[h] \in HtifLabel /\ pc'[h] \in HtifLabel)
    BY <1>2 DEF Step, At, Label
  <1> QED BY <1>1, <1>2

LEMMA IInvInit == Init => IInv
  <1> SUFFICES ASSUME Init PROVE IInv
    OBVIOUS
  <1>1. IpiTypeOK /\ pc \in [Hart -> Label]
    BY DEF Init, IpiInit, IpiTypeOK, Event, Label, HtifLabel
  <1>2. AsideInLoop /\ SenderHasTarget /\ NoEventLost
    BY DEF Init, IpiInit, AsideInLoop, SenderHasTarget, NoEventLost
  <1>3. FenceNotForgotten /\ FenceAnnounced /\ AnsweredFenceComesFirst
    BY DEF Init, IpiInit, FenceNotForgotten, FenceAnnounced, AnsweredFenceComesFirst
  <1> QED BY <1>1, <1>2, <1>3 DEF IInv

LEMMA IInvNext == IInv /\ [Next]_vars => IInv'
  <1> SUFFICES ASSUME IInv, [Next]_vars PROVE IInv'
    OBVIOUS
  <1>0. pc \in [Hart -> Label] /\ ssip \in [Hart -> BOOLEAN]
    BY DEF IInv, IpiTypeOK
  <1>1. CASE UNCHANGED vars \/ Takes \/ Gives \/ Types
    BY <1>0, <1>1, QuietInv
       DEF vars, ipiVars, Takes, Gives, Types, HostTakes, HostGives, HostTypes
  <1>2. ASSUME NEW g \in Hart, ConsoleCall(g) PROVE IInv'
    <2>1. UNCHANGED <<ipi, pending, ssip, event, mask, todo, incoming, taken, owed>>
      BY <1>2 DEF ConsoleCall, ipiVars
    <2>2. Putchar(g) \/ Getchar(g) \/ Syscall(g)
      BY <1>2 DEF ConsoleCall
    <2> QED BY <1>0, <2>1, <2>2, HtifMoves, QuietInv
  <1>3. ASSUME NEW g \in Hart, SendIpi(g) PROVE IInv'
    <2>1. PICK e \in {"soft", "fence"}, M \in (SUBSET Hart) \ {{}} : SendMany(g, e, M)
      BY <1>3 DEF SendIpi
    <2>2. Step(g, "super", "post") /\ e \in Event /\ M \in SUBSET Hart /\ M # {}
      BY <1>3, <2>1 DEF SendIpi, Event
    <2> QED BY <2>1, <2>2, SendManyInv
  <1>4. ASSUME NEW g \in Hart, ClearIpi(g) PROVE IInv'
    BY <1>0, <1>4, QuietInv DEF ClearIpi, ClearSoft
  <1>5. ASSUME NEW g \in Hart, Shutdown(g) PROVE IInv'
    <2>1. CASE HtifShutdown(g) /\ UNCHANGED ipiVars
      BY <1>0, <2>1, HtifMoves, QuietInv DEF ipiVars
    <2>2. CASE Step(g, "super", "post") /\ SendMany(g, "halt", Hart)
      <3>1. Hart # {} /\ Hart \in SUBSET Hart /\ "halt" \in Event
        BY DEF Event
      <3> QED BY <2>2, <3>1, SendManyInv
    <2> QED BY <1>5, <2>1, <2>2 DEF Shutdown
  <1>6. ASSUME NEW g \in Hart, HartStep(g) PROVE IInv'
    <2>1. CASE HtifStep(g) /\ UNCHANGED ipiVars
      BY <1>0, <2>1, HtifMoves, QuietInv DEF ipiVars
    <2>2. CASE IpiStep(g)
      BY <2>2, PostEventInv, RingLineInv, WatchInv, ConsumeInv, RestoreInv,
         TakeInterruptInv, FetchEventsInv, HandleEventsInv DEF IpiStep
    <2> QED BY <1>6, <2>1, <2>2 DEF HartStep
  <1> QED BY <1>1, <1>2, <1>3, <1>4, <1>5, <1>6 DEF Next

\* Spec keeps the inductive invariant.
LEMMA Inductive == Spec => []IInv
  BY IInvInit, IInvNext, PTL DEF Spec

\* No inter-processor event is ever forgotten, for any number of harts and calls.
THEOREM EventsAreNotLost == Spec => []NoEventLost
  <1>1. IInv => NoEventLost
    BY DEF IInv
  <1> QED BY <1>1, Inductive, PTL

\* Once SBI_REMOTE_FENCE_I or SBI_REMOTE_SFENCE_VMA has returned, no hart it was
\* sent to runs supervisor code before it has executed the fence, for any number
\* of harts and calls.
THEOREM RemoteFencesHold == Spec => []RemoteFenceHolds
  <1>1. IInv => RemoteFenceHolds
    BY DEF IInv, RemoteFenceHolds, AnsweredFenceComesFirst, FenceFirst, Awaits,
           AsideInLoop, At
  <1> QED BY <1>1, Inductive, PTL
=============================================================================
