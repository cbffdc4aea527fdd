----------------------------- MODULE HtifProofs -----------------------------
(***************************************************************************)
(* Proofs about the host-target interface for every number of harts, calls *)
(* and typed characters: mutual exclusion, whose answer fromhost holds,    *)
(* and that mailboxes and buffers lose nothing.                            *)
(***************************************************************************)
EXTENDS SbiProofs

Critical == {"get", "set", "put", "wait", "unlock"}

\* What the mailboxes, the queue of the host and the harts hold.
Message == [dev : {-1, 0, 1, 9}, cmd : {0, 1}, data : Nat]
WellFormed(m) ==
    /\ m \in Message
    /\ m.dev = -1 => m = None
    /\ m.dev = 9 => m = PowerOff
    /\ m.dev = 0 => m = Msg(0, 0, 0)
IsAnswer(m) == WellFormed(m) /\ m.dev # 9 /\ m.data <= TYPED
HtifTypes ==
    /\ IsAnswer(fromhost)
    /\ hostq \in Seq(Message) /\ \A i \in 1 .. Len(hostq) : IsAnswer(hostq[i])
    /\ WellFormed(tohost)
    /\ req \in [Hart -> Message] /\ \A h \in Hart : WellFormed(req[h]) /\ req[h].dev # 9
    /\ closing \in [Hart -> BOOLEAN]
    /\ console_buf \in -1 .. TYPED + 1
    /\ typed \in 0 .. TYPED
    /\ reads \in Nat
    /\ calls \in 0 .. MAX_CALLS

\* htif_lock is held exactly between spinlock_lock and spinlock_unlock.
Exclusive ==
    /\ lock \in Hart \cup {Nobody}
    /\ \A h \in Hart : lock = h <=> pc[h] \in Critical

\* A hart under way to the host knows what it will send; where it is says what.
RequestOf ==
    \A h \in Hart :
        /\ req[h] = None <=> pc[h] \notin {"lock"} \cup Critical
        /\ pc[h] = "get" => IsGet(h)
        /\ pc[h] = "wait" => IsSys(h)

\* A hart in poweroff has a message to print, or halts the others, and never
\* returns to its supervisor.
Leaving ==
    \A h \in Hart :
        /\ pc[h] = "off" => closing[h]
        /\ closing[h] =>
              \/ pc[h] \in {"lock", "set", "put", "unlock"} /\ req[h] = Msg(1, 1, h)
              \/ pc[h] \in {"off", "halted"}
              \/ pc[h] \in {"post", "ring", "watch", "consume"} /\ event[h] = "halt"

\* The system call buffer belongs to the hart inside frontend_syscall.
InSyscall(h) == pc[h] = "result" \/ IsSys(h)
MagicExclusive ==
    /\ magic_lock \in Hart \cup {Nobody}
    /\ \A h \in Hart : magic_lock = h <=> InSyscall(h)
    /\ magic_mem \in [of : Hart \cup {Nobody}, done : BOOLEAN]
    /\ magic_mem.of = magic_lock

\* A system call is in at most one place between hart and host, its hart waits
\* for it, and beyond tohost it is done.
Outstanding ==
    \/ tohost.dev = 0 \/ fromhost.dev = 0
    \/ \E i \in 1 .. Len(hostq) : hostq[i].dev = 0
OneSyscall ==
    /\ Outstanding => \E h \in Hart : pc[h] = "wait"
    /\ tohost.dev = 0 => fromhost.dev # 0
    /\ tohost.dev = 0 \/ fromhost.dev = 0 => \A i \in 1 .. Len(hostq) : hostq[i].dev # 0
    /\ \A i, j \in 1 .. Len(hostq) : hostq[i].dev = 0 /\ hostq[j].dev = 0 => i = j
    /\ fromhost.dev = 0 \/ (\E i \in 1 .. Len(hostq) : hostq[i].dev = 0) => magic_mem.done = TRUE
    /\ \A h \in Hart : pc[h] = "result" \/ (pc[h] = "unlock" /\ IsSys(h))
                           => magic_mem.done = TRUE

\* Between the test of tohost and the store nobody else writes it.
SlotIsFree == ~Down => \A h \in Hart : pc[h] = "put" => tohost = None

\* There is one request for a character in the system: the buffer that holds one
\* (or has never been asked for), a character under way, a read the host owes, a
\* read in tohost, or a hart that is about to ask.
IsChar(m) == m.dev = 1 /\ m.cmd = 0
Asking    == \E h \in Hart : pc[h] \in {"set", "put"} /\ IsGet(h)
InQueue   == \E i \in 1 .. Len(hostq) : IsChar(hostq[i])
OneRead ==
    ~Down =>
        /\ console_buf >= 0 => ~IsChar(fromhost)
        /\ console_buf >= 0 \/ IsChar(fromhost) => ~InQueue
        /\ console_buf >= 0 \/ IsChar(fromhost) \/ InQueue => reads = 0
        /\ console_buf >= 0 \/ IsChar(fromhost) \/ InQueue \/ reads > 0 => ~IsChar(tohost)
        /\ console_buf >= 0 \/ IsChar(fromhost) \/ InQueue \/ reads > 0 \/ IsChar(tohost) => ~Asking
        /\ reads <= 1
        /\ \A i, j \in 1 .. Len(hostq) : IsChar(hostq[i]) /\ IsChar(hostq[j]) => i = j

\* ... and the character it has got is the last one typed.
CharIsLast ==
    ~Down =>
        /\ console_buf > 0 => console_buf = typed + 1
        /\ IsChar(fromhost) => fromhost.data = typed
        /\ \A i \in 1 .. Len(hostq) : IsChar(hostq[i]) => hostq[i].data = typed
        /\ got = IF console_buf > 0 \/ IsChar(fromhost) \/ InQueue THEN typed - 1 ELSE typed

HtifInv ==
    /\ HtifTypes /\ Exclusive /\ RequestOf /\ Leaving /\ MagicExclusive
    /\ OneSyscall /\ SlotIsFree /\ NoOutputLost /\ OneRead /\ CharIsLast

-----------------------------------------------------------------------------

\* What a message says of itself.
LEMMA Messages ==
    /\ None.dev = -1 /\ None.cmd = 0 /\ None.data = 0
    /\ PowerOff.dev = 9 /\ PowerOff.cmd = 0
    /\ \A d, c, x : /\ Msg(d, c, x).dev = d
                    /\ Msg(d, c, x).cmd = c
                    /\ Msg(d, c, x).data = x
  BY DEF None, PowerOff, Msg

\* The messages the code composes are well formed.
LEMMA Composed ==
    /\ IsAnswer(None) /\ WellFormed(None) /\ WellFormed(PowerOff)
    /\ WellFormed(Msg(0, 0, 0)) /\ WellFormed(Msg(1, 0, 0))
    /\ \A n \in Nat : WellFormed(Msg(1, 1, n))
    /\ IsAnswer(Msg(0, 0, 0)) /\ IsAnswer(Msg(1, 1, 0))
    /\ \A n \in 0 .. TYPED : IsAnswer(Msg(1, 0, n))
    /\ \A m : IsAnswer(m) => WellFormed(m)
    /\ \A m : WellFormed(m) => m \in Message /\ m.dev \in {-1, 0, 1, 9}
                                 /\ m.cmd \in {0, 1} /\ m.data \in Nat
  BY SbiAssumption DEF IsAnswer, WellFormed, Message, None, PowerOff, Msg

\* A queue of one loses its only element.
LEMMA TailOfOne == \A x : Tail(<<x>>) = <<>>
  OBVIOUS

LEMMA HtifInitInv == Init => HtifInv
  <1> SUFFICES ASSUME Init PROVE HtifInv
    OBVIOUS
  <1> USE Messages, HartsAssumption, SbiAssumption DEF Init, HtifInit
  <1>0. IsAnswer(None)
    BY DEF IsAnswer, WellFormed, Message, None, Msg
  <1>1. HtifTypes
    BY <1>0 DEF HtifTypes, IsAnswer, WellFormed
  <1>2. Exclusive
    BY DEF Exclusive, Critical, Nobody, Hart
  <1>3. RequestOf
    BY DEF RequestOf, Critical
  <1>4. Leaving
    BY DEF Leaving
  <1>5. MagicExclusive
    BY DEF MagicExclusive, InSyscall, IsSys, Nobody, Hart
  <1>6. OneSyscall
    BY DEF OneSyscall, Outstanding
  <1>7. SlotIsFree /\ NoOutputLost
    BY DEF SlotIsFree, NoOutputLost
  <1>8. OneRead
    BY DEF OneRead, IsChar, InQueue, Asking
  <1>9. CharIsLast
    BY DEF CharIsLast, IsChar, InQueue
  <1> QED BY <1>1, <1>2, <1>3, <1>4, <1>5, <1>6, <1>7, <1>8, <1>9 DEF HtifInv

\* A console call begins.
LEMMA CallInv ==
    ASSUME NEW g \in Hart, NEW m, m \in {Msg(1, 1, g), Msg(1, 0, 0)}, Call(g, m), HtifInv, pc \in [Hart -> Label],
           UNCHANGED event, calls' \in 0 .. MAX_CALLS
    PROVE  HtifInv'
  <1> USE Messages, HartsAssumption, SbiAssumption DEF HtifInv, Call, Step, At, mailbox, front, hostVars, htifVars
  <1>1. HtifTypes'
    <2>1. WellFormed(m) /\ m \in Message /\ m.dev # 9
      BY Composed DEF Hart
    <2>2. /\ req' \in [Hart -> Message]
          /\ \A h \in Hart : req'[h] = IF h = g THEN m ELSE req[h]
      BY <2>1 DEF HtifTypes
    <2>3. \A h \in Hart : WellFormed(req'[h]) /\ req'[h].dev # 9
      BY <2>1, <2>2 DEF HtifTypes
    <2> QED BY <2>2, <2>3 DEF HtifTypes, IsAnswer, WellFormed
  <1>2. Exclusive'
    BY DEF Exclusive, Critical, Nobody, Hart
  <1>3. RequestOf'
    BY DEF HtifTypes, RequestOf, Critical, IsGet, IsSys
  <1>4. Leaving'
    BY DEF HtifTypes, Leaving, RequestOf, Critical
  <1>5. MagicExclusive'
    <2>1. \A h \in Hart : InSyscall(h)' <=> InSyscall(h)
      BY DEF HtifTypes, InSyscall, IsSys, RequestOf, Critical
    <2> QED BY <2>1 DEF MagicExclusive
  <1>6. OneSyscall'
    BY DEF HtifTypes, OneSyscall, Outstanding, Exclusive, Critical, RequestOf, IsSys
  <1>7. SlotIsFree'
    BY DEF SlotIsFree, Down, HtifTypes
  <1>8. NoOutputLost'
    BY DEF NoOutputLost, Down, HtifTypes, SlotIsFree
  <1>9. OneRead'
    BY DEF OneRead, IsChar, InQueue, Asking, Down, HtifTypes, RequestOf, IsGet
  <1>10. CharIsLast'
    BY DEF CharIsLast, IsChar, InQueue, Down, HtifTypes, OneRead
  <1> QED BY <1>1, <1>2, <1>3, <1>4, <1>5, <1>6, <1>7, <1>8, <1>9, <1>10

\* A system call begins, gets its buffer, and returns.
LEMMA SyscallInv ==
    ASSUME NEW g \in Hart, Syscall(g), HtifInv, pc \in [Hart -> Label],
           UNCHANGED event, calls' \in 0 .. MAX_CALLS
    PROVE  HtifInv'
  <1> USE Messages, HartsAssumption, SbiAssumption DEF HtifInv, Syscall, Step, At, mailbox, front, hostVars, htifVars
  <1>1. HtifTypes'
    BY Composed DEF HtifTypes, IsAnswer, Hart
  <1>2. Exclusive'
    BY DEF Exclusive, Critical, Nobody, Hart
  <1>3. RequestOf'
    BY DEF HtifTypes, RequestOf, Critical, IsGet, IsSys
  <1>4. Leaving'
    BY DEF HtifTypes, Leaving, RequestOf, Critical
  <1>5. MagicExclusive'
    BY Composed DEF HtifTypes, MagicExclusive, InSyscall, IsSys, RequestOf, Critical, Nobody, Hart
  <1>6. OneSyscall'
    BY DEF HtifTypes, OneSyscall, Outstanding, Exclusive, Critical, RequestOf, IsSys
  <1>7. SlotIsFree'
    BY DEF SlotIsFree, Down, HtifTypes
  <1>8. NoOutputLost'
    BY DEF NoOutputLost, Down, HtifTypes, SlotIsFree
  <1>9. OneRead'
    BY DEF OneRead, IsChar, InQueue, Asking, Down, HtifTypes, RequestOf, IsGet
  <1>10. CharIsLast'
    BY DEF CharIsLast, IsChar, InQueue, Down, HtifTypes, OneRead
  <1> QED BY <1>1, <1>2, <1>3, <1>4, <1>5, <1>6, <1>7, <1>8, <1>9, <1>10

LEMMA MagicLockInv ==
    ASSUME NEW g \in Hart, MagicLock(g), HtifInv, pc \in [Hart -> Label],
           UNCHANGED event, calls' \in 0 .. MAX_CALLS
    PROVE  HtifInv'
  <1> USE Messages, HartsAssumption, SbiAssumption DEF HtifInv, MagicLock, Step, At, mailbox, front, hostVars, htifVars
  <1>1. HtifTypes'
    BY Composed DEF HtifTypes, IsAnswer, Hart
  <1>2. Exclusive'
    BY DEF Exclusive, Critical, Nobody, Hart
  <1>3. RequestOf'
    BY DEF HtifTypes, RequestOf, Critical, IsGet, IsSys
  <1>4. Leaving'
    BY DEF HtifTypes, Leaving, RequestOf, Critical
  <1>5. MagicExclusive'
    BY Composed DEF HtifTypes, MagicExclusive, InSyscall, IsSys, RequestOf, Critical, Nobody, Hart
  <1>6. OneSyscall'
    <2>1. \A h \in Hart : pc[h] # "wait" /\ pc[h] # "result" /\ ~IsSys(h)
      BY DEF MagicExclusive, InSyscall, RequestOf, Nobody, Hart
    <2>2. ~Outstanding
      BY <2>1 DEF OneSyscall
    <2> QED BY <2>1, <2>2 DEF HtifTypes, OneSyscall, Outstanding, IsSys
  <1>7. SlotIsFree'
    BY DEF SlotIsFree, Down, HtifTypes
  <1>8. NoOutputLost'
    BY DEF NoOutputLost, Down, HtifTypes, SlotIsFree
  <1>9. OneRead'
    BY DEF OneRead, IsChar, InQueue, Asking, Down, HtifTypes, RequestOf, IsGet
  <1>10. CharIsLast'
    BY DEF CharIsLast, IsChar, InQueue, Down, HtifTypes, OneRead
  <1> QED BY <1>1, <1>2, <1>3, <1>4, <1>5, <1>6, <1>7, <1>8, <1>9, <1>10

LEMMA MagicUnlockInv ==
    ASSUME NEW g \in Hart, MagicUnlock(g), HtifInv, pc \in [Hart -> Label],
           UNCHANGED event, calls' \in 0 .. MAX_CALLS
    PROVE  HtifInv'
  <1> USE Messages, HartsAssumption, SbiAssumption DEF HtifInv, MagicUnlock, Step, At, mailbox, front, hostVars, htifVars
  <1>1. HtifTypes'
    BY Composed DEF HtifTypes, IsAnswer, Hart
  <1>2. Exclusive'
    BY DEF Exclusive, Critical, Nobody, Hart
  <1>3. RequestOf'
    BY DEF HtifTypes, RequestOf, Critical, IsGet, IsSys
  <1>4. Leaving'
    BY DEF HtifTypes, Leaving, RequestOf, Critical
  <1>5. MagicExclusive'
    <2>1. magic_lock = g
      BY DEF MagicExclusive, InSyscall
    <2>2. \A h \in Hart : ~InSyscall(h)'
      BY <2>1 DEF MagicExclusive, HtifTypes, InSyscall, IsSys, RequestOf, Critical
    <2>3. magic_lock' \notin Hart /\ magic_lock' = Nobody /\ magic_mem' = [of |-> Nobody, done |-> FALSE]
      BY DEF Hart, Nobody
    <2> QED BY <2>2, <2>3 DEF MagicExclusive
  <1>6. OneSyscall'
    <2>1. magic_lock = g
      BY DEF MagicExclusive, InSyscall
    <2>2. \A h \in Hart : pc[h] # "wait" /\ (h # g => pc[h] # "result" /\ ~IsSys(h))
      BY <2>1 DEF MagicExclusive, InSyscall, RequestOf
    <2>3. ~Outstanding
      BY <2>2 DEF OneSyscall
    <2> QED BY <2>2, <2>3 DEF HtifTypes, OneSyscall, Outstanding, IsSys
  <1>7. SlotIsFree'
    BY DEF SlotIsFree, Down, HtifTypes
  <1>8. NoOutputLost'
    BY DEF NoOutputLost, Down, HtifTypes, SlotIsFree
  <1>9. OneRead'
    BY DEF OneRead, IsChar, InQueue, Asking, Down, HtifTypes, RequestOf, IsGet
  <1>10. CharIsLast'
    BY DEF CharIsLast, IsChar, InQueue, Down, HtifTypes, OneRead
  <1> QED BY <1>1, <1>2, <1>3, <1>4, <1>5, <1>6, <1>7, <1>8, <1>9, <1>10

\* A shutdown begins.
LEMMA HtifShutdownInv ==
    ASSUME NEW g \in Hart, HtifShutdown(g), HtifInv, pc \in [Hart -> Label],
           UNCHANGED event, calls' \in 0 .. MAX_CALLS
    PROVE  HtifInv'
  <1> USE Messages, HartsAssumption, SbiAssumption DEF HtifInv, HtifShutdown, Step, At, mailbox, front, hostVars, htifVars
  <1>1. HtifTypes'
    <2>1. WellFormed(Msg(1, 1, g)) /\ Msg(1, 1, g) \in Message /\ Msg(1, 1, g).dev # 9
      BY Composed DEF Hart
    <2>2. /\ req' \in [Hart -> Message] /\ closing' \in [Hart -> BOOLEAN]
          /\ \A h \in Hart : req'[h] = IF h = g THEN Msg(1, 1, g) ELSE req[h]
      BY <2>1 DEF HtifTypes
    <2>3. \A h \in Hart : WellFormed(req'[h]) /\ req'[h].dev # 9
      BY <2>1, <2>2 DEF HtifTypes
    <2> QED BY <2>2, <2>3 DEF HtifTypes, IsAnswer, WellFormed
  <1>2. Exclusive'
    BY DEF Exclusive, Critical, Nobody, Hart
  <1>3. RequestOf'
    BY DEF HtifTypes, RequestOf, Critical, IsGet, IsSys
  <1>4. Leaving'
    BY DEF HtifTypes, Leaving, RequestOf, Critical
  <1>5. MagicExclusive'
    <2>1. \A h \in Hart : InSyscall(h)' <=> InSyscall(h)
      BY DEF HtifTypes, InSyscall, IsSys, RequestOf, Critical
    <2> QED BY <2>1 DEF MagicExclusive
  <1>6. OneSyscall'
    BY DEF HtifTypes, OneSyscall, Outstanding, Exclusive, Critical, RequestOf, IsSys
  <1>7. SlotIsFree'
    BY DEF SlotIsFree, Down, HtifTypes
  <1>8. NoOutputLost'
    BY DEF NoOutputLost, Down, HtifTypes, SlotIsFree
  <1>9. OneRead'
    BY DEF OneRead, IsChar, InQueue, Asking, Down, HtifTypes, RequestOf, IsGet
  <1>10. CharIsLast'
    BY DEF CharIsLast, IsChar, InQueue, Down, HtifTypes, OneRead
  <1> QED BY <1>1, <1>2, <1>3, <1>4, <1>5, <1>6, <1>7, <1>8, <1>9, <1>10

\* A hart takes htif_lock.
LEMMA LockInv ==
    ASSUME NEW g \in Hart, Lock(g), HtifInv, pc \in [Hart -> Label],
           UNCHANGED event, calls' \in 0 .. MAX_CALLS
    PROVE  HtifInv'
  <1> USE Messages, HartsAssumption, SbiAssumption DEF HtifInv, Lock, Step, At, mailbox, front, hostVars, htifVars
  <1>1. HtifTypes'
    BY Composed DEF HtifTypes, IsAnswer, Hart
  <1>2. Exclusive'
    BY DEF Exclusive, Critical, Nobody, Hart
  <1>3. RequestOf'
    BY DEF HtifTypes, RequestOf, Critical, IsGet, IsSys
  <1>4. Leaving'
    BY DEF HtifTypes, Leaving, RequestOf, Critical, IsGet, IsSys
  <1>5. MagicExclusive'
    BY Composed DEF HtifTypes, MagicExclusive, InSyscall, IsSys, RequestOf, Critical, Nobody, Hart
  <1>6. OneSyscall'
    BY DEF HtifTypes, OneSyscall, Outstanding, Exclusive, Critical, RequestOf, IsSys
  <1>7. SlotIsFree'
    BY DEF SlotIsFree, Down, HtifTypes
  <1>8. NoOutputLost'
    BY DEF NoOutputLost, Down, HtifTypes, SlotIsFree
  <1>9. OneRead'
    BY DEF OneRead, IsChar, InQueue, Asking, Down, HtifTypes, RequestOf, IsGet
  <1>10. CharIsLast'
    BY DEF CharIsLast, IsChar, InQueue, Down, HtifTypes, OneRead
  <1> QED BY <1>1, <1>2, <1>3, <1>4, <1>5, <1>6, <1>7, <1>8, <1>9, <1>10

\* htif_console_getchar looks at the buffer.
LEMMA GetInv ==
    ASSUME NEW g \in Hart, Get(g), HtifInv, pc \in [Hart -> Label],
           UNCHANGED event, calls' \in 0 .. MAX_CALLS
    PROVE  HtifInv'
  <1> USE Messages, HartsAssumption, SbiAssumption DEF HtifInv, Get, Step, At, mailbox, front, hostVars, htifVars
  <1>1. HtifTypes'
    BY Composed DEF HtifTypes, IsAnswer, Hart
  <1>2. Exclusive'
    BY DEF Exclusive, Critical, Nobody, Hart
  <1>3. RequestOf'
    BY DEF HtifTypes, RequestOf, Critical, IsGet, IsSys
  <1>4. Leaving'
    BY DEF HtifTypes, Leaving, RequestOf, Critical
  <1>5. MagicExclusive'
    <2>1. \A h \in Hart : InSyscall(h)' <=> InSyscall(h)
      BY DEF HtifTypes, InSyscall, IsSys, RequestOf, Critical
    <2> QED BY <2>1 DEF MagicExclusive
  <1>6. OneSyscall'
    <2>1. \A h \in Hart : pc[h] # "wait" /\ (h = g => ~IsSys(h))
      BY DEF Exclusive, RequestOf, Critical, IsSys, IsGet
    <2>2. ~Outstanding
      BY <2>1 DEF OneSyscall
    <2> QED BY <2>1, <2>2 DEF HtifTypes, OneSyscall, Outstanding, IsSys
  <1>7. SlotIsFree'
    BY DEF SlotIsFree, Down, HtifTypes
  <1>8. NoOutputLost'
    BY DEF NoOutputLost, Down, HtifTypes, SlotIsFree
  <1>9. OneRead'
    BY DEF OneRead, IsChar, InQueue, Asking, Down, HtifTypes, RequestOf, IsGet
  <1>10. CharIsLast'
    BY DEF CharIsLast, IsChar, InQueue, Down, HtifTypes, OneRead
  <1> QED BY <1>1, <1>2, <1>3, <1>4, <1>5, <1>6, <1>7, <1>8, <1>9, <1>10

\* The loop of __set_tohost.
LEMMA SetLoopInv ==
    ASSUME NEW g \in Hart, SetLoop(g), HtifInv, pc \in [Hart -> Label],
           UNCHANGED event, calls' \in 0 .. MAX_CALLS
    PROVE  HtifInv'
  <1> USE Messages, HartsAssumption, SbiAssumption DEF HtifInv, SetLoop, CheckFromhost, Step, At, mailbox, front, hostVars, htifVars
  <1>1. HtifTypes'
    <2>1. IsAnswer(fromhost') /\ WellFormed(tohost')
      BY Composed DEF HtifTypes
    <2>2. console_buf' \in -1 .. TYPED + 1
      BY Composed DEF HtifTypes, IsAnswer
    <2> QED BY <2>1, <2>2 DEF HtifTypes, IsAnswer, WellFormed
  <1>2. Exclusive'
    BY DEF Exclusive, Critical, Nobody, Hart
  <1>3. RequestOf'
    BY DEF HtifTypes, RequestOf, Critical, IsGet, IsSys
  <1>4. Leaving'
    BY DEF HtifTypes, Leaving, RequestOf, Critical
  <1>5. MagicExclusive'
    BY Composed DEF HtifTypes, MagicExclusive, InSyscall, IsSys, RequestOf, Critical, Nobody, Hart
  <1>6. OneSyscall'
    BY DEF HtifTypes, OneSyscall, Outstanding, Exclusive, Critical, RequestOf, IsSys
  <1>7. SlotIsFree'
    BY DEF SlotIsFree, Down, HtifTypes
  <1>8. NoOutputLost'
    BY DEF NoOutputLost, Down, HtifTypes, SlotIsFree
  <1>9. OneRead'
    BY DEF OneRead, IsChar, InQueue, Asking, Down, HtifTypes, RequestOf, IsGet
  <1>10. CharIsLast'
    BY DEF CharIsLast, IsChar, InQueue, Down, HtifTypes, OneRead
  <1> QED BY <1>1, <1>2, <1>3, <1>4, <1>5, <1>6, <1>7, <1>8, <1>9, <1>10

\* The loop ends.
LEMMA SetFreeInv ==
    ASSUME NEW g \in Hart, SetFree(g), HtifInv, pc \in [Hart -> Label],
           UNCHANGED event, calls' \in 0 .. MAX_CALLS
    PROVE  HtifInv'
  <1> USE Messages, HartsAssumption, SbiAssumption DEF HtifInv, SetFree, Step, At, mailbox, front, hostVars, htifVars
  <1>1. HtifTypes'
    BY Composed DEF HtifTypes, IsAnswer, Hart
  <1>2. Exclusive'
    BY DEF Exclusive, Critical, Nobody, Hart
  <1>3. RequestOf'
    BY DEF HtifTypes, RequestOf, Critical, IsGet, IsSys
  <1>4. Leaving'
    BY DEF HtifTypes, Leaving, RequestOf, Critical
  <1>5. MagicExclusive'
    BY Composed DEF HtifTypes, MagicExclusive, InSyscall, IsSys, RequestOf, Critical, Nobody, Hart
  <1>6. OneSyscall'
    BY DEF HtifTypes, OneSyscall, Outstanding, Exclusive, Critical, RequestOf, IsSys
  <1>7. SlotIsFree'
    BY DEF SlotIsFree, Down, HtifTypes
  <1>8. NoOutputLost'
    BY DEF NoOutputLost, Down, HtifTypes, SlotIsFree
  <1>9. OneRead'
    BY DEF OneRead, IsChar, InQueue, Asking, Down, HtifTypes, RequestOf, IsGet
  <1>10. CharIsLast'
    BY DEF CharIsLast, IsChar, InQueue, Down, HtifTypes, OneRead
  <1> QED BY <1>1, <1>2, <1>3, <1>4, <1>5, <1>6, <1>7, <1>8, <1>9, <1>10

\* The command is stored in tohost.
LEMMA PutInv ==
    ASSUME NEW g \in Hart, Put(g), HtifInv, pc \in [Hart -> Label],
           UNCHANGED event, calls' \in 0 .. MAX_CALLS
    PROVE  HtifInv'
  <1> USE Messages, HartsAssumption, SbiAssumption DEF HtifInv, Put, Step, At, mailbox, front, hostVars, htifVars
  <1>1. HtifTypes'
    BY Composed DEF HtifTypes, IsAnswer, Hart
  <1>2. Exclusive'
    BY DEF Exclusive, Critical, Nobody, Hart
  <1>3. RequestOf'
    BY DEF HtifTypes, RequestOf, Critical, IsGet, IsSys
  <1>4. Leaving'
    BY DEF HtifTypes, Leaving, RequestOf, Critical, IsGet, IsSys
  <1>5. MagicExclusive'
    BY Composed DEF HtifTypes, MagicExclusive, InSyscall, IsSys, RequestOf, Critical, Nobody, Hart
  <1>6. OneSyscall'
    BY DEF HtifTypes, OneSyscall, Outstanding, Exclusive, Critical, RequestOf, IsSys
  <1>7. SlotIsFree'
    BY DEF SlotIsFree, Down, HtifTypes, Exclusive, Critical
  <1>8. NoOutputLost'
    <2> SUFFICES ASSUME ~Down' PROVE put' = IF tohost'.dev = 1 /\ tohost'.cmd = 1
                                            THEN <<tohost'.data>> ELSE <<>>
      BY DEF NoOutputLost
    <2>1. ~Down /\ tohost = None
      BY DEF Down, SlotIsFree
    <2>2. put = <<>>
      BY <2>1 DEF NoOutputLost
    <2> QED BY <2>2
  <1>9. OneRead'
    BY DEF OneRead, IsChar, InQueue, Asking, Down, HtifTypes, RequestOf, IsGet, SlotIsFree, Exclusive, Critical
  <1>10. CharIsLast'
    BY DEF CharIsLast, IsChar, InQueue, Down, HtifTypes, OneRead
  <1> QED BY <1>1, <1>2, <1>3, <1>4, <1>5, <1>6, <1>7, <1>8, <1>9, <1>10

\* The answer waited for is taken.
LEMMA WaitDoneInv ==
    ASSUME NEW g \in Hart, WaitDone(g), HtifInv, pc \in [Hart -> Label],
           UNCHANGED event, calls' \in 0 .. MAX_CALLS
    PROVE  HtifInv'
  <1> USE Messages, HartsAssumption, SbiAssumption DEF HtifInv, WaitDone, Answered, Step, At, mailbox, front, hostVars, htifVars
  <1>1. HtifTypes'
    BY Composed DEF HtifTypes, IsAnswer, Hart
  <1>2. Exclusive'
    BY DEF Exclusive, Critical, Nobody, Hart
  <1>3. RequestOf'
    BY DEF HtifTypes, RequestOf, Critical, IsGet, IsSys
  <1>4. Leaving'
    BY DEF HtifTypes, Leaving, RequestOf, Critical
  <1>5. MagicExclusive'
    BY Composed DEF HtifTypes, MagicExclusive, InSyscall, IsSys, RequestOf, Critical, Nobody, Hart
  <1>6. OneSyscall'
    BY DEF HtifTypes, OneSyscall, Outstanding, Exclusive, Critical, RequestOf, IsSys
  <1>7. SlotIsFree'
    BY DEF SlotIsFree, Down, HtifTypes
  <1>8. NoOutputLost'
    BY DEF NoOutputLost, Down, HtifTypes, SlotIsFree
  <1>9. OneRead'
    BY DEF OneRead, IsChar, InQueue, Asking, Down, HtifTypes, RequestOf, IsGet
  <1>10. CharIsLast'
    BY DEF CharIsLast, IsChar, InQueue, Down, HtifTypes, RequestOf, IsSys
  <1> QED BY <1>1, <1>2, <1>3, <1>4, <1>5, <1>6, <1>7, <1>8, <1>9, <1>10

\* Another answer is taken.
LEMMA WaitOtherInv ==
    ASSUME NEW g \in Hart, WaitOther(g), HtifInv, pc \in [Hart -> Label],
           UNCHANGED event, calls' \in 0 .. MAX_CALLS
    PROVE  HtifInv'
  <1> USE Messages, HartsAssumption, SbiAssumption DEF HtifInv, WaitOther, Answered, CheckFromhost, Step, At, mailbox, front, hostVars, htifVars
  <1>1. HtifTypes'
    <2>1. IsAnswer(fromhost') /\ WellFormed(tohost')
      BY Composed DEF HtifTypes
    <2>2. console_buf' \in -1 .. TYPED + 1
      BY Composed DEF HtifTypes, IsAnswer
    <2> QED BY <2>1, <2>2 DEF HtifTypes, IsAnswer, WellFormed
  <1>2. Exclusive'
    BY DEF Exclusive, Critical, Nobody, Hart
  <1>3. RequestOf'
    BY DEF HtifTypes, RequestOf, Critical, IsGet, IsSys
  <1>4. Leaving'
    BY DEF HtifTypes, Leaving, RequestOf, Critical
  <1>5. MagicExclusive'
    BY Composed DEF HtifTypes, MagicExclusive, InSyscall, IsSys, RequestOf, Critical, Nobody, Hart
  <1>6. OneSyscall'
    BY DEF HtifTypes, OneSyscall, Outstanding, Exclusive, Critical, RequestOf, IsSys
  <1>7. SlotIsFree'
    BY DEF SlotIsFree, Down, HtifTypes
  <1>8. NoOutputLost'
    BY DEF NoOutputLost, Down, HtifTypes, SlotIsFree
  <1>9. OneRead'
    BY DEF OneRead, IsChar, InQueue, Asking, Down, HtifTypes, RequestOf, IsGet
  <1>10. CharIsLast'
    BY DEF CharIsLast, IsChar, InQueue, Down, HtifTypes, OneRead
  <1> QED BY <1>1, <1>2, <1>3, <1>4, <1>5, <1>6, <1>7, <1>8, <1>9, <1>10

\* The lock is released.
LEMMA UnlockInv ==
    ASSUME NEW g \in Hart, Unlock(g), HtifInv, pc \in [Hart -> Label],
           UNCHANGED event, calls' \in 0 .. MAX_CALLS
    PROVE  HtifInv'
  <1> USE Messages, HartsAssumption, SbiAssumption DEF HtifInv, Unlock, Step, At, mailbox, front, hostVars, htifVars
  <1>1. HtifTypes'
    BY Composed DEF HtifTypes, IsAnswer, Hart
  <1>2. Exclusive'
    BY DEF Exclusive, Critical, Nobody, Hart
  <1>3. RequestOf'
    BY DEF HtifTypes, RequestOf, Critical, IsGet, IsSys
  <1>4. Leaving'
    BY DEF HtifTypes, Leaving, RequestOf, Critical, IsGet, IsSys
  <1>5. MagicExclusive'
    <2>1. /\ \A h \in Hart \ {g} : pc'[h] = pc[h] /\ req'[h] = req[h]
          /\ req'[g] = None /\ pc[g] = "unlock" /\ closing[g] \in BOOLEAN
          /\ pc'[g] = CASE closing[g] -> "off" [] IsSys(g) -> "result" [] OTHER -> "super"
      BY DEF HtifTypes
    <2>2. closing[g] => ~IsSys(g)
      BY <2>1 DEF Leaving, IsSys
    <2>3. InSyscall(g)' <=> InSyscall(g)
      <3>1. ~IsSys(g)'
        BY <2>1 DEF IsSys
      <3> QED BY <2>1, <2>2, <3>1 DEF InSyscall
    <2>4. \A h \in Hart : InSyscall(h)' <=> InSyscall(h)
      BY <2>1, <2>3 DEF InSyscall, IsSys
    <2> QED BY <2>4 DEF MagicExclusive
  <1>6. OneSyscall'
    BY DEF HtifTypes, OneSyscall, Outstanding, Exclusive, Critical, RequestOf, IsSys
  <1>7. SlotIsFree'
    BY DEF SlotIsFree, Down, HtifTypes
  <1>8. NoOutputLost'
    BY DEF NoOutputLost, Down, HtifTypes, SlotIsFree
  <1>9. OneRead'
    BY DEF OneRead, IsChar, InQueue, Asking, Down, HtifTypes, RequestOf, IsGet
  <1>10. CharIsLast'
    BY DEF CharIsLast, IsChar, InQueue, Down, HtifTypes, OneRead
  <1> QED BY <1>1, <1>2, <1>3, <1>4, <1>5, <1>6, <1>7, <1>8, <1>9, <1>10

\* htif_poweroff overwrites the mailboxes.
LEMMA PoweroffInv ==
    ASSUME NEW g \in Hart, Poweroff(g), HtifInv, pc \in [Hart -> Label],
           UNCHANGED event, calls' \in 0 .. MAX_CALLS
    PROVE  HtifInv'
  <1> USE Messages, HartsAssumption, SbiAssumption DEF HtifInv, Poweroff, Step, At, mailbox, front, hostVars, htifVars
  <1>1. HtifTypes'
    BY Composed DEF HtifTypes, IsAnswer, Hart
  <1>2. Exclusive'
    BY DEF Exclusive, Critical, Nobody, Hart
  <1>3. RequestOf'
    BY DEF HtifTypes, RequestOf, Critical, IsGet, IsSys
  <1>4. Leaving'
    BY DEF HtifTypes, Leaving, RequestOf, Critical
  <1>5. MagicExclusive'
    BY Composed DEF HtifTypes, MagicExclusive, InSyscall, IsSys, RequestOf, Critical, Nobody, Hart
  <1>6. OneSyscall'
    BY DEF HtifTypes, OneSyscall, Outstanding, Exclusive, Critical, RequestOf, IsSys
  <1>7. SlotIsFree'
    BY DEF Leaving, SlotIsFree, Down, HtifTypes
  <1>8. NoOutputLost'
    BY DEF Leaving, NoOutputLost, Down, HtifTypes
  <1>9. OneRead'
    BY DEF Leaving, OneRead, Down, HtifTypes
  <1>10. CharIsLast'
    BY DEF Leaving, CharIsLast, Down, HtifTypes
  <1> QED BY <1>1, <1>2, <1>3, <1>4, <1>5, <1>6, <1>7, <1>8, <1>9, <1>10

\* A step outside the HTIF, with or without the start of a shutdown.
Outside == {"super"} \cup IpiLabel
LEMMA OutsideInv ==
    ASSUME HtifInv, Leaving', UNCHANGED <<mailbox, magic_mem, magic_lock, got, put, hostVars>>,
           closing' \in [Hart -> BOOLEAN], calls' \in 0 .. MAX_CALLS,
           \A h \in Hart : closing[h] => closing'[h],
           \A h \in Hart : pc'[h] = pc[h] \/ (pc[h] \in Outside /\ pc'[h] \in Outside)
    PROVE  HtifInv'
  <1> USE DEF HtifInv, mailbox, hostVars
  <1>0. \A h \in Hart :
          /\ pc'[h] \in Critical <=> pc[h] \in Critical
          /\ \A l \in {"lock", "get", "set", "put", "wait", "unlock", "result"} : pc'[h] = l <=> pc[h] = l
          /\ IsSys(h)' <=> IsSys(h)
          /\ IsGet(h)' <=> IsGet(h)
    BY DEF Outside, IpiLabel, Critical, IsSys, IsGet
  <1>1. HtifTypes'
    BY DEF HtifTypes
  <1>2. Exclusive'
    BY <1>0 DEF Exclusive
  <1>3. RequestOf'
    BY <1>0 DEF RequestOf
  <1>4. MagicExclusive'
    BY <1>0 DEF MagicExclusive, InSyscall
  <1>5. OneSyscall'
    BY <1>0 DEF OneSyscall, Outstanding
  <1>6. Down => Down'
    BY DEF Down
  <1>7. SlotIsFree' /\ NoOutputLost'
    BY <1>0, <1>6 DEF SlotIsFree, NoOutputLost
  <1>8. OneRead'
    BY <1>0, <1>6 DEF OneRead, IsChar, InQueue, Asking
  <1>9. CharIsLast'
    BY <1>6 DEF CharIsLast, IsChar, InQueue
  <1> QED BY <1>1, <1>2, <1>3, <1>4, <1>5, <1>7, <1>8, <1>9

\* The steps of inter-processor interrupts are outside the HTIF.
LEMMA IpiMoves ==
    ASSUME NEW g \in Hart, pc \in [Hart -> Label], IpiTypeOK, Leaving, IpiStep(g), UNCHANGED htifVars
    PROVE  /\ \A h \in Hart : pc'[h] = pc[h] \/ (pc[h] \in Outside /\ pc'[h] \in Outside)
           /\ Leaving'
  <1> USE DEF htifVars, mailbox, front, Outside, IpiLabel, Step, At, Leaving, IpiTypeOK
  <1>1. CASE PostEvent(g)
    BY <1>1 DEF PostEvent
  <1>2. CASE RingLine(g)
    BY <1>2 DEF RingLine
  <1>3. CASE Watch(g)
    BY <1>3 DEF Watch
  <1>4. CASE Consume(g)
    BY <1>4 DEF Consume
  <1>5. CASE Restore(g)
    BY <1>5 DEF Restore
  <1>6. CASE TakeInterrupt(g)
    BY <1>6 DEF TakeInterrupt
  <1>7. CASE FetchEvents(g)
    BY <1>7 DEF FetchEvents
  <1>8. CASE HandleEvents(g)
    BY <1>8 DEF HandleEvents
  <1> QED BY <1>1, <1>2, <1>3, <1>4, <1>5, <1>6, <1>7, <1>8 DEF IpiStep

\* The host takes a command: the mailbox is empty afterwards, and the answer, if
\* there is one, is the last of the queue.
LEMMA HostTakesInv == ASSUME HostTakes, HtifInv, UNCHANGED <<event, calls>> PROVE HtifInv'
  <1> USE Messages, Composed, SbiAssumption DEF HtifInv
  <1>0. /\ tohost # None /\ tohost' = None
        /\ UNCHANGED <<pc, fromhost, console_buf, lock, req, magic_lock, closing, got, typed>>
    BY DEF HostTakes
  <1>1. Exclusive' /\ RequestOf' /\ Leaving'
    BY <1>0 DEF Exclusive, RequestOf, Leaving, IsGet, IsSys
  <1>2. SlotIsFree'
    BY <1>0 DEF SlotIsFree
  <1>3. Down' <=> Down
    BY <1>0 DEF Down
  <1>4. Asking' <=> Asking
    BY <1>0 DEF Asking, IsGet
  <1>5. WellFormed(tohost) /\ hostq \in Seq(Message) /\ reads \in Nat
    BY DEF HtifTypes
  <1>6. CASE tohost = PowerOff /\ UNCHANGED <<hostq, reads, put, magic_mem>>
    <2>1. HtifTypes' /\ MagicExclusive'
      BY <1>0, <1>6 DEF HtifTypes, MagicExclusive, InSyscall, IsSys
    <2>2. OneSyscall'
      BY <1>0, <1>6 DEF OneSyscall, Outstanding, IsSys
    <2>3. NoOutputLost' /\ OneRead' /\ CharIsLast'
      BY <1>0, <1>3, <1>4, <1>6 DEF NoOutputLost, OneRead, CharIsLast, IsChar, InQueue
    <2> QED BY <1>1, <1>2, <2>1, <2>2, <2>3
  <1>7. CASE /\ tohost.dev = 0 /\ hostq' = Append(hostq, tohost)
             /\ magic_mem' = [magic_mem EXCEPT !.done = TRUE] /\ UNCHANGED <<reads, put>>
    <2>0. tohost = Msg(0, 0, 0) /\ IsAnswer(tohost)
      BY <1>5, <1>7 DEF WellFormed
    <2>1. /\ hostq' \in Seq(Message) /\ Len(hostq') = Len(hostq) + 1
          /\ \A i \in 1 .. Len(hostq) : hostq'[i] = hostq[i]
          /\ hostq'[Len(hostq) + 1] = tohost
      BY <1>5, <1>7
    <2>2. HtifTypes'
      BY <1>0, <1>7, <2>0, <2>1 DEF HtifTypes
    <2>7. MagicExclusive'
      BY <1>0, <1>7 DEF MagicExclusive, InSyscall, IsSys
    <2>3. magic_mem'.done = TRUE
      BY <1>7 DEF MagicExclusive
    <2>4. OneSyscall'
      BY <1>0, <1>5, <1>7, <2>1, <2>3 DEF OneSyscall, Outstanding, IsSys
    <2>5. InQueue' <=> InQueue
      BY <1>5, <1>7, <2>1 DEF InQueue, IsChar
    <2>6. NoOutputLost' /\ OneRead' /\ CharIsLast'
      BY <1>0, <1>3, <1>4, <1>5, <1>7, <2>1, <2>5 DEF NoOutputLost, OneRead, CharIsLast, IsChar
    <2> QED BY <1>1, <1>2, <2>2, <2>4, <2>6, <2>7
  <1>8. CASE /\ IsChar(tohost) /\ reads' = reads + 1 /\ UNCHANGED <<hostq, put, magic_mem>>
    <2>1. HtifTypes' /\ MagicExclusive'
      BY <1>0, <1>8 DEF HtifTypes, MagicExclusive, InSyscall, IsSys
    <2>2. OneSyscall'
      BY <1>0, <1>8 DEF OneSyscall, Outstanding, IsSys
    <2>3. InQueue' <=> InQueue
      BY <1>8 DEF InQueue, IsChar
    <2>4. NoOutputLost' /\ OneRead' /\ CharIsLast'
      BY <1>0, <1>3, <1>4, <1>5, <1>8, <2>3 DEF NoOutputLost, OneRead, CharIsLast, IsChar
    <2> QED BY <1>1, <1>2, <2>1, <2>2, <2>4
  <1>9. CASE /\ tohost.dev = 1 /\ tohost.cmd = 1 /\ put' = Tail(put)
             /\ hostq' \in {hostq, Append(hostq, Msg(1, 1, 0))} /\ UNCHANGED <<reads, magic_mem>>
    <2>0. Msg(1, 1, 0) \in Message /\ IsAnswer(Msg(1, 1, 0))
      OBVIOUS
    <2>1. /\ hostq' \in Seq(Message)
          /\ \A i \in 1 .. Len(hostq) : i \in 1 .. Len(hostq') /\ hostq'[i] = hostq[i]
          /\ \A i \in 1 .. Len(hostq') : i \in 1 .. Len(hostq) \/ hostq'[i] = Msg(1, 1, 0)
      <3>1. CASE hostq' = hostq
        BY <1>5, <3>1
      <3>2. CASE hostq' = Append(hostq, Msg(1, 1, 0))
        <4> DEFINE m == Msg(1, 1, 0)
        <4>1. m \in Message
          BY <2>0
        <4> HIDE DEF m
        <4>2. hostq' = Append(hostq, m)
          BY <3>2 DEF m
        <4>3. /\ hostq' \in Seq(Message)
              /\ \A i \in 1 .. Len(hostq) : i \in 1 .. Len(hostq') /\ hostq'[i] = hostq[i]
              /\ \A i \in 1 .. Len(hostq') : i \in 1 .. Len(hostq) \/ hostq'[i] = m
          BY <1>5, <4>1, <4>2
        <4> QED BY <4>3 DEF m
      <3> QED BY <1>9, <3>1, <3>2
    <2>2. \A i \in 1 .. Len(hostq') :
            /\ IsAnswer(hostq'[i])
            /\ hostq'[i].dev = 0 => i \in 1 .. Len(hostq) /\ hostq[i].dev = 0
            /\ IsChar(hostq'[i]) => i \in 1 .. Len(hostq) /\ IsChar(hostq[i])
      BY <2>0, <2>1 DEF HtifTypes, IsChar
    <2>3. HtifTypes' /\ MagicExclusive'
      BY <1>0, <1>9, <2>1, <2>2 DEF HtifTypes, MagicExclusive, InSyscall, IsSys
    <2>4. OneSyscall'
      BY <1>0, <1>9, <2>1, <2>2 DEF OneSyscall, Outstanding, IsSys
    <2>5. InQueue' <=> InQueue
      BY <2>1, <2>2 DEF InQueue
    <2>6. NoOutputLost'
      <3>1. ~Down => put = <<tohost.data>>
        BY <1>9 DEF NoOutputLost
      <3>2. ~Down => put' = <<>>
        BY <1>9, <3>1, TailOfOne
      <3> QED BY <1>0, <1>3, <3>2 DEF NoOutputLost
    <2>7. OneRead'
      BY <1>0, <1>3, <1>4, <1>9, <2>2, <2>5 DEF OneRead, IsChar
    <2>8. CharIsLast'
      BY <1>0, <1>3, <1>9, <2>1, <2>2, <2>5 DEF CharIsLast
    <2> QED BY <1>1, <1>2, <2>3, <2>4, <2>6, <2>7, <2>8
  <1> QED BY <1>6, <1>7, <1>8, <1>9 DEF HostTakes, IsChar

\* The host gives the first answer of its queue, and a character is typed.
LEMMA HostGivesInv == ASSUME HostGives, HtifInv, UNCHANGED <<event, calls>> PROVE HtifInv'
  <1> USE Messages, HartsAssumption, SbiAssumption
      DEF HtifInv, HostGives, mailbox, front, hostVars
  <1>1. HtifTypes'
    BY Composed DEF HtifTypes, IsAnswer
  <1>2. Exclusive' /\ RequestOf' /\ Leaving'
    BY DEF Exclusive, RequestOf, Leaving, IsGet, IsSys
  <1>3. MagicExclusive'
    BY DEF MagicExclusive, InSyscall, IsSys
  <1>4. OneSyscall'
    BY Composed DEF HtifTypes, OneSyscall, Outstanding, IsSys
  <1>5. SlotIsFree' /\ NoOutputLost'
    BY DEF SlotIsFree, NoOutputLost, Down, HtifTypes
  <1>6. OneRead'
    BY DEF OneRead, IsChar, InQueue, Asking, Down, HtifTypes, IsGet
  <1>7. CharIsLast'
    <2>1. /\ Len(hostq') = Len(hostq) - 1
          /\ \A i \in 1 .. Len(hostq') : i + 1 \in 1 .. Len(hostq) /\ hostq'[i] = hostq[i + 1]
          /\ 1 \in 1 .. Len(hostq) /\ fromhost' = hostq[1]
          /\ \A i \in 1 .. Len(hostq) : i # 1 => i - 1 \in 1 .. Len(hostq') /\ hostq[i] = hostq'[i - 1]
      BY DEF HtifTypes
    <2>2. InQueue <=> InQueue' \/ IsChar(fromhost')
      BY <2>1 DEF InQueue, IsChar
    <2>3. ~IsChar(fromhost)
      BY DEF IsChar
    <2> QED BY <2>1, <2>2, <2>3 DEF CharIsLast, IsChar, Down
  <1> QED BY <1>1, <1>2, <1>3, <1>4, <1>5, <1>6, <1>7

LEMMA HostTypesInv == ASSUME HostTypes, HtifInv, UNCHANGED <<event, calls>> PROVE HtifInv'
  <1> USE Messages, HartsAssumption, SbiAssumption
      DEF HtifInv, HostTypes, mailbox, front, hostVars
  <1>1. HtifTypes'
    BY Composed DEF HtifTypes, IsAnswer
  <1>2. Exclusive' /\ RequestOf' /\ Leaving'
    BY DEF Exclusive, RequestOf, Leaving, IsGet, IsSys
  <1>3. MagicExclusive'
    BY DEF MagicExclusive, InSyscall, IsSys
  <1>4. OneSyscall'
    BY Composed DEF HtifTypes, OneSyscall, Outstanding, IsSys
  <1>5. SlotIsFree' /\ NoOutputLost'
    BY DEF SlotIsFree, NoOutputLost, Down, HtifTypes
  <1>6. OneRead'
    BY DEF OneRead, IsChar, InQueue, Asking, Down, HtifTypes, IsGet
  <1>7. CharIsLast'
    BY DEF CharIsLast, IsChar, InQueue, Down, HtifTypes, OneRead
  <1> QED BY <1>1, <1>2, <1>3, <1>4, <1>5, <1>6, <1>7

\* Every step keeps the invariant.
LEMMA HtifNextInv == IInv /\ HtifInv /\ [Next]_vars => HtifInv'
  <1> SUFFICES ASSUME IInv, HtifInv, [Next]_vars PROVE HtifInv'
    OBVIOUS
  <1>0. pc \in [Hart -> Label] /\ IpiTypeOK /\ Leaving /\ calls \in 0 .. MAX_CALLS
        /\ closing \in [Hart -> BOOLEAN]
    BY DEF IInv, HtifInv, HtifTypes
  <1>1. CASE UNCHANGED vars
    BY <1>0, <1>1, OutsideInv DEF vars, htifVars, ipiVars, mailbox, front, hostVars, Leaving
  <1>2. CASE Takes \/ Gives \/ Types
    BY <1>2, HostTakesInv, HostGivesInv, HostTypesInv DEF Takes, Gives, Types, ipiVars
  <1>3. ASSUME NEW g \in Hart, ConsoleCall(g) PROVE HtifInv'
    <2>1. UNCHANGED event /\ calls' \in 0 .. MAX_CALLS
      BY <1>0, <1>3, SbiAssumption DEF ConsoleCall, Calls, ipiVars
    <2>2. Call(g, Msg(1, 1, g)) \/ Call(g, Msg(1, 0, 0)) \/ Syscall(g)
      BY <1>3 DEF ConsoleCall, Putchar, Getchar
    <2> QED BY <1>0, <2>1, <2>2, CallInv, SyscallInv
  <1>4. ASSUME NEW g \in Hart, SendIpi(g) PROVE HtifInv'
    <2>1. Step(g, "super", "post") /\ UNCHANGED htifVars /\ calls' \in 0 .. MAX_CALLS
      BY <1>0, <1>4, SbiAssumption DEF SendIpi, Calls
    <2>2. \A h \in Hart : pc'[h] = pc[h] \/ (pc[h] \in Outside /\ pc'[h] \in Outside)
      BY <1>0, <2>1 DEF Step, At, Outside, IpiLabel
    <2>3. ~closing[g] /\ \A h \in Hart : h # g => event'[h] = event[h]
      BY <1>0, <1>4, <2>1 DEF Leaving, Step, At, SendIpi, SendMany, IpiTypeOK
    <2>4. Leaving'
      BY <1>0, <2>1, <2>3 DEF Leaving, Step, At, htifVars, front, mailbox
    <2> QED BY <1>0, <2>1, <2>2, <2>4, OutsideInv DEF htifVars, front
  <1>5. ASSUME NEW g \in Hart, ClearIpi(g) PROVE HtifInv'
    <2>1. UNCHANGED <<pc, htifVars, event>> /\ calls' \in 0 .. MAX_CALLS
      BY <1>0, <1>5, SbiAssumption DEF ClearIpi, ClearSoft, Calls
    <2> QED BY <1>0, <2>1, OutsideInv DEF htifVars, front, mailbox, Leaving
  <1>6. ASSUME NEW g \in Hart, Shutdown(g) PROVE HtifInv'
    <2>1. calls' \in 0 .. MAX_CALLS
      BY <1>0, <1>6, SbiAssumption DEF Shutdown, Calls
    <2>2. CASE HtifShutdown(g) /\ UNCHANGED ipiVars
      BY <1>0, <2>1, <2>2, HtifShutdownInv DEF ipiVars
    <2>3. CASE /\ Step(g, "super", "post") /\ SendMany(g, "halt", Hart)
               /\ closing' = [closing EXCEPT ![g] = TRUE]
               /\ UNCHANGED <<mailbox, magic_mem, magic_lock, got, put, hostVars>>
      <3>1. \A h \in Hart : pc'[h] = pc[h] \/ (pc[h] \in Outside /\ pc'[h] \in Outside)
        BY <1>0, <2>3 DEF Step, At, Outside, IpiLabel
      <3>2. event'[g] = "halt" /\ \A h \in Hart : h # g => event'[h] = event[h]
        BY <1>0, <2>3 DEF SendMany, IpiTypeOK
      <3>3. Leaving'
        BY <1>0, <2>3, <3>2 DEF Leaving, Step, At, mailbox
      <3> QED BY <1>0, <2>1, <2>3, <3>1, <3>3, OutsideInv
    <2> QED BY <1>6, <2>2, <2>3 DEF Shutdown
  <1>7. ASSUME NEW g \in Hart, HartStep(g) PROVE HtifInv'
    <2>1. CASE HtifStep(g) /\ UNCHANGED <<ipiVars, htif, calls>>
      <3>1. UNCHANGED event /\ calls' \in 0 .. MAX_CALLS
        BY <1>0, <2>1 DEF ipiVars
      <3> QED BY <1>0, <2>1, <3>1, LockInv, GetInv, SetLoopInv, SetFreeInv, PutInv, WaitDoneInv,
                 WaitOtherInv, UnlockInv, PoweroffInv, MagicLockInv, MagicUnlockInv DEF HtifStep
    <2>2. CASE IpiStep(g) /\ UNCHANGED <<htifVars, htif, calls>>
      BY <1>0, <2>2, IpiMoves, OutsideInv DEF htifVars, front
    <2> QED BY <1>7, <2>1, <2>2 DEF HartStep
  <1> QED BY <1>1, <1>2, <1>3, <1>4, <1>5, <1>6, <1>7 DEF Next

\* Spec keeps the invariant.
LEMMA HtifInductive == Spec => []HtifInv
  BY HtifInitInv, HtifNextInv, Inductive, PTL DEF Spec

-----------------------------------------------------------------------------
(* The characters of a queue.                                               *)

\* One turn of the recursion in FlattenSeq.
Joined(f, s, i) == IF i = 1 THEN s[i] ELSE f[i - 1] \o s[i]

\* A function that satisfies the recursion is the one FlattenSeq computes.
LEMMA FlattenIs ==
    ASSUME NEW s, Len(s) \in Nat \ {0}, NEW g,
           g = [i \in 1 .. Len(s) |-> Joined(g, s, i)]
    PROVE  FlattenSeq(s) = g[Len(s)]
  <1> DEFINE D == 1 .. Len(s)
             h == CHOOSE f : f = [i \in D |-> Joined(f, s, i)]
  <1>1. FlattenSeq(s) = h[Len(s)]
    BY DEF FlattenSeq, Joined
  <1>2. h = [i \in D |-> Joined(h, s, i)]
    <2>1. \E f : f = [i \in D |-> Joined(f, s, i)]
      OBVIOUS
    <2> QED BY <2>1, Zenon
  <1> HIDE DEF h
  <1> DEFINE bad == {i \in D : h[i] # g[i]}
             R == OpToRel(<, Nat)
  <1>3. bad = {}
    <2> SUFFICES ASSUME bad # {} PROVE FALSE
      OBVIOUS
    <2>0. IsWellFoundedOn(R, Nat)
      BY NatLessThanWellFounded
    <2>1. bad \subseteq Nat
      OBVIOUS
    <2>2. PICK k \in bad : \A y \in bad : <<y, k>> \notin R
      <3> HIDE DEF bad, R
      <3> QED BY <2>0, <2>1, WFMin
    <2>3. \A y \in bad : ~(y < k)
      BY <2>1, <2>2 DEF OpToRel
    <2>4. k \in D /\ h[k] = Joined(h, s, k) /\ g[k] = Joined(g, s, k)
      BY <1>2
    <2>5. CASE k = 1
      BY <2>2, <2>4, <2>5 DEF Joined
    <2>6. CASE k # 1
      <3>1. k - 1 \in D /\ k - 1 < k
        BY <2>4, <2>6
      <3>2. h[k - 1] = g[k - 1]
        BY <2>3, <3>1
      <3> QED BY <2>2, <2>4, <2>6, <3>2 DEF Joined
    <2> QED BY <2>5, <2>6
  <1>4. Len(s) \in D
    OBVIOUS
  <1> QED BY <1>1, <1>3, <1>4

\* A queue with at most one character holds that character or none.
LEMMA CharsOf ==
    ASSUME NEW q \in Seq(Message), NEW c \in Nat,
           \A i, j \in 1 .. Len(q) : IsChar(q[i]) /\ IsChar(q[j]) => i = j,
           \A i \in 1 .. Len(q) : IsChar(q[i]) => q[i].data = c
    PROVE  Chars(q) = IF \E i \in 1 .. Len(q) : IsChar(q[i]) THEN <<c>> ELSE <<>>
  <1> DEFINE s == [i \in 1 .. Len(q) |-> Char(q[i])]
             Seen(i) == \E j \in 1 .. i : IsChar(q[j])
             g == [i \in 1 .. Len(q) |-> IF Seen(i) THEN <<c>> ELSE <<>>]
  <1>1. Chars(q) = FlattenSeq(s) /\ Len(s) = Len(q) /\ Len(q) \in Nat
    BY DEF Chars
  <1>2. CASE Len(q) = 0
    <2>1. FlattenSeq(s) = s
      BY <1>1, <1>2 DEF FlattenSeq
    <2>2. s = <<>>
      BY <1>2
    <2> QED BY <1>1, <1>2, <2>1, <2>2
  <1>3. CASE Len(q) # 0
    <2>1. ASSUME NEW i \in 1 .. Len(q) PROVE g[i] = Joined(g, s, i)
      <3>1. s[i] = IF IsChar(q[i]) THEN <<c>> ELSE <<>>
        BY DEF Char, IsChar
      <3>2. CASE i = 1
        BY <3>1, <3>2 DEF Joined
      <3>3. CASE i # 1
        <4>1. i - 1 \in 1 .. Len(q) /\ g[i - 1] = IF Seen(i - 1) THEN <<c>> ELSE <<>>
          BY <3>3
        <4>2. Seen(i) <=> Seen(i - 1) \/ IsChar(q[i])
          BY <3>3
        <4>3. ~(Seen(i - 1) /\ IsChar(q[i]))
          BY <3>3
        <4>4. <<c>> \o <<>> = <<c>> /\ <<>> \o <<c>> = <<c>> /\ <<>> \o <<>> = <<>>
          OBVIOUS
        <4>5. g[i] = IF Seen(i) THEN <<c>> ELSE <<>>
          OBVIOUS
        <4> HIDE DEF g, s, Seen
        <4> QED BY <3>1, <3>3, <4>1, <4>2, <4>3, <4>4, <4>5 DEF Joined
      <3> QED BY <3>2, <3>3
    <2>2. g = [i \in 1 .. Len(s) |-> Joined(g, s, i)]
      <3>1. g = [i \in 1 .. Len(q) |-> g[i]]
        OBVIOUS
      <3> HIDE DEF g, s
      <3> QED BY <1>1, <2>1, <3>1
    <2>3. FlattenSeq(s) = g[Len(q)]
      <3> HIDE DEF g, s
      <3> QED BY <1>1, <1>3, <2>2, FlattenIs
    <2>4. g[Len(q)] = IF Seen(Len(q)) THEN <<c>> ELSE <<>>
      BY <1>1, <1>3
    <2> QED BY <1>1, <2>3, <2>4
  <1> QED BY <1>2, <1>3

-----------------------------------------------------------------------------

\* Type correctness, for every number of harts, calls and characters; in
\* particular spinlock_lock and spinlock_unlock of htif.c exclude each other.
THEOREM SbiTypeCorrect == Spec => []SbiTypeOK
  <1>1. IInv /\ HtifInv => SbiTypeOK
    BY DEF IInv, HtifInv, HtifTypes, Exclusive, MagicExclusive, Critical, SbiTypeOK
  <1> QED BY <1>1, Inductive, HtifInductive, PTL

\* The assertion of __check_fromhost (htif.c:31) never fails: outside the wait for
\* a system call, fromhost is empty or from the console.
THEOREM AnswersFromConsole == Spec => []FromConsole
  <1>1. HtifInv => FromConsole
    <2> SUFFICES ASSUME HtifInv, NEW h \in Hart, pc[h] \in {"get", "set"}
                 PROVE  fromhost = None \/ fromhost.dev = 1
      BY DEF FromConsole
    <2>1. \A g \in Hart : pc[g] # "wait"
      BY DEF HtifInv, Exclusive, Critical
    <2>2. fromhost.dev # 0
      BY <2>1 DEF HtifInv, OneSyscall, Outstanding
    <2> QED BY <2>2, Composed DEF HtifInv, HtifTypes, IsAnswer, WellFormed
  <1> QED BY <1>1, HtifInductive, PTL

\* frontend_syscall returns only with the result of its own call, though the
\* buffer is shared and a shutdown may overwrite the mailboxes at any time.
THEOREM ResultsAreOwn == Spec => []ResultIsOwn
  <1>1. HtifInv => ResultIsOwn
    <2> SUFFICES ASSUME HtifInv, NEW h \in Hart, pc[h] = "result"
                 PROVE  magic_mem = [of |-> h, done |-> TRUE]
      BY DEF ResultIsOwn, At
    <2>1. magic_mem.of = h
      BY DEF HtifInv, MagicExclusive, InSyscall
    <2>2. magic_mem.done = TRUE
      BY DEF HtifInv, OneSyscall
    <2>3. magic_mem \in [of : Hart \cup {Nobody}, done : BOOLEAN]
      BY DEF HtifInv, MagicExclusive
    <2> QED BY <2>1, <2>2, <2>3
  <1> QED BY <1>1, HtifInductive, PTL

\* Until a shutdown, __set_tohost never overwrites a command: every character put
\* is printed, in order.
THEOREM OutputKept == Spec => []NoOutputLost
  <1>1. HtifInv => NoOutputLost
    BY DEF HtifInv
  <1> QED BY <1>1, HtifInductive, PTL

\* Until a shutdown, no typed character is lost, doubled or reordered between the
\* host and the caller of htif_console_getchar.
THEOREM InputKept == Spec => []NoInputLost
  <1>1. HtifInv => NoInputLost
    <2> SUFFICES ASSUME HtifInv, ~Down
                 PROVE  (IF console_buf > 0 THEN <<console_buf - 1>> ELSE <<>>)
                            \o Char(fromhost) \o Chars(hostq)
                        = [i \in 1 .. typed - got |-> got + i]
      BY DEF NoInputLost
    <2> DEFINE B == IF console_buf > 0 THEN <<typed>> ELSE <<>>
               F == IF IsChar(fromhost) THEN <<typed>> ELSE <<>>
               Q == IF InQueue THEN <<typed>> ELSE <<>>
    <2>1. typed \in Nat /\ console_buf \in Int /\ hostq \in Seq(Message)
      BY SbiAssumption DEF HtifInv, HtifTypes
    <2>2. Chars(hostq) = Q
      BY <2>1, CharsOf DEF HtifInv, OneRead, CharIsLast, InQueue
    <2>3. Char(fromhost) = F
      BY DEF HtifInv, CharIsLast, Char, IsChar
    <2>4. (IF console_buf > 0 THEN <<console_buf - 1>> ELSE <<>>) = B
      BY <2>1 DEF HtifInv, CharIsLast
    <2>5. ~(console_buf > 0 /\ IsChar(fromhost)) /\ ~(console_buf > 0 /\ InQueue)
          /\ ~(IsChar(fromhost) /\ InQueue)
      BY <2>1 DEF HtifInv, OneRead
    <2>6. got = IF console_buf > 0 \/ IsChar(fromhost) \/ InQueue THEN typed - 1 ELSE typed
      BY DEF HtifInv, CharIsLast
    <2>7. B \o F \o Q = IF console_buf > 0 \/ IsChar(fromhost) \/ InQueue THEN <<typed>> ELSE <<>>
      <3>1. /\ <<typed>> \o <<>> = <<typed>> /\ <<>> \o <<typed>> = <<typed>> /\ <<>> \o <<>> = <<>>
        OBVIOUS
      <3> DEFINE one == <<typed>>
                 nil == <<>>
      <3>2. /\ one \o nil = one /\ nil \o one = one /\ nil \o nil = nil
        BY <3>1
      <3>3. /\ B = IF console_buf > 0 THEN one ELSE nil
            /\ F = IF IsChar(fromhost) THEN one ELSE nil
            /\ Q = IF InQueue THEN one ELSE nil
        OBVIOUS
      <3> HIDE DEF one, nil, B, F, Q
      <3>4. B \o F \o Q = IF console_buf > 0 \/ IsChar(fromhost) \/ InQueue THEN one ELSE nil
        <4>1. CASE console_buf > 0
          BY <2>5, <3>2, <3>3, <4>1
        <4>2. CASE ~(console_buf > 0)
          BY <2>5, <3>2, <3>3, <4>2
        <4> QED BY <4>1, <4>2
      <3> QED BY <3>4 DEF one, nil
    <2>8. CASE console_buf > 0 \/ IsChar(fromhost) \/ InQueue
      <3>1. typed - got = 1 /\ got + 1 = typed
        BY <2>1, <2>6, <2>8
      <3>2. [i \in 1 .. typed - got |-> got + i] = <<typed>>
        BY <2>1, <3>1
      <3> QED BY <2>2, <2>3, <2>4, <2>7, <2>8, <3>2
    <2>9. CASE ~(console_buf > 0 \/ IsChar(fromhost) \/ InQueue)
      <3>1. [i \in 1 .. typed - got |-> got + i] = <<>>
        BY <2>1, <2>6, <2>9
      <3> QED BY <2>2, <2>3, <2>4, <2>7, <2>9, <3>1
    <2> QED BY <2>8, <2>9
  <1> QED BY <1>1, HtifInductive, PTL
=============================================================================
