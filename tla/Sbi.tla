--------------------------------- MODULE Sbi ---------------------------------
(***************************************************************************)
(* The machine layer under its supervisors: harts make calls of mcall_trap *)
(* (console, IPIs, remote fences, shutdown) and frontend system calls in   *)
(* any order and at any time, the host answers.  A hart is deaf to IPIs    *)
(* while it is in machine mode, and the HTIF keeps it there until the host *)
(* reacts: the two protocols meet in the harts that wait.                  *)
(***************************************************************************)
EXTENDS Htif, Ipi, SequencesExt

CONSTANT MAX_CALLS     \* bound: calls of all harts

ASSUME SbiAssumption == MAX_CALLS \in Nat /\ TYPED \in Nat

VARIABLES
    htif,          \* query_htif has found an HTIF in the device tree
    calls          \* calls made so far

vars == <<pc, htifVars, ipiVars, htif, calls>>

Init ==
    /\ pc = [h \in Hart |-> "super"]
    /\ HtifInit
    /\ IpiInit
    /\ htif \in BOOLEAN
    /\ calls = 0

\* A hart that runs its supervisor makes a call.
Calls(h) ==
    /\ calls < MAX_CALLS
    /\ calls' = calls + 1
    /\ UNCHANGED htif

ConsoleCall(h) ==
    /\ htif
    /\ Calls(h)
    /\ Putchar(h) \/ Getchar(h) \/ Syscall(h)
    /\ UNCHANGED ipiVars

SendIpi(h) ==
    /\ Calls(h)
    /\ Step(h, "super", "post")
    /\ \E e \in {"soft", "fence"}, M \in (SUBSET Hart) \ {{}} : SendMany(h, e, M)
    /\ UNCHANGED htifVars

ClearIpi(h) ==
    /\ Calls(h)
    /\ At(h, "super")
    /\ ClearSoft(h)
    /\ UNCHANGED <<pc, htifVars>>

\* mcall_shutdown: without an HTIF all harts are told to halt.
Shutdown(h) ==
    /\ Calls(h)
    /\ \/ htif /\ HtifShutdown(h) /\ UNCHANGED ipiVars
       \/ /\ ~htif
          /\ Step(h, "super", "post")
          /\ SendMany(h, "halt", Hart)
          /\ closing' = [closing EXCEPT ![h] = TRUE]
          /\ UNCHANGED <<mailbox, magic_mem, magic_lock, got, put, hostVars>>

HartStep(h) ==
    \/ HtifStep(h) /\ UNCHANGED <<ipiVars, htif, calls>>
    \/ IpiStep(h) /\ UNCHANGED <<htifVars, htif, calls>>

Takes == HostTakes /\ UNCHANGED <<ipiVars, htif, calls>>
Gives == HostGives /\ UNCHANGED <<ipiVars, htif, calls>>
Types == HostTypes /\ UNCHANGED <<ipiVars, htif, calls>>

Next ==
    \/ \E h \in Hart : \/ ConsoleCall(h) \/ SendIpi(h) \/ ClearIpi(h) \/ Shutdown(h)
                       \/ HartStep(h)
    \/ Takes \/ Gives \/ Types

\* A hart in machine mode executes its next instruction, and takes a pending
\* interrupt; the host polls both mailboxes.  Nobody has to call or to type.
Fairness ==
    /\ \A h \in Hart : WF_vars(HartStep(h))
    /\ WF_vars(Takes) /\ WF_vars(Gives)

Spec == Init /\ [][Next]_vars /\ Fairness

-----------------------------------------------------------------------------
(* Properties.                                                              *)

\* The type invariant.  It includes what the locks are for: the hart that is
\* between spinlock_lock and spinlock_unlock of htif_lock is the one that holds it.
SbiTypeOK ==
    /\ IpiTypeOK
    /\ lock \in Hart \cup {Nobody} /\ magic_lock \in Hart \cup {Nobody}
    /\ console_buf \in -1 .. TYPED + 1
    /\ \A h \in Hart : lock = h <=> pc[h] \in {"get", "set", "put", "wait", "unlock"}
    /\ calls \in 0 .. MAX_CALLS

\* Somebody is about to power the machine off and may overwrite the mailboxes.
Down == \E h \in Hart : closing[h]

\* An event that was posted is never forgotten, whatever sender, handler and
\* waiting loop do to the line of the hart at the same time: the line is raised,
\* or its sender is about to raise it, or the hart has put it aside and will
\* raise it again, or its handler is about to fetch the events.
NoEventLost ==
    \A h \in Hart : pending[h] # {} =>
        \/ ipi[h] \/ incoming[h] \/ At(h, "fetch")
        \/ \E s \in Hart : At(s, "ring") /\ Target(s) = h

\* Once a remote fence has returned, no hart it was sent to runs supervisor code
\* without having executed it.  That the line is down says less: the handler and
\* the waiting loop of the receiver both clear it before the fence is executed.
RemoteFenceHolds ==
    \A h, i \in Hart :
        h \in owed[i] /\ At(i, "super") => pc[h] \in {"post", "ring", "watch", "consume"}

\* The message __check_fromhost finds is always from the console: the assert at
\* htif.c:31, which would print, and so wait for the lock its hart holds.
FromConsole ==
    \A h \in Hart : pc[h] \in {"get", "set"} => fromhost = None \/ fromhost.dev = 1

\* A system call returns when, and only when, the host has served that call, and
\* with its own result, though all harts share one buffer.
ResultIsOwn ==
    \A h \in Hart : At(h, "result") => magic_mem = [of |-> h, done |-> TRUE]

\* Characters in a mailbox or a queue of them.
Char(m)  == IF m.dev = 1 /\ m.cmd = 0 THEN <<m.data>> ELSE <<>>
Chars(q) == FlattenSeq([i \in DOMAIN q |-> Char(q[i])])

\* No typed character is lost, doubled or reordered on its way through fromhost
\* and the one-character buffer, whichever calls find it there.
NoInputLost ==
    ~Down => (IF console_buf > 0 THEN <<console_buf - 1>> ELSE <<>>)
                 \o Char(fromhost) \o Chars(hostq)
             = [i \in 1 .. typed - got |-> got + i]

\* No command is overwritten in tohost before the host has taken it: what is
\* printed is what was put, in that order.
NoOutputLost ==
    ~Down => put = IF tohost.dev = 1 /\ tohost.cmd = 1 THEN <<tohost.data>> ELSE <<>>

\* Every call returns and every event sent is acted upon, unless the machine goes
\* down: harts that wait for each other's lines, for a lock and for the host
\* never wait in a circle.  (The calls are bounded: all of them come to an end.)
EveryCallReturns ==
    []<>(Down \/ \A h \in Hart : At(h, "super") /\ pending[h] = {})

\* With an HTIF a shutdown reaches the host, whatever the other harts and the
\* host were doing.
ShutdownReachesHost ==
    []<>(Down /\ htif => off)
=============================================================================
