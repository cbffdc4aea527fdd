-------------------------------- MODULE Htif --------------------------------
(***************************************************************************)
(* The host-target interface, src/pk/machine/htif.c: console and proxied   *)
(* system calls through the two mailboxes tohost and fromhost, under       *)
(* htif_lock, and the host at the other end, which is external.            *)
(*                                                                         *)
(* A hart's reads and writes of the mailboxes are steps of their own.      *)
(* __check_fromhost is one step: the host leaves fromhost alone while it   *)
(* is not zero.  frontend_syscall (src/pk/pk/frontend.c) passes every      *)
(* system call in one buffer, magic_mem, under a lock of its own.          *)
(*                                                                         *)
(* The calls are open to every hart, as the locks intend: pk makes the     *)
(* system calls and bbl the console calls of the supervisor it boots.      *)
(***************************************************************************)
EXTENDS Harts, Integers, Sequences

CONSTANTS
    TYPED          \* bound: characters typed at the host's console

VARIABLES
    tohost,        \* command to the host, or None
    fromhost,      \* answer of the host, or None
    console_buf,   \* htif_console_buf: -1, or 1 + character (0 at first)
    lock,          \* htif_lock: the hart that holds it, or Nobody
    req,           \* [Hart -> the command the hart wants to send]
    magic_mem,     \* whose system call it holds, and whether it is done
    magic_lock,    \* frontend_syscall's lock: the hart that holds it, or Nobody
    closing,       \* [Hart -> BOOLEAN] the hart is in poweroff
    got,           \* history: last character htif_console_getchar returned
    put,           \* history: characters sent and not yet printed
    hostq,         \* host: answers not yet in fromhost
    reads,         \* host: console reads it owes a character
    typed,         \* host: characters typed so far (the next is typed + 1)
    off            \* host: has seen the power-off command

front    == <<magic_mem, magic_lock, closing>>
mailbox  == <<tohost, fromhost, console_buf, lock, req>>
hostVars == <<hostq, reads, typed, off>>
htifVars == <<mailbox, front, got, put, hostVars>>

\* dev and cmd of a command or answer; dev 9 stands for the power-off code 1.
Msg(d, c, x) == [dev |-> d, cmd |-> c, data |-> x]
None     == Msg(-1, 0, 0)
PowerOff == Msg(9, 0, 0)
Nobody   == MAX_HARTS

HtifInit ==
    /\ tohost = None /\ fromhost = None
    /\ console_buf = 0
    /\ lock = Nobody
    /\ req = [h \in Hart |-> None]
    /\ magic_mem = [of |-> Nobody, done |-> FALSE]
    /\ magic_lock = Nobody
    /\ closing = [h \in Hart |-> FALSE]
    /\ got = 0 /\ put = <<>>
    /\ hostq = <<>> /\ reads = 0 /\ typed = 0 /\ off = FALSE

-----------------------------------------------------------------------------
(* The calls.  Each starts at "lock", with the command it will send.        *)

Call(h, m) ==
    /\ Step(h, "super", "lock")
    /\ req' = [req EXCEPT ![h] = m]
    /\ UNCHANGED <<tohost, fromhost, console_buf, lock, front, got, put, hostVars>>

Putchar(h) == Call(h, Msg(1, 1, h))
Getchar(h) == Call(h, Msg(1, 0, 0))

\* frontend_syscall up to the call of htif_syscall.
Syscall(h) ==
    /\ Step(h, "super", "magic")
    /\ UNCHANGED htifVars

\* (Names ending in _Mutant are mistakes the checks are known to find; no
\* specification uses them.)
MagicLock_Mutant(h) ==
    /\ Step(h, "magic", "lock")
    /\ magic_lock' = h
    /\ magic_mem' = [of |-> h, done |-> FALSE]
    /\ req' = [req EXCEPT ![h] = Msg(0, 0, 0)]
    /\ UNCHANGED <<tohost, fromhost, console_buf, lock, closing, got, put, hostVars>>

MagicLock(h) ==
    /\ magic_lock = Nobody
    /\ Step(h, "magic", "lock")
    /\ magic_lock' = h
    /\ magic_mem' = [of |-> h, done |-> FALSE]
    /\ req' = [req EXCEPT ![h] = Msg(0, 0, 0)]
    /\ UNCHANGED <<tohost, fromhost, console_buf, lock, closing, got, put, hostVars>>

\* ... and behind it: the result is read from magic_mem.
MagicUnlock(h) ==
    /\ Step(h, "result", "super")
    /\ magic_lock' = Nobody
    /\ magic_mem' = [of |-> Nobody, done |-> FALSE]
    /\ UNCHANGED <<mailbox, closing, got, put, hostVars>>

\* poweroff with an HTIF: a message on the console, then htif_poweroff.
HtifShutdown(h) ==
    /\ Step(h, "super", "lock")
    /\ req' = [req EXCEPT ![h] = Msg(1, 1, h)]
    /\ closing' = [closing EXCEPT ![h] = TRUE]
    /\ UNCHANGED <<tohost, fromhost, console_buf, lock, magic_mem, magic_lock,
                   got, put, hostVars>>

IsGet(h) == req[h].dev = 1 /\ req[h].cmd = 0
IsSys(h) == req[h].dev = 0

\* spinlock_lock
Lock_Mutant(h) ==
    /\ Step(h, "lock", IF IsGet(h) THEN "get" ELSE "set")
    /\ lock' = h
    /\ UNCHANGED <<tohost, fromhost, console_buf, req, front, got, put, hostVars>>

Lock(h) ==
    /\ lock = Nobody
    /\ Step(h, "lock", IF IsGet(h) THEN "get" ELSE "set")
    /\ lock' = h
    /\ UNCHANGED <<tohost, fromhost, console_buf, req, front, got, put, hostVars>>

\* __check_fromhost: the answer is taken, a character is buffered.
CheckFromhost ==
    /\ fromhost' = None
    /\ console_buf' = IF fromhost.dev = 1 /\ fromhost.cmd = 0
                      THEN 1 + fromhost.data ELSE console_buf

\* htif_console_getchar under the lock: a buffered character is taken and the
\* next one asked for; the buffer starts at zero, which asks for the first.
Get_Mutant(h) ==
    LET ch == IF fromhost.dev = 1 /\ fromhost.cmd = 0 THEN 1 + fromhost.data
              ELSE console_buf
    IN
    /\ fromhost' = None
    /\ Step(h, "get", "set")
    /\ console_buf' = -1
    /\ got' = IF ch > 0 THEN ch - 1 ELSE got
    /\ UNCHANGED <<tohost, lock, req, front, put, hostVars>>

Get(h) ==
    LET ch == IF fromhost.dev = 1 /\ fromhost.cmd = 0 THEN 1 + fromhost.data
              ELSE console_buf
    IN
    /\ fromhost' = None
    /\ IF ch >= 0
       THEN /\ Step(h, "get", "set")
            /\ console_buf' = -1
            /\ got' = IF ch > 0 THEN ch - 1 ELSE got
       ELSE /\ Step(h, "get", "unlock")
            /\ UNCHANGED <<console_buf, got>>
    /\ UNCHANGED <<tohost, lock, req, front, put, hostVars>>

\* __set_tohost: the loop ...
SetLoop(h) ==
    /\ tohost # None
    /\ At(h, "set")
    /\ CheckFromhost
    /\ UNCHANGED <<pc, tohost, lock, req, front, got, put, hostVars>>

SetFree_Mutant(h) ==
    /\ Step(h, "set", "put")
    /\ UNCHANGED htifVars

SetFree(h) ==
    /\ tohost = None
    /\ Step(h, "set", "put")
    /\ UNCHANGED htifVars

\* ... and the store behind it.
Put_Mutant(h) ==
    /\ Step(h, "put", "unlock")
    /\ tohost' = req[h]
    /\ put' = IF req[h].dev = 1 /\ req[h].cmd = 1 THEN Append(put, req[h].data) ELSE put
    /\ UNCHANGED <<fromhost, console_buf, lock, req, front, got, hostVars>>

Put(h) ==
    /\ Step(h, "put", IF IsSys(h) THEN "wait" ELSE "unlock")
    /\ tohost' = req[h]
    /\ put' = IF req[h].dev = 1 /\ req[h].cmd = 1 THEN Append(put, req[h].data) ELSE put
    /\ UNCHANGED <<fromhost, console_buf, lock, req, front, got, hostVars>>

\* do_tohost_fromhost: anything but the answer waited for goes to the console.
Answered(h) == fromhost # None /\ fromhost.dev = req[h].dev /\ fromhost.cmd = req[h].cmd

WaitDone(h) ==
    /\ Answered(h)
    /\ Step(h, "wait", "unlock")
    /\ fromhost' = None
    /\ UNCHANGED <<tohost, console_buf, lock, req, front, got, put, hostVars>>

WaitOther(h) ==
    /\ fromhost # None /\ ~Answered(h)
    /\ At(h, "wait")
    /\ CheckFromhost
    /\ UNCHANGED <<pc, tohost, lock, req, front, got, put, hostVars>>

Unlock(h) ==
    /\ Step(h, "unlock", CASE closing[h] -> "off" [] IsSys(h) -> "result" [] OTHER -> "super")
    /\ lock' = Nobody
    /\ req' = [req EXCEPT ![h] = None]
    /\ UNCHANGED <<tohost, fromhost, console_buf, front, got, put, hostVars>>

\* htif_poweroff: both mailboxes, over and over, without the lock.  The two
\* stores of a turn are one step: the next turn undoes what comes in between.
Poweroff_Mutant(h) ==
    /\ Step(h, "off", "halted")
    /\ fromhost' = None
    /\ tohost' = PowerOff
    /\ UNCHANGED <<console_buf, lock, req, front, got, put, hostVars>>

Poweroff(h) ==
    /\ At(h, "off")
    /\ fromhost' = None
    /\ tohost' = PowerOff
    /\ UNCHANGED <<pc, console_buf, lock, req, front, got, put, hostVars>>

HtifStep(h) ==
    \/ Lock(h) \/ Get(h) \/ SetLoop(h) \/ SetFree(h) \/ Put(h)
    \/ WaitDone(h) \/ WaitOther(h) \/ Unlock(h) \/ Poweroff(h)
    \/ MagicLock(h) \/ MagicUnlock(h)

-----------------------------------------------------------------------------
(* The host: it empties tohost, acknowledges a printed character or not,   *)
(* answers a system call, and gives a character when one is typed.         *)

HostTakes ==
    /\ tohost # None /\ ~off
    /\ tohost' = None
    /\ \/ /\ tohost = PowerOff
          /\ off' = TRUE
          /\ UNCHANGED <<hostq, reads, put, magic_mem>>
       \/ /\ tohost.dev = 0
          /\ hostq' = Append(hostq, tohost)
          /\ magic_mem' = [magic_mem EXCEPT !.done = TRUE]
          /\ UNCHANGED <<reads, put, off>>
       \/ /\ tohost.dev = 1 /\ tohost.cmd = 0
          /\ reads' = reads + 1
          /\ UNCHANGED <<hostq, put, off, magic_mem>>
       \/ /\ tohost.dev = 1 /\ tohost.cmd = 1
          /\ put' = Tail(put)
          /\ hostq' \in {hostq, Append(hostq, Msg(1, 1, 0))}
          /\ UNCHANGED <<reads, off, magic_mem>>
    /\ UNCHANGED <<pc, fromhost, console_buf, lock, req, magic_lock, closing, got, typed>>

HostGives ==
    /\ hostq # <<>> /\ fromhost = None /\ ~off
    /\ fromhost' = Head(hostq)
    /\ hostq' = Tail(hostq)
    /\ UNCHANGED <<pc, tohost, console_buf, lock, req, front, got, put, reads, typed, off>>

HostTypes ==
    /\ reads > 0 /\ typed < TYPED /\ ~off
    /\ reads' = reads - 1
    /\ typed' = typed + 1
    /\ hostq' = Append(hostq, Msg(1, 0, typed + 1))
    /\ UNCHANGED <<pc, mailbox, front, got, put, off>>
=============================================================================
