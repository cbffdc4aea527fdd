------------------------------ MODULE PkFiles ------------------------------
(***************************************************************************)
(* The open-file table of the proxy kernel (src/pk/pk/file.c) as the       *)
(* system calls of this build use it: do_syscall leaves only the old-style *)
(* sys_open, so that a file is opened, found again by its descriptor and   *)
(* held by the mappings of it, and is never closed by the program.         *)
(* The kernel runs on one hart (pk.c:224, boot_other_hart), with interrupts *)
(* off: a system call is one step.  The host's side of a descriptor is     *)
(* external.                                                               *)
(***************************************************************************)
EXTENDS Naturals, FiniteSets, FiniteSetsExt

CONSTANTS
    MAX_FILES,     \* entries of files[]
    MAX_FDS,       \* entries of fds[]
    STD            \* descriptors file_init opens (stdin, stdout, stderr)

ASSUME FilesAssumption ==
    /\ MAX_FILES \in Nat \ {0}
    /\ MAX_FDS \in Nat \ {0}
    /\ STD \in 1 .. MAX_FILES
    /\ STD <= MAX_FDS

VARIABLES
    refcnt,        \* [File -> Nat]     file_t.refcnt, 0 when the entry is free
    kfd,           \* [File -> host fd] file_t.kfd, NoKfd before its first use
    fds,           \* [Fd -> file or 0] fds[]
    host           \* set of host descriptors that are open

fileVars == <<refcnt, kfd, fds, host>>

File  == 1 .. MAX_FILES
Fd    == 0 .. MAX_FDS - 1
NoKfd == MAX_FILES + MAX_FDS          \* stands for -1
Kfd   == 0 .. MAX_FILES + MAX_FDS - 1 \* what the host can hand out

FilesInit ==
    /\ refcnt = [f \in File |-> IF f <= STD THEN 3 ELSE 0]
    /\ kfd = [f \in File |-> IF f <= STD THEN f - 1 ELSE NoKfd]
    /\ fds = [d \in Fd |-> IF d < STD THEN d + 1 ELSE 0]
    /\ host = 0 .. STD - 1

-----------------------------------------------------------------------------

FreeFiles == {f \in File : refcnt[f] = 0}
FreeFds   == {d \in Fd : fds[d] = 0}

\* file_get: the file of a descriptor, 0 for a bad one.  Its reference is
\* given back at the end of the same system call.
FileGet(d) == IF d \in Fd /\ fds[d] # 0 /\ refcnt[fds[d]] # 0 THEN fds[d] ELSE 0

\* n references to f given back by file_decref: the one that finds the count
\* at two frees the entry and closes the descriptor on the host.
DecrefTo(c, n) == IF n > 0 /\ c - n < 2 THEN 0 ELSE c - n

\* sys_open, the host refuses: file_openat takes an entry, gives it back, and
\* has the host close whatever descriptor the entry last held.
OpenRefused ==
    LET f == Min(FreeFiles) IN
    /\ FreeFiles # {}
    /\ host' = host \ {kfd[f]}
    /\ UNCHANGED <<refcnt, kfd, fds>>

\* sys_open, the host answers k: the descriptor is the first free one; with
\* none left the entry and the host's descriptor are given back.
OpenGranted ==
    LET f == Min(FreeFiles) IN
    /\ FreeFiles # {}
    /\ \E k \in Kfd \ host :
         /\ k = Min(Kfd \ host)
         /\ kfd' = [kfd EXCEPT ![f] = k]
         /\ \/ /\ FreeFds # {}
               /\ fds' = [fds EXCEPT ![Min(FreeFds)] = f]
               /\ refcnt' = [refcnt EXCEPT ![f] = 3]
               /\ host' = host \cup {k}
            \/ /\ FreeFds = {}
               /\ UNCHANGED <<fds, refcnt, host>>

\* sys_open with no entry left returns -ENOMEM and changes nothing.
SysOpen == OpenRefused \/ OpenGranted

FilesTypeOK ==
    /\ refcnt \in [File -> Nat]
    /\ kfd \in [File -> Kfd \cup {NoKfd}]
    /\ fds \in [Fd -> File \cup {0}]
    /\ host \subseteq Kfd
=============================================================================
