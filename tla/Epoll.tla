------------------------------- MODULE Epoll -------------------------------
(***************************************************************************)
(* EXTERNAL: the part of Linux that event-manager is written against,      *)
(* modelled from how src/src/epoll.rs and src/src/events.rs use it.        *)
(*                                                                         *)
(* The process has a table of file descriptors, each naming an open file   *)
(* description (a "file").  An epoll instance keys a registration by the   *)
(* PAIR (descriptor number, file): epoll_ctl looks the descriptor up in    *)
(* the table of the moment, and a registration disappears by itself only   *)
(* when the last descriptor of its file is closed.                         *)
(***************************************************************************)
EXTENDS Naturals

CONSTANTS
    Fds,        \* descriptor numbers the subscribers work with
    Fd0,        \* descriptor number 0, the fd of EpollEvent::default()
    Files,      \* open file descriptions
    NoFile,     \* marks a descriptor number that is not open
    Maskable,   \* conditions reported only when asked for (EPOLLIN, ...)
    Unmaskable, \* conditions always reported (EPOLLERR, EPOLLHUP)
    ClosesRegistered \* may a client close a descriptor it left registered?

ASSUME EpollAssumption ==
    /\ Fd0 \in Fds
    /\ NoFile \notin Files
    /\ Maskable \cap Unmaskable = {}
    /\ ClosesRegistered \in BOOLEAN

VARIABLES
    open,       \* [Fds -> Files \cup {NoFile}]: the descriptor table
    interest,   \* set of registered <<fd, file>> pairs
    mask        \* [Keys -> SUBSET Maskable]: the events asked for, {} if not registered

kernelVars == <<open, interest, mask>>

Keys == Fds \X Files

KernelTypeOK ==
    /\ open \in [Fds -> Files \cup {NoFile}]
    /\ interest \in SUBSET Keys
    /\ mask \in [Keys -> SUBSET Maskable]

(* Any descriptors may be open before the manager watches anything. *)
KernelInit ==
    /\ open \in [Fds -> Files \cup {NoFile}]
    /\ interest = {}
    /\ mask = [k \in Keys |-> {}]

(* The key an epoll_ctl call on fd addresses. *)
KeyOf(fd) == <<fd, open[fd]>>

IsOpen(fd) == open[fd] # NoFile

(* fd is open and its present file is registered under that number. *)
Watched(fd) == IsOpen(fd) /\ KeyOf(fd) \in interest

-----------------------------------------------------------------------------
(* epoll_ctl.  An error (EBADF, EEXIST, ENOENT) changes nothing; the      *)
(* guards say when the call succeeds.                                      *)

CtlAdd(fd, events) ==
    /\ IsOpen(fd)                      \* else EBADF
    /\ KeyOf(fd) \notin interest       \* else EEXIST
    /\ interest' = interest \cup {KeyOf(fd)}
    /\ mask' = [mask EXCEPT ![KeyOf(fd)] = events]
    /\ UNCHANGED open

CtlModify(fd, events) ==
    /\ Watched(fd)                     \* else EBADF or ENOENT
    /\ mask' = [mask EXCEPT ![KeyOf(fd)] = events]
    /\ UNCHANGED <<open, interest>>

(* Drop the registrations in S. *)
Forget(S) ==
    /\ interest' = interest \ S
    /\ mask' = [k \in Keys |-> IF k \in S THEN {} ELSE mask[k]]

(* EPOLL_CTL_DEL on every descriptor of a set; those that fail are skipped. *)
CtlDeleteAll(fds) ==
    /\ Forget({KeyOf(fd) : fd \in {f \in fds : Watched(f)}})
    /\ UNCHANGED open

CtlDelete(fd) ==
    /\ Watched(fd)                     \* else EBADF or ENOENT
    /\ CtlDeleteAll({fd})

(* What epoll_wait can report of a registration: any non-empty set of the  *)
(* conditions asked for and the ones that cannot be masked.                *)
Reports(k) == (SUBSET (mask[k] \cup Unmaskable)) \ {{}}

-----------------------------------------------------------------------------
(* The descriptor table, changed by any thread of the program. *)

OpenFile(fd, file) ==
    /\ ~IsOpen(fd)
    /\ \A g \in Fds : open[g] # file       \* a new open file description
    /\ open' = [open EXCEPT ![fd] = file]
    /\ UNCHANGED <<interest, mask>>

Dup(fd, newfd) ==
    /\ IsOpen(fd)
    /\ ~IsOpen(newfd)
    /\ open' = [open EXCEPT ![newfd] = open[fd]]
    /\ UNCHANGED <<interest, mask>>

(* Closing the last descriptor of a file removes its registrations. *)
Close(fd) ==
    /\ IsOpen(fd)
    /\ ClosesRegistered \/ ~Watched(fd)
    /\ open' = [open EXCEPT ![fd] = NoFile]
    /\ IF \E g \in Fds \ {fd} : open[g] = open[fd]
       THEN UNCHANGED <<interest, mask>>
       ELSE Forget(Fds \X {open[fd]})

KernelStep ==
    \/ \E fd \in Fds, file \in Files : OpenFile(fd, file)
    \/ \E fd, newfd \in Fds : Dup(fd, newfd)
    \/ \E fd \in Fds : Close(fd)
=============================================================================
