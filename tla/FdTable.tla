------------------------------- MODULE FdTable -------------------------------
(***************************************************************************)
(* The descriptor tables of processes (file/fd_manager.rs), their          *)
(* allocators of descriptors (memory/allocator/fd.rs) and the calls that   *)
(* change them (syscall/fs.rs, prlimit64 of syscall/process.rs, clone,     *)
(* exec and exit of task/task.rs).                                         *)
(*                                                                         *)
(* A table has an array of files and a set of free descriptors that should *)
(* say the same thing; the allocator checks nothing for it (fd.rs:5).  The *)
(* close-on-exec flag belongs to the open file, which several descriptors  *)
(* of several tables may have.  Each call holds the table's lock for all   *)
(* of what is an action here.  The first process has closed the three      *)
(* console files it starts with.                                           *)
(***************************************************************************)
EXTENDS Integers, FiniteSets, FiniteSetsExt

CONSTANTS
  Procs,     \* the processes that may come to be
  First,     \* the one that is there from the beginning
  Files,     \* the open files
  KindOf,    \* what each file is: one of Kinds
  NoFile,    \* an entry that is None
  Hard,      \* FD_LIMIT_HARD, the capacity of the allocator
  Calls,     \* the calls the programs make
  Careful    \* do they set limits above what is open, give dup3 descriptors
             \* below the limit, and exec without flagged files?

Kinds == {"fat", "dir", "socket", "pipe"}

ASSUME FdTableAssumption ==
  /\ First \in Procs /\ NoFile \notin Files
  /\ KindOf \in [Files -> Kinds]
  /\ Hard \in Nat \ {0}
  /\ Careful \in BOOLEAN

VARIABLES
  alive,     \* the processes that have a table
  file,      \* FdManager::files of each
  free,      \* the bits of FdManager::fd_allocator of each
  limit,     \* FdManager::limit of each
  cloexec,   \* the flag CLOEXEC of each open file
  panicked   \* an assertion or an index check of the kernel has failed

vars == <<alive, file, free, limit, cloexec, panicked>>

Fds == 0..Hard - 1
\* A mutant: one too many.
Below_Inclusive(n) == 0..n
Below(n) == 0..n - 1
Empty == [fd \in Fds |-> NoFile]
Has(p, fd) == fd \in Fds /\ file[p][fd] # NoFile
Used(p) == {fd \in Fds : Has(p, fd)}
Fresh == {f \in Files : \A p \in alive, fd \in Fds : file[p][fd] # f}
Flagged(p) == {fd \in Used(p) : cloexec[file[p][fd]]}

\* Can the flag be set by F_SETFD?  A directory says so.
Settable(f) == KindOf[f] \in {"fat", "dir"}
FlagSet(f, b) == IF KindOf[f] = "fat" THEN [cloexec EXCEPT ![f] = b] ELSE cloexec
-----------------------------------------------------------------------------
Init ==
  /\ alive = {First}
  /\ file = [p \in Procs |-> Empty]
  /\ free = [p \in Procs |-> Below(Hard)]
  /\ limit = [p \in Procs |-> Hard]
  /\ cloexec = [f \in Files |-> FALSE]
  /\ panicked = FALSE

\* A process in the kernel, in one of these calls.
In(p, c) == p \in alive /\ ~ panicked /\ c \in Calls
Panic == panicked' = TRUE /\ UNCHANGED <<alive, file, free, limit, cloexec>>

\* BitAlloc::alloc
Lowest(bits) == Min(bits)

\* FdManager::push
Push(p, f) ==
  LET fd == Lowest(free[p])
  IN  /\ free' = [free EXCEPT ![p] = @ \ {fd}]
      /\ file' = [file EXCEPT ![p][fd] = f]

\* sys_open, with O_CLOEXEC or without, and sys_socket: a socket is flagged
\* from the beginning.  A full table gives an error.
Open(p) ==
  /\ In(p, "open")
  /\ free[p] # {}
  /\ \E f \in Fresh : \E b \in BOOLEAN :
       /\ KindOf[f] \in {"dir", "socket"} => b = (KindOf[f] = "socket")
       /\ KindOf[f] # "pipe"
       /\ Push(p, f)
       /\ cloexec' = [cloexec EXCEPT ![f] = b]
  /\ UNCHANGED <<alive, limit, panicked>>

\* sys_pipe: both ends or, if there is one free descriptor only, neither.
MakePipe(p) ==
  /\ In(p, "pipe")
  /\ Cardinality(free[p]) > 1
  /\ \E r, w \in Fresh :
       /\ r # w /\ KindOf[r] = "pipe" /\ KindOf[w] = "pipe"
       /\ LET fd1 == Lowest(free[p])
              fd2 == Lowest(free[p] \ {fd1})
          IN  /\ free' = [free EXCEPT ![p] = @ \ {fd1, fd2}]
              /\ file' = [file EXCEPT ![p][fd1] = r, ![p][fd2] = w]
  /\ UNCHANGED <<alive, limit, cloexec, panicked>>

\* A mutant: the bit is forgotten.
Remove_BitLeft(p, fd) == UNCHANGED free /\ file' = [file EXCEPT ![p][fd] = NoFile]
\* FdManager::remove_file; the leaf of the allocator asserts that the bit was
\* not free.
Remove(p, fd) == /\ free' = [free EXCEPT ![p] = @ \cup {fd}]
                 /\ file' = [file EXCEPT ![p][fd] = NoFile]

\* sys_close
Close(p) ==
  /\ In(p, "close")
  /\ \E fd \in Used(p) :
       IF fd \in free[p] THEN Panic
       ELSE Remove(p, fd) /\ UNCHANGED <<alive, limit, cloexec, panicked>>

\* sys_dup, and F_DUPFD of sys_fcntl64
Dup(p) ==
  /\ In(p, "dup")
  /\ free[p] # {}
  /\ \E fd \in Used(p) : Push(p, file[p][fd])
  /\ UNCHANGED <<alive, limit, cloexec, panicked>>

\* A mutant: the entries without their bits.
Claim_NotTaken(bits, fds) == bits
\* alloc_exact_if_possible of one, alloc_exact of each
Claim(bits, fds) == bits \ fds

\* sys_dup3: the allocator's bit of a descriptor it does not have is beyond
\* the end of its array.
Dup3(p) ==
  /\ In(p, "dup3")
  /\ \E old \in Used(p), new \in 0..Hard :
       /\ Careful => new < limit[p]
       /\ IF new = Hard THEN Panic
          ELSE /\ free' = [free EXCEPT ![p] = Claim(@, {new})]
               /\ file' = [file EXCEPT ![p][new] = file[p][old]]
               /\ UNCHANGED <<alive, limit, cloexec, panicked>>

\* F_SETFD
SetFd(p, fd, b) ==
  /\ In(p, "setfd")
  /\ Has(p, fd) /\ Settable(file[p][fd])
  /\ cloexec' = FlagSet(file[p][fd], b)
  /\ UNCHANGED <<alive, file, free, limit, panicked>>

\* F_SETFL, which sets the flag of files and sockets too
SetFl(p) ==
  /\ In(p, "setfl")
  /\ \E fd \in Used(p), b \in BOOLEAN :
       /\ KindOf[file[p][fd]] \in {"fat", "socket"}
       /\ cloexec' = [cloexec EXCEPT ![file[p][fd]] = b]
  /\ UNCHANGED <<alive, file, free, limit, panicked>>

\* A mutant: the copy of a file that cannot be flagged keeps its entry.
Undone_EntryLeft(p, fd, f) == /\ UNCHANGED free
                              /\ file' = [file EXCEPT ![p][fd] = f]
\* remove_file of the descriptor that push has just given
Undone(p, fd, f) == UNCHANGED <<free, file>>

\* F_DUPFD_CLOEXEC
DupCloexec(p) ==
  /\ In(p, "dupcloexec")
  /\ free[p] # {}
  /\ \E fd \in Used(p), b \in BOOLEAN :
       LET f == file[p][fd]
       IN  /\ IF Settable(f) THEN Push(p, f) ELSE Undone(p, Lowest(free[p]), f)
           /\ cloexec' = FlagSet(f, b)
  /\ UNCHANGED <<alive, limit, panicked>>

\* shrink_range or expand_range
Relimited(bits, old, new) == (bits \ (new..old - 1)) \cup (old..new - 1)

\* prlimit64 of RLIMIT_NOFILE: FdManager::modify_limit
SetLimit(p) ==
  /\ In(p, "setlimit")
  /\ \E n \in 0..Hard :
       /\ Careful => n > 0 /\ Used(p) \subseteq Below(n)
       /\ limit' = [limit EXCEPT ![p] = n]
       /\ free' = [free EXCEPT ![p] = Relimited(@, limit[p], n)]
  /\ UNCHANGED <<alive, file, cloexec, panicked>>

\* clone without CLONE_FILES: FdManager::copy_all.  An allocator of nothing
\* counts down from 0.
Fork(p) ==
  /\ In(p, "fork")
  /\ \E q \in Procs \ alive :
       IF limit[p] = 0 THEN Panic
       ELSE /\ alive' = alive \cup {q}
            /\ file' = [file EXCEPT ![q] = file[p]]
            /\ limit' = [limit EXCEPT ![q] = limit[p]]
            /\ free' = [free EXCEPT ![q] = Claim(Below(limit[p]), Used(p))]
            /\ UNCHANGED <<cloexec, panicked>>

\* FdManager::close_cloexec_files
Exec(p) ==
  /\ In(p, "exec")
  /\ Careful => Flagged(p) = {}
  /\ file' = [file EXCEPT ![p] = [fd \in Fds |-> IF fd \in Flagged(p) THEN NoFile ELSE @[fd]]]
  /\ UNCHANGED <<alive, free, limit, cloexec, panicked>>

\* The table of a process that has been reaped is dropped.
Gone(p) ==
  /\ p \in alive /\ ~ panicked /\ alive # {p}
  /\ alive' = alive \ {p}
  /\ file' = [file EXCEPT ![p] = Empty]
  /\ free' = [free EXCEPT ![p] = Below(Hard)]
  /\ limit' = [limit EXCEPT ![p] = Hard]
  /\ UNCHANGED <<cloexec, panicked>>

Next == \E p \in Procs :
  \/ Open(p) \/ MakePipe(p) \/ Close(p) \/ Dup(p) \/ Dup3(p)
  \/ \E fd \in Fds, b \in BOOLEAN : SetFd(p, fd, b)
  \/ SetFl(p) \/ DupCloexec(p) \/ SetLimit(p) \/ Fork(p) \/ Exec(p) \/ Gone(p)

Spec == Init /\ [][Next]_vars
-----------------------------------------------------------------------------
(* Properties.                                                             *)

TypeOK ==
  /\ alive \subseteq Procs /\ alive # {}
  /\ file \in [Procs -> [Fds -> Files \cup {NoFile}]]
  /\ free \in [Procs -> SUBSET Fds]
  /\ limit \in [Procs -> 0..Hard]
  /\ cloexec \in [Files -> BOOLEAN]
  /\ panicked \in BOOLEAN
  /\ \A p \in Procs \ alive : file[p] = Empty

\* No descriptor under which a file is open is handed out again, whatever
\* sequence of calls led here (fd_manager.rs:107).
FreeIsFree == \A p \in alive : free[p] \cap Used(p) = {}

\* Nor is one lost or made up: what has no file is free, up to the limit of the
\* table and no further (fd_manager.rs:23, fd_manager.rs:185).
NoneLost == \A p \in alive : free[p] \cup Used(p) = Below(limit[p])

\* No sequence of these calls trips an assertion or an index check.
NeverPanics == ~ panicked
=============================================================================
