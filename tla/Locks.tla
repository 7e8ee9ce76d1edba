-------------------------------- MODULE Locks --------------------------------
(***************************************************************************)
(* What a system call holds when it gives up the core.                     *)
(*                                                                         *)
(* Every task has a lock around its inner fields, its memory set and its   *)
(* descriptor table; clone may share the last two, and tasks may share an  *)
(* epoll file.  The kernel's locks spin, and nothing takes the only core   *)
(* away from a task that spins: a lock that is not free when it is wanted  *)
(* is never free again.  The module has, for every system call that takes  *)
(* these locks, the orders in which it takes them, drops them and suspends *)
(* (syscall/fs.rs, select.rs, socket.rs, process.rs, times.rs, futex), and *)
(* of the scheduler what takes them too (task/cpu_local.rs).               *)
(***************************************************************************)
EXTENDS Integers, Sequences, SequencesExt, FiniteSets

CONSTANTS
  Tasks, Nobody,
  Programs,  \* who shares what, and which calls are made: [vm, fd, epoll, calls]
  MaxNaps    \* how often one call suspends, at most

ASSUME LocksAssumption ==
  /\ Nobody \notin Tasks /\ IsFiniteSet(Tasks)
  /\ \A p \in Programs : {p.vm, p.fd, p.epoll} \subseteq [Tasks -> Tasks]
  /\ MaxNaps \in Nat

VARIABLES
  program,   \* the one of Programs that runs: clone settled what is shared
  queue,     \* the ready tasks
  current,   \* CpuLocal::current
  path,      \* what is left of the call each task is in: <<>> in user mode
  held       \* who holds each lock

vars == <<program, queue, current, path, held>>

VmOf == program.vm         \* whose memory set a task uses
FdOf == program.fd         \* whose descriptor table
EpollOf == program.epoll   \* whose epoll file is under its descriptors

Kinds == {"inner", "vm", "fd", "epoll"}
Lock(t, k) == <<k, CASE k = "inner" -> t  [] k = "vm" -> VmOf[t]
                     [] k = "fd" -> FdOf[t] [] k = "epoll" -> EpollOf[t]>>
Steps == [op : {"take", "drop"}, kind : Kinds] \cup [op : {"nap", "return", "exit"}]
-----------------------------------------------------------------------------
(* Paths.  A call is the set of its paths; what tells them apart, an early *)
(* return or what a descriptor refers to, is left out.                     *)

Take(kinds) == [i \in DOMAIN kinds |-> [op |-> "take", kind |-> kinds[i]]]
Drop(kinds) == [i \in DOMAIN kinds |-> [op |-> "drop", kind |-> kinds[i]]]
Briefly(kind) == Take(<<kind>>) \o Drop(<<kind>>)
Nap == <<[op |-> "nap"]>>
Then(P, Q) == {p \o q : p \in P, q \in Q}
None == {<<>>}
\* At most MaxNaps times a path of P.
Loop(P) == LET times[n \in 0..MaxNaps] == IF n = 0 THEN None ELSE None \cup Then(P, times[n - 1])
           IN  times[MaxNaps]
Naps == Loop({Nap})
OnlyVm == {Take(<<"vm">>)}
OnlyFd == {Take(<<"fd">>)}
OnlyInner == {Take(<<"inner">>)}
VmThenFd == {Take(<<"vm">>), Take(<<"vm", "fd">>)}

\* resolve_path_from_fd: an absolute path; one relative to the current
\* directory; one relative to an open directory.
Absolute == None
FromCwd == {Briefly("inner")}
FromFd == {Briefly("fd")}
Resolve == Absolute \cup FromCwd \cup FromFd
-----------------------------------------------------------------------------
(* The calls on files.                                                     *)

\* The guard of the table lives through file.read, in which a pipe and the
\* console suspend; the other two locks are dropped before it.
Read(naps) == {Take(<<"inner", "vm">>), Take(<<"inner", "vm", "fd">>)}
                \cup Then({Take(<<"inner", "vm", "fd">>) \o Drop(<<"inner", "vm">>)}, naps)
Write(naps) == VmThenFd \cup Then({Take(<<"vm", "fd">>) \o Drop(<<"vm">>)}, naps)

Pread == Read(None)
Getcwd == {Take(<<"inner", "vm">>)}
Readlinkat == Then(OnlyVm, None \cup Resolve)
Access == Then(OnlyVm, None \cup Resolve)
Renameat2 == Then(OnlyVm, None \cup Resolve \cup Then(Resolve, Resolve))
Fstat == OnlyFd
Fstatat == Resolve
Linkat == Resolve \cup Then(Resolve, Resolve)
Unlinkat == Resolve
Mount == Then(Absolute \cup FromCwd, Absolute \cup FromCwd)
Umount == Absolute \cup FromCwd
Mkdir == Resolve
Chdir == {Take(<<"inner", "vm">>)}
Open(resolve) == {Take(<<"fd", "vm">>)} \cup Then({Take(<<"fd", "vm">>)}, resolve)
Close == OnlyFd
Pipe == OnlyFd
Dup == OnlyFd
Dup3 == OnlyFd
Getdents == Then(FromCwd \cup FromFd, None \cup OnlyVm)
Utimensat(resolve) == None \cup Then({Take(<<"vm", "fd">>)}, None \cup resolve)
Lseek == OnlyFd
Umask == OnlyFd
Fcntl == OnlyFd
Sendfile(naps) == {Take(<<"vm", "fd">>)} \cup Then({Take(<<"vm", "fd">>)}, naps)
Ioctl == {Take(<<"vm", "fd">>)}
-----------------------------------------------------------------------------
(* Calls that wait for files, sockets, children, time or another thread.   *)

Pselect6 == {Take(<<"vm", "fd">>)}
              \cup Then({Take(<<"vm", "fd">>) \o Drop(<<"vm", "fd">>)}, Naps)
LookAgain == Loop({Briefly("fd") \o Nap})
Ppoll == OnlyVm \cup Then({Briefly("vm")}, Then(LookAgain, OnlyFd))
EpollCreate == OnlyFd
EpollCtl == {Take(<<"vm", "fd">>), Take(<<"vm", "fd", "epoll">>)}
\* The guard of the interest list is a temporary that a `let` extends to the
\* end of the function.
EpollWait(looks) ==
  OnlyVm \cup {Take(<<"vm", "fd">>)}
    \cup Then({Take(<<"vm", "fd", "epoll">>) \o Drop(<<"fd", "vm">>)}, Then(looks, OnlyFd))

Socket == OnlyFd
Sendto == {Take(<<"vm", "fd">>)}
Recvfrom == OnlyVm \cup Then({Briefly("vm")}, Then(LookAgain, OnlyFd))
Bind == VmThenFd
Listen == OnlyFd
Connect == VmThenFd
Accept4 == OnlyVm \cup Then({Briefly("vm")}, Then(LookAgain, OnlyFd))

FutexWait_KeepsVm == Then(OnlyVm, None \cup {Nap})
FutexWait == OnlyVm \cup {Briefly("vm") \o Nap}
FutexWake == {Nap}
Wait4 == Then(Loop({Briefly("inner") \o Nap}), OnlyInner)
Nanosleep == Naps
Yield == {Nap}
-----------------------------------------------------------------------------
(* Calls on memory, time, signals and tasks.                               *)

Brk == OnlyInner
Mmap == {Briefly("inner"), Briefly("inner") \o Take(<<"vm">>), Take(<<"inner", "fd">>),
         Take(<<"inner", "fd">>) \o Drop(<<"inner">>) \o Take(<<"vm">>)}
Munmap == OnlyVm
PageFault == OnlyVm
Times == OnlyVm
SetTidAddress == OnlyInner
Prlimit == OnlyFd
SigCalls == OnlyVm

BrieflyIfAt(kind) == None \cup {Briefly(kind)}
Clone == Then(OnlyInner, Then(BrieflyIfAt("vm"), Then(BrieflyIfAt("fd"),
              Then(BrieflyIfAt("vm"), BrieflyIfAt("vm")))))
Exec == OnlyInner \cup {Take(<<"inner">>) \o Briefly("vm") \o Briefly("fd") \o Take(<<"vm">>)}
Exit == Then({Briefly("inner")}, Then(BrieflyIfAt("vm"), {<<[op |-> "exit"]>>}))
-----------------------------------------------------------------------------
\* The calls by name; read and write of a file that never suspends, open and
\* utimensat without a directory's descriptor, sendfile between files and
\* epoll_wait that need not wait have names of their own.
PathsOf == [
  read |-> Read(Naps), read_file |-> Read(None), write |-> Write(Naps), write_file |-> Write(None), pread |-> Pread,
  getcwd |-> Getcwd, readlinkat |-> Readlinkat, faccessat |-> Access, renameat2 |-> Renameat2,
  fstat |-> Fstat, fstatat |-> Fstatat, linkat |-> Linkat, unlinkat |-> Unlinkat, mount |-> Mount,
  umount |-> Umount, mkdirat |-> Mkdir, chdir |-> Chdir, open |-> Open(Absolute \cup FromCwd),
  openat |-> Open(Resolve), close |-> Close, pipe |-> Pipe, dup |-> Dup, dup3 |-> Dup3,
  getdents |-> Getdents, utimens |-> Utimensat(Absolute \cup FromCwd),
  utimensat |-> Utimensat(Resolve), lseek |-> Lseek, umask |-> Umask, fcntl |-> Fcntl,
  sendfile |-> Sendfile(Naps), sendfile_file |-> Sendfile(None), ioctl |-> Ioctl,
  pselect6 |-> Pselect6, ppoll |-> Ppoll, epoll_create |-> EpollCreate, epoll_ctl |-> EpollCtl,
  epoll_wait |-> EpollWait(LookAgain), epoll_look |-> EpollWait(None), socket |-> Socket,
  sendto |-> Sendto, recvfrom |-> Recvfrom, bind |-> Bind, listen |-> Listen, connect |-> Connect,
  accept4 |-> Accept4, futex_wait |-> FutexWait, futex_wake |-> FutexWake, wait4 |-> Wait4,
  nanosleep |-> Nanosleep, yield |-> Yield, brk |-> Brk, mmap |-> Mmap, munmap |-> Munmap,
  fault |-> PageFault, times |-> Times, set_tid_address |-> SetTidAddress, prlimit |-> Prlimit,
  sigaction |-> SigCalls, clone |-> Clone, exec |-> Exec, exit |-> Exit]

ASSUME ProgramsAssumption == \A p \in Programs : p.calls \subseteq DOMAIN PathsOf

\* What spins even if the tasks share nothing but an open file.
Faulty == {"openat", "utimensat", "sendfile", "epoll_wait"}
\* What holds the descriptor table while it sleeps.
SleepWithTable == {"read", "write"}

\* Every task has a table of its own, or nothing sleeps with one.
OwnTables(p) == \A t, u \in Tasks : p.fd[t] = p.fd[u] => t = u
Harmless(p) ==
  /\ p.calls \cap Faulty = {}
  /\ OwnTables(p) \/ p.calls \cap SleepWithTable = {}
-----------------------------------------------------------------------------
Init ==
  /\ program \in Programs
  /\ queue = SetToSeq(Tasks)
  /\ current = Nobody
  /\ path = [t \in Tasks |-> <<>>]
  /\ held = [l \in Kinds \X Tasks |-> Nobody]

Free(l) == held[l] = Nobody

\* The current task is in a call, at this kind of step.
At(t, op) == current = t /\ path[t] # <<>> /\ Head(path[t]).op = op
Advance(t) == path' = [path EXCEPT ![t] = Tail(@)]

\* What run_tasks locks to switch to a task: its inner fields for the context
\* and the status, its memory set for the page table.
ToResume(t) == {Lock(t, "inner"), Lock(t, "vm")}

\* What handle_zombie_task locks: the task's inner fields, those of its
\* children, whoever they are, and the memory set if nobody else has it.
ToBury(t) == {Lock(u, "inner") : u \in Tasks}
               \cup {l \in {Lock(t, "vm")} : \A u \in Tasks \ {t} : VmOf[u] # VmOf[t]}

\* run_tasks on the idle core.
Resume ==
  /\ current = Nobody /\ queue # <<>>
  /\ \A l \in ToResume(Head(queue)) : Free(l)
  /\ current' = Head(queue)
  /\ queue' = Tail(queue)
  /\ UNCHANGED <<program, path, held>>

\* A program makes a call, or touches a page it has not touched before.
Call(t) ==
  /\ current = t /\ path[t] = <<>>
  /\ \E c \in program.calls : \E p \in PathsOf[c] :
       path' = [path EXCEPT ![t] = p \o <<[op |-> "return"]>>]
  /\ UNCHANGED <<program, queue, current, held>>

TakeLock(t) ==
  /\ At(t, "take")
  /\ LET l == Lock(t, Head(path[t]).kind)
     IN  Free(l) /\ held' = [held EXCEPT ![l] = t]
  /\ Advance(t)
  /\ UNCHANGED <<program, queue, current>>

DropLock(t) ==
  /\ At(t, "drop")
  /\ held' = [held EXCEPT ![Lock(t, Head(path[t]).kind)] = Nobody]
  /\ Advance(t)
  /\ UNCHANGED <<program, queue, current>>

\* suspend_current_task sets the status, and run_tasks puts the task back.
Suspend(t) ==
  /\ At(t, "nap")
  /\ Free(Lock(t, "inner"))
  /\ current' = Nobody
  /\ queue' = Append(queue, t)
  /\ Advance(t)
  /\ UNCHANGED <<program, held>>

\* The guards of the handler are dropped; a mutant forgets one.
Kept_Epoll(t) == {Lock(t, "epoll")}
Kept(t) == {}
Return(t) ==
  /\ At(t, "return")
  /\ held' = [l \in DOMAIN held |-> IF held[l] = t /\ l \notin Kept(t) THEN Nobody ELSE held[l]]
  /\ Advance(t)
  /\ UNCHANGED <<program, queue, current>>

\* exit_current_task and handle_zombie_task.
Die(t) ==
  /\ At(t, "exit")
  /\ \A l \in ToBury(t) : Free(l)
  /\ current' = Nobody
  /\ path' = [path EXCEPT ![t] = <<>>]
  /\ UNCHANGED <<program, queue, held>>

Next == \/ Resume
        \/ \E t \in Tasks : \/ Call(t) \/ TakeLock(t) \/ DropLock(t)
                            \/ Suspend(t) \/ Return(t) \/ Die(t)

Spec == Init /\ [][Next]_vars
-----------------------------------------------------------------------------
(* Properties.                                                             *)

\* A task is on the core, in the queue or dead, and only in a call does it
\* hold anything.
TypeOK ==
  /\ program \in Programs
  /\ queue \in Seq(Tasks) /\ IsInjective(queue)
  /\ current \in Tasks \cup {Nobody} /\ current \notin Range(queue)
  /\ path \in [Tasks -> Seq(Steps)]
  /\ held \in [Kinds \X Tasks -> Tasks \cup {Nobody}]
  /\ \A l \in Kinds \X Tasks : ~ Free(l) => path[held[l]] # <<>>

\* What the core needs for its next step.
Wanted == IF current = Nobody
          THEN IF queue = <<>> THEN {} ELSE ToResume(Head(queue))
          ELSE CASE path[current] = <<>> -> {}
                 [] At(current, "take") -> {Lock(current, Head(path[current]).kind)}
                 [] At(current, "nap") -> {Lock(current, "inner")}
                 [] At(current, "exit") -> ToBury(current)
                 [] OTHER -> {}

\* On the only core every lock is free when it is taken: by a call that has
\* taken others itself, by a call after another task suspended inside one, and
\* by the scheduler that switches to a task (cpu_local.rs:88, cpu_local.rs:145).
NeverSpins == \A l \in Wanted : Free(l)
=============================================================================
