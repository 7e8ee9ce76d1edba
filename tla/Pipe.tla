-------------------------------- MODULE Pipe --------------------------------
(***************************************************************************)
(* A pipe between tasks (file/pipe.rs) with the descriptor tables that     *)
(* hold its ends (file/fd_manager.rs) and the calls that use them          *)
(* (syscall/fs.rs).  The pipe is full or empty as long as the tasks at its *)
(* ends let it be; whether an end is still open is the number of Arcs of   *)
(* the shared buffer, and a read or write that cannot finish suspends the  *)
(* task, twice at most, while it holds the lock of its descriptor table.   *)
(*                                                                         *)
(* The buffer itself is RingBuffer.  The module begins when sys_pipe has   *)
(* returned to the first task.                                             *)
(***************************************************************************)
EXTENDS Integers, Sequences, FiniteSets

CONSTANTS
  Tasks,      \* the tasks that may come to share the pipe
  First,      \* the task that made it
  NoTask,     \* nobody
  Fds,        \* the descriptors a table has room for
  Cores,      \* how many tasks run at a time
  Shares,     \* whether clone may set CLONE_FILES: subset of BOOLEAN
  Byte, Stale, Limit, MaxIO  \* of RingBuffer

ASSUME PipeAssumption ==
  /\ First \in Tasks /\ NoTask \notin Tasks
  /\ {0, 1} \subseteq Fds /\ Fds \subseteq Nat
  /\ Cores \in Nat \ {0}
  /\ Shares \subseteq BOOLEAN
  /\ Limit \in Nat \ {0} /\ MaxIO \in Nat /\ Stale \notin Byte

VARIABLES
  data, size, head, end, len, reply,  \* the buffer, see RingBuffer
  queue,     \* the tasks that can run, those on a core first
  pc,        \* where each task is: in user mode, or in one of the calls
  call,      \* the call it is in
  tableOf,   \* TaskControlBlock::fd_manager, named after its first owner
  files,     \* what each table has under each descriptor
  holder,    \* who holds the lock of each table
  parent     \* whose children list has the task

ringVars == <<data, size, head, end, len, reply>>
vars == <<ringVars, queue, pc, call, tableOf, files, holder, parent>>

Ring == INSTANCE RingBuffer

MaxTries == 2      \* the cnt of read and write
Kinds == {"read", "write", "close", "dup", "fork"}
NoCall == [kind |-> "none", fd |-> 0, want |-> 0, done |-> 0, cnt |-> 0]
NoFiles == [fd \in Fds |-> "none"]
Inside == {"move", "check"}         \* in Pipe::read or Pipe::write
Exists(t) == pc[t] \notin {"unborn", "gone"}
-----------------------------------------------------------------------------
(* The ends.                                                               *)

\* A mutant: copies of the first table's files are not counted.
Open_Uncounted(e) == \E fd \in Fds : files[First][fd] = e

\* Does an Arc of this end exist: in a table, or in the hands of a call that
\* got it from one?
Open(e) == \/ \E tb \in Tasks, fd \in Fds : files[tb][fd] = e
           \/ \E t \in Tasks : pc[t] \in Inside /\ call[t].kind = e

\* Arc::strong_count(&self.data) == 2
BothEndsOpen == Open("read") /\ Open("write")

\* is_hang_up of the read end
ReadHangsUp == len = 0 /\ ~ Open("write")
-----------------------------------------------------------------------------
(* The scheduler, as far as it matters here: see Tasks.                    *)

Running(t) == \E i \in 1..Len(queue) : i <= Cores /\ queue[i] = t
Others(t)  == LET i == CHOOSE j \in 1..Len(queue) : queue[j] = t
              IN  SubSeq(queue, 1, i - 1) \o SubSeq(queue, i + 1, Len(queue))

\* A mutant: back to the test of the loop without another try.
Suspend_NoRetry(t) == /\ queue' = Append(Others(t), t)
                      /\ pc' = [pc EXCEPT ![t] = "check"]

\* suspend_current_task inside Pipe::read or Pipe::write
Suspend(t) == /\ queue' = Append(Others(t), t)
              /\ pc' = [pc EXCEPT ![t] = "move"]
-----------------------------------------------------------------------------
Init ==
  /\ Ring!Init
  /\ queue = <<First>>
  /\ pc = [t \in Tasks |-> IF t = First THEN "user" ELSE "unborn"]
  /\ call = [t \in Tasks |-> NoCall]
  /\ tableOf = [t \in Tasks |-> t]
  /\ files = [tb \in Tasks |-> IF tb = First
                               THEN [fd \in Fds |-> CASE fd = 0 -> "read"
                                                      [] fd = 1 -> "write"
                                                      [] OTHER -> "none"]
                               ELSE NoFiles]
  /\ holder = [tb \in Tasks |-> NoTask]
  /\ parent = [t \in Tasks |-> NoTask]

\* sched_yield, or a timer in user mode
Yield(t) ==
  /\ pc[t] = "user" /\ Running(t)
  /\ queue' = Append(Others(t), t)
  /\ UNCHANGED <<ringVars, pc, call, tableOf, files, holder, parent>>

\* A call that takes the lock of the task's descriptor table.
Begin(t) ==
  /\ pc[t] = "user" /\ Running(t)
  /\ \E k \in Kinds, fd \in Fds, n \in 1..MaxIO :
       /\ k \notin {"read", "write"} => n = 1
       /\ k = "fork" => fd = 0 /\ \E u \in Tasks : pc[u] = "unborn"
       /\ call' = [call EXCEPT ![t] = [kind |-> k, fd |-> fd, want |-> n, done |-> 0, cnt |-> 0]]
  /\ pc' = [pc EXCEPT ![t] = "lock"]
  /\ UNCHANGED <<ringVars, queue, tableOf, files, holder, parent>>

\* The task spins until its table's lock is free.
Locks(t, k) == /\ pc[t] = "lock" /\ Running(t)
               /\ holder[tableOf[t]] = NoTask
               /\ call[t].kind = k
Named(t) == files[tableOf[t]][call[t].fd]
ToUser(t) == /\ pc' = [pc EXCEPT ![t] = "user"]
             /\ call' = [call EXCEPT ![t] = NoCall]

\* sys_read and sys_write: find the file under the descriptor.  The wrong end
\* answers None, no file an error: both give EINVAL at once.  The guard of the
\* table is a temporary of the `if let`, which lives until its end.
FindFile(t) ==
  /\ \E k \in {"read", "write"} : Locks(t, k)
  /\ IF Named(t) = call[t].kind
     THEN /\ pc' = [pc EXCEPT ![t] = "move"]
          /\ holder' = [holder EXCEPT ![tableOf[t]] = t]
          /\ UNCHANGED call
     ELSE ToUser(t) /\ UNCHANGED holder
  /\ UNCHANGED <<ringVars, queue, tableOf, files, parent>>

\* One try: as much as the buffer has, or has room for.
Move(t) ==
  /\ pc[t] = "move" /\ Running(t)
  /\ LET left == call[t].want - call[t].done
     IN  IF call[t].kind = "read"
         THEN Ring!Read(left)
         ELSE \E bytes \in [1..left -> Byte] : Ring!Write(bytes)
  /\ call' = [call EXCEPT ![t].done = @ + Len(reply'.bytes)]
  /\ pc' = [pc EXCEPT ![t] = "check"]
  /\ UNCHANGED <<queue, tableOf, files, holder, parent>>

\* A mutant: as the comment at pipe.rs:125 describes the loop.
GivesUp_Never(t) == call[t].done = call[t].want \/ ~ BothEndsOpen

\* The test of the while loop, and of cnt inside it.
GivesUp(t) == \/ call[t].done = call[t].want
              \/ ~ BothEndsOpen
              \/ call[t].cnt = MaxTries

\* The count of the tries; a mutant forgets to count.
Tried_Uncounted(n) == n
Tried(n) == n + 1

\* Suspend and try again later.
Wait(t) ==
  /\ pc[t] = "check" /\ Running(t) /\ ~ GivesUp(t)
  /\ Suspend(t)
  /\ call' = [call EXCEPT ![t].cnt = Tried(@)]
  /\ UNCHANGED <<ringVars, tableOf, files, holder, parent>>

\* Answer what was moved; the Arc of the file and the guard are dropped.
Return(t) ==
  /\ pc[t] = "check" /\ Running(t) /\ GivesUp(t)
  /\ ToUser(t)
  /\ holder' = [holder EXCEPT ![tableOf[t]] = NoTask]
  /\ UNCHANGED <<ringVars, queue, tableOf, files, parent>>

\* sys_close
Close(t) ==
  /\ Locks(t, "close")
  /\ files' = [files EXCEPT ![tableOf[t]][call[t].fd] = "none"]
  /\ ToUser(t)
  /\ UNCHANGED <<ringVars, queue, tableOf, holder, parent>>

\* sys_dup: the lowest free descriptor gets the file, if there is one.
Dup(t) ==
  /\ Locks(t, "dup")
  /\ LET free == {fd \in Fds : files[tableOf[t]][fd] = "none"}
     IN  IF Named(t) = "none" \/ free = {}
         THEN UNCHANGED files
         ELSE files' = [files EXCEPT ![tableOf[t]][CHOOSE fd \in free :
                                        \A g \in free : fd <= g] = Named(t)]
  /\ ToUser(t)
  /\ UNCHANGED <<ringVars, queue, tableOf, holder, parent>>
-----------------------------------------------------------------------------
(* Tasks come and go.                                                      *)

Fresh == CHOOSE u \in Tasks : pc[u] = "unborn"

\* clone without CLONE_FILES: the child gets a copy of the table.
Fork(t) ==
  /\ Locks(t, "fork")
  /\ IF \E u \in Tasks : pc[u] = "unborn"
     THEN /\ pc' = [pc EXCEPT ![t] = "user", ![Fresh] = "user"]
          /\ files' = [files EXCEPT ![Fresh] = files[tableOf[t]]]
          /\ parent' = [parent EXCEPT ![Fresh] = t]
          /\ queue' = Append(queue, Fresh)
     ELSE /\ pc' = [pc EXCEPT ![t] = "user"]
          /\ UNCHANGED <<files, parent, queue>>
  /\ call' = [call EXCEPT ![t] = NoCall]
  /\ UNCHANGED <<ringVars, tableOf, holder>>

\* clone with CLONE_FILES: the same table.
CloneSharing(t) ==
  /\ TRUE \in Shares
  /\ pc[t] = "user" /\ Running(t) /\ \E u \in Tasks : pc[u] = "unborn"
  /\ pc' = [pc EXCEPT ![Fresh] = "user"]
  /\ tableOf' = [tableOf EXCEPT ![Fresh] = tableOf[t]]
  /\ parent' = [parent EXCEPT ![Fresh] = t]
  /\ queue' = Append(queue, Fresh)
  /\ UNCHANGED <<ringVars, call, files, holder>>

\* What the tables hold once these task control blocks are dropped.
FilesWithout(gone) ==
  [tb \in Tasks |-> IF \E t \in Tasks \ gone : Exists(t) /\ tableOf[t] = tb
                    THEN files[tb] ELSE NoFiles]

\* A zombie's block, and with it its table, stays in its parent's children
\* list; without a parent it is dropped at once, and a dying parent's list
\* with what is dead in it.
Exit(t) ==
  /\ pc[t] = "user" /\ Running(t)
  /\ LET dead == {u \in Tasks : parent[u] = t /\ pc[u] = "zombie"}
         gone == dead \cup (IF parent[t] = NoTask THEN {t} ELSE {})
     IN  /\ pc' = [u \in Tasks |-> CASE u \in gone -> "gone"
                                     [] u = t /\ u \notin gone -> "zombie"
                                     [] OTHER -> pc[u]]
         /\ files' = FilesWithout(gone)
  /\ parent' = [u \in Tasks |-> IF parent[u] = t THEN NoTask ELSE parent[u]]
  /\ queue' = Others(t)
  /\ UNCHANGED <<ringVars, call, tableOf, holder>>

\* wait4 takes a zombie out of the list.
Reap(t) ==
  /\ pc[t] = "user" /\ Running(t)
  /\ \E u \in Tasks : /\ parent[u] = t /\ pc[u] = "zombie"
                      /\ pc' = [pc EXCEPT ![u] = "gone"]
                      /\ files' = FilesWithout({u})
                      /\ parent' = [parent EXCEPT ![u] = NoTask]
  /\ UNCHANGED <<ringVars, queue, call, tableOf, holder>>

KernelStep(t) == FindFile(t) \/ Move(t) \/ Wait(t) \/ Return(t) \/ Close(t) \/ Dup(t) \/ Fork(t)

Next == \E t \in Tasks :
  Yield(t) \/ Begin(t) \/ KernelStep(t) \/ CloneSharing(t) \/ Exit(t) \/ Reap(t)

Spec == Init /\ [][Next]_vars

\* The kernel runs as long as it can, and a program that keeps coming back to
\* user mode yields the core now and then: nothing takes it away otherwise.
FairSpec == /\ Spec
            /\ \A t \in Tasks : WF_vars(KernelStep(t)) /\ SF_vars(Yield(t))
-----------------------------------------------------------------------------
(* Properties.                                                             *)

TypeOK ==
  /\ Ring!TypeOK /\ Ring!Consistent
  /\ queue \in Seq(Tasks)
  /\ pc \in [Tasks -> {"unborn", "user", "lock", "move", "check", "zombie", "gone"}]
  /\ call \in [Tasks -> [kind : Kinds \cup {"none"}, fd : Fds, want : 0..MaxIO,
                         done : 0..MaxIO, cnt : 0..MaxTries]]
  /\ tableOf \in [Tasks -> Tasks]
  /\ files \in [Tasks -> [Fds -> {"none", "read", "write"}]]
  /\ holder \in [Tasks -> Tasks \cup {NoTask}]
  /\ parent \in [Tasks -> Tasks \cup {NoTask}]

\* Hang-up is final: once a poll reports that the write end is gone and the
\* pipe empty, no later byte arrives, whoever has copied, shared or is still
\* using a descriptor of the write end (pipe.rs:195).
HangUpIsFinal == [][ReadHangsUp => ReadHangsUp']_vars

\* On one core a call that comes back short left nothing undone that it could
\* have done: a read returns short only from an empty pipe, a write only from
\* a full one.  In particular what a writer wrote before it closed its end is
\* read first (the loops of pipe.rs:128 and pipe.rs:171).
Returns(t) == pc[t] = "check" /\ pc'[t] = "user"
ShortMeansStuck ==
  [][\A t \in Tasks : Returns(t) /\ call[t].done < call[t].want
                        => len = IF call[t].kind = "read" THEN 0 ELSE Limit]_vars

\* Two tasks that exist have one table.
TableShared == \E t, u \in Tasks : t # u /\ Exists(t) /\ Exists(u) /\ tableOf[t] = tableOf[u]

\* Every call on a descriptor comes back, however the tasks at the two ends
\* behave, unless two tasks share a table: the one that suspends in a call
\* holds its lock, and on one core the other spins for it for ever (fs.rs:78).
CallsReturn ==
  \A t \in Tasks : pc[t] \in {"lock"} \cup Inside ~> pc[t] = "user" \/ TableShared
=============================================================================
