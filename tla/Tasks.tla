------------------------------- MODULE Tasks -------------------------------
(***************************************************************************)
(* The life of a task in the Maturin kernel: the global run queue, the     *)
(* cores that take tasks from it, clone, exit, wait4, the hand-over of     *)
(* orphans and the release of a dead task's tid.                           *)
(*                                                                         *)
(* One step is what a core does between two points where another core can  *)
(* see the difference: user code and the short system calls are one step;  *)
(* run_tasks and handle_zombie_task are cut at every lock they take.       *)
(* With one core (the shipped configuration) only suspension interleaves;  *)
(* the code is written for several, and the runs use one and two.          *)
(***************************************************************************)
EXTENDS Integers, Sequences, FiniteSets

CONSTANTS
  Cpus,       \* the cores that execute run_tasks
  TCBs,       \* task control blocks, one identity per block ever allocated
  Root,       \* the first block: ORIGIN_USER_PROC, or the first test case
  NoTask,     \* None, where an Option<Arc<TaskControlBlock>> is expected
  TidLimit,   \* TID_LIMIT; tids are 2 .. TidLimit - 1
  TestEnv,    \* IS_TEST_ENV
  Testcases,  \* how many programs the test list holds
  CloneKinds, \* the flag combinations user programs pass to clone
  OriginStays \* whether the origin process never exits (a user's choice)

Tids == 2 .. TidLimit - 1

ASSUME TasksAssumption ==
  /\ IsFiniteSet(Cpus)
  /\ Root \in TCBs
  /\ NoTask \notin TCBs
  /\ TidLimit \in Nat /\ TidLimit > 2
  /\ TestEnv \in BOOLEAN /\ OriginStays \in BOOLEAN
  /\ Testcases \in Nat \ {0}
  /\ CloneKinds \subseteq [thread : BOOLEAN, parent : BOOLEAN,
                           vm : BOOLEAN, chld : BOOLEAN]

NoParent == -1        \* NO_PARENT, usize::MAX
AnyChild == -1        \* the pid argument of wait4 that names every child
NotWaiting == 0       \* the task is not inside sys_wait4

VARIABLES
  status,    \* TaskControlBlockInner::task_status; "unborn"/"freed": no block
  tid,       \* TaskControlBlock::tid
  pid,       \* TaskControlBlock::pid
  chld,      \* TaskControlBlock::send_sigchld_when_exit
  vm,        \* TaskControlBlock::vm, named after the block that made it
  ppid,      \* TaskControlBlockInner::ppid
  kids,      \* TaskControlBlockInner::children, without their order
  waiting,   \* the pid argument of the sys_wait4 the task is inside
  queue,     \* Scheduler::ready_queue
  pc,        \* where each core is in run_tasks
  cur,       \* the task that core holds (its local, or CpuLocal::current)
  todo,      \* children handle_zombie_task has not handed over yet
  freeTids,  \* TID_ALLOCATOR
  table,     \* TID2SIGNALS: whose receivers a signal sent to a tid reaches
  pending,   \* tasks with SIGCHLD in SignalReceivers::sig_received
  cleared,   \* address spaces whose user part clear_user has released
  board,     \* WAITING_BOARD: futex waiters by tid
  now,       \* TestStatus::now, the test case without a verdict (0: None)
  loaded,    \* how far TESTCASES_ITER has advanced
  verdicts,  \* how often update_result has judged each test case
  halt       \* why the kernel stopped, or "no"

idVars    == <<tid, pid, chld, vm>>
testVars  == <<now, loaded, verdicts>>
cpuVars   == <<pc, cur, todo>>
vars == <<status, idVars, ppid, kids, waiting, queue, cpuVars, freeTids,
          table, pending, cleared, board, testVars, halt>>

-----------------------------------------------------------------------------
Statuses == {"unborn", "Ready", "Running", "Dying", "Zombie", "freed"}
Alive    == {"Ready", "Running", "Dying"}
Exists(t) == status[t] \notin {"unborn", "freed"}

(* The core is inside handle_zombie_task and owns its task's inner lock.   *)
ZombiePc  == {"reparent", "sigchld", "logoff"}
Locked(t) == \E c \in Cpus : pc[c] \in ZombiePc /\ cur[c] = t

(* The static ORIGIN_USER_PROC keeps a reference to the first block.       *)
IsOrigin(t) == ~TestEnv /\ t = Root

(* BitAlloc::alloc answers the smallest free number.                       *)
Allocates(i) == i \in freeTids /\ \A j \in freeTids : i <= j

(* Scheduler::push and what Scheduler::pop leaves; the _names below, here  *)
(* and further on, are faulty variants that show the properties notice.    *)
Push_ToFront(t) == <<t>> \o queue
Push(t)         == Append(queue, t)
Popped_Peeked == queue
Popped        == Tail(queue)

-----------------------------------------------------------------------------
Init ==
  /\ status = [t \in TCBs |-> IF t = Root THEN "Ready" ELSE "unborn"]
  /\ tid = [t \in TCBs |-> 2]
  /\ pid = [t \in TCBs |-> 2]
  /\ chld = [t \in TCBs |-> TRUE]
  /\ vm = [t \in TCBs |-> t]
  /\ ppid = [t \in TCBs |-> IF TestEnv THEN NoParent ELSE 0]
  /\ kids = [t \in TCBs |-> {}]
  /\ waiting = [t \in TCBs |-> NotWaiting]
  /\ queue = <<Root>>
  /\ pc = [c \in Cpus |-> "idle"]
  /\ cur = [c \in Cpus |-> NoTask]
  /\ todo = [c \in Cpus |-> {}]
  /\ freeTids = Tids \ {2}
  /\ table = [i \in Tids |-> IF i = 2 THEN Root ELSE NoTask]
  /\ pending = {}
  /\ cleared = {}
  /\ board = [i \in Tids |-> "none"]
  /\ now = IF TestEnv THEN 1 ELSE 0
  /\ loaded = IF TestEnv THEN 1 ELSE 0
  /\ verdicts = [n \in 1 .. Testcases |-> 0]
  /\ halt = "no"

(* A block never used before.  Which one makes no difference: identities   *)
(* only tell blocks apart.  TCBs bounds how many a run allocates.          *)
CanAllocate == \E u \in TCBs : status[u] = "unborn"
Fresh       == CHOOSE u \in TCBs : status[u] = "unborn"

(* The fields every new block starts with; global_register_signals.        *)
NewBlock(u, i, thePid, theChld, theVm, thePpid) ==
  /\ status' = [status EXCEPT ![u] = "Ready"]
  /\ tid' = [tid EXCEPT ![u] = i]
  /\ pid' = [pid EXCEPT ![u] = thePid]
  /\ chld' = [chld EXCEPT ![u] = theChld]
  /\ vm' = [vm EXCEPT ![u] = theVm]
  /\ ppid' = [ppid EXCEPT ![u] = thePpid]
  /\ freeTids' = freeTids \ {i}
  /\ table' = [table EXCEPT ![i] = u]

-----------------------------------------------------------------------------
(* run_tasks, up to the switch into the task.                              *)

(* fetch_task_from_scheduler finds a task.                                 *)
Fetch(c) ==
  /\ halt = "no" /\ pc[c] = "idle" /\ queue # <<>>
  /\ cur' = [cur EXCEPT ![c] = Head(queue)]
  /\ queue' = Popped
  /\ pc' = [pc EXCEPT ![c] = "fetched"]
  /\ UNCHANGED <<status, idVars, ppid, kids, waiting, todo, freeTids, table,
                 pending, cleared, board, testVars, halt>>

(* The scheduler has no task; the test list still has a program.           *)
NoTaskReady_Sleeping == \A i \in 1 .. Len(queue) : board[tid[queue[i]]] = "asleep"
NoTaskReady          == queue = <<>>
HasTestcase_OffByOne == loaded <= Testcases
HasTestcase          == loaded < Testcases

(* fetch_task_from_scheduler finds none and load_next_testcase has one.    *)
LoadNextTestcase(c) ==
  /\ halt = "no" /\ pc[c] = "idle" /\ NoTaskReady
  /\ TestEnv /\ HasTestcase
  /\ CanAllocate
  /\ \E i \in Tids : Allocates(i) /\ NewBlock(Fresh, i, i, TRUE, Fresh, NoParent)
  /\ cur' = [cur EXCEPT ![c] = Fresh]
  /\ pc' = [pc EXCEPT ![c] = "fetched"]
  /\ loaded' = loaded + 1
  /\ now' = loaded + 1
  /\ UNCHANGED <<kids, waiting, queue, todo, pending, cleared, board,
                 verdicts, halt>>

(* The list is exhausted: final_info panics and the machine stops.         *)
FinalInfo(c) ==
  /\ halt = "no" /\ pc[c] = "idle" /\ NoTaskReady
  /\ TestEnv /\ ~HasTestcase
  /\ halt' = "all test ended"
  /\ UNCHANGED <<status, idVars, ppid, kids, waiting, queue, cpuVars,
                 freeTids, table, pending, cleared, board, testVars>>

(* check_thread_blocked: a sleeping futex waiter sends the task back.      *)
PushBlocked(c) ==
  /\ halt = "no" /\ pc[c] = "fetched" /\ board[tid[cur[c]]] = "asleep"
  /\ queue' = Push(cur[c])
  /\ cur' = [cur EXCEPT ![c] = NoTask]
  /\ pc' = [pc EXCEPT ![c] = "idle"]
  /\ UNCHANGED <<status, idVars, ppid, kids, waiting, todo, freeTids, table,
                 pending, cleared, board, testVars, halt>>

(* No waiter, or one that is due and is consumed: switch into the task.    *)
Dispatch(c) ==
  /\ halt = "no" /\ pc[c] = "fetched" /\ board[tid[cur[c]]] # "asleep"
  /\ board' = [board EXCEPT ![tid[cur[c]]] = "none"]
  /\ status' = [status EXCEPT ![cur[c]] = "Running"]
  /\ pc' = [pc EXCEPT ![c] = "running"]
  /\ UNCHANGED <<idVars, ppid, kids, waiting, queue, cur, todo, freeTids,
                 table, pending, cleared, testVars, halt>>

-----------------------------------------------------------------------------
(* What the running task does.                                             *)

(* User code of cur[c] is running, outside any system call.                *)
InUser(c) == halt = "no" /\ pc[c] = "running" /\ waiting[cur[c]] = NotWaiting

(* suspend_current_task, up to the switch to the idle context.             *)
Suspend(c) ==
  /\ status' = [status EXCEPT ![cur[c]] = "Ready"]
  /\ pc' = [pc EXCEPT ![c] = "back"]

Yield(c) ==
  /\ InUser(c)
  /\ Suspend(c)
  /\ UNCHANGED <<idVars, ppid, kids, waiting, queue, cur, todo, freeTids,
                 table, pending, cleared, board, testVars, halt>>

(* FUTEX_WAIT: with a timeout the waiter sleeps; without one the code sets *)
(* the wake-up time to 0, which has already passed.                        *)
FutexWait(c) ==
  /\ InUser(c)
  /\ \E w \in {"asleep", "due"} : board' = [board EXCEPT ![tid[cur[c]]] = w]
  /\ Suspend(c)
  /\ UNCHANGED <<idVars, ppid, kids, waiting, queue, cur, todo, freeTids,
                 table, pending, cleared, testVars, halt>>

(* get_time_us() reaches the waiter's wake-up time.                        *)
TimeOut(i) ==
  /\ halt = "no" /\ board[i] = "asleep"
  /\ board' = [board EXCEPT ![i] = "due"]
  /\ UNCHANGED <<status, idVars, ppid, kids, waiting, queue, cpuVars,
                 freeTids, table, pending, cleared, testVars, halt>>

(* handle_signals takes SIGCHLD, whose default action is to ignore it.     *)
TakeSigchld(c) ==
  /\ InUser(c) /\ cur[c] \in pending
  /\ pending' = pending \ {cur[c]}
  /\ UNCHANGED <<status, idVars, ppid, kids, waiting, queue, cpuVars,
                 freeTids, table, cleared, board, testVars, halt>>

(* The parent a new task is told: the caller, or the caller's own parent.  *)
PpidFor_Leader(t, k) == IF k.parent THEN ppid[t] ELSE pid[t]
PpidFor(t, k)        == IF k.parent THEN ppid[t] ELSE tid[t]

(* sys_clone: from_clone under the caller's inner lock, then the push.     *)
Clone(c, k) ==
  /\ InUser(c) /\ CanAllocate
  /\ \E i \in Tids :
       /\ Allocates(i)
       /\ NewBlock(Fresh, i, IF k.thread THEN pid[cur[c]] ELSE i, k.chld,
                   IF k.vm THEN vm[cur[c]] ELSE Fresh, PpidFor(cur[c], k))
  /\ kids' = IF k.parent THEN kids
             ELSE [kids EXCEPT ![cur[c]] = @ \cup {Fresh}]
  /\ queue' = Push(Fresh)
  /\ UNCHANGED <<waiting, cpuVars, pending, cleared, board, testVars, halt>>

(* Tid::new().unwrap() with no tid left, in clone or in the test loader.   *)
TidExhausted(c) ==
  /\ halt = "no" /\ freeTids = {}
  /\ \/ InUser(c) /\ CloneKinds # {}
     \/ pc[c] = "idle" /\ NoTaskReady /\ TestEnv /\ HasTestcase
  /\ halt' = "no tid left"
  /\ UNCHANGED <<status, idVars, ppid, kids, waiting, queue, cpuVars,
                 freeTids, table, pending, cleared, board, testVars>>

(* exit_current_task: by sys_exit, by a failed exec, by a fatal signal.    *)
Exit(c) ==
  /\ InUser(c)
  /\ ~(OriginStays /\ IsOrigin(cur[c]))
  /\ status' = [status EXCEPT ![cur[c]] = "Dying"]
  /\ pc' = [pc EXCEPT ![c] = "back"]
  /\ UNCHANGED <<idVars, ppid, kids, waiting, queue, cur, todo, freeTids,
                 table, pending, cleared, board, testVars, halt>>

(* exec of a file that exists keeps the block and clears its receivers.    *)
Exec(c) ==
  /\ InUser(c)
  /\ pending' = pending \ {cur[c]}
  /\ UNCHANGED <<status, idVars, ppid, kids, waiting, queue, cpuVars,
                 freeTids, table, cleared, board, testVars, halt>>

-----------------------------------------------------------------------------
(* Dropping references.  A block is freed, and its Tid returned, when no   *)
(* core, run queue or children list holds it.                              *)
Dead(S, curNext, kidsNext) ==
  {u \in S : /\ ~IsOrigin(u)
             /\ \A i \in 1 .. Len(queue) : queue[i] # u
             /\ \A c \in Cpus : curNext[c] # u
             /\ \A p \in TCBs : u \notin kidsNext[p]}

FreeTidsOf_ByPid(S) == freeTids \cup {pid[u] : u \in S}
FreeTidsOf(S)       == freeTids \cup {tid[u] : u \in S}

(* sys_wait4: waitpid scans children, WNOHANG or a blocking loop around it *)
Named(t, p)  == {u \in kids[t] : p = AnyChild \/ pid[u] = p}
Exited_NoThreads(t, p) ==
  {u \in Named(t, p) : status[u] = "Zombie" /\ ~Locked(u) /\ pid[u] = tid[u]}
Exited(t, p) == {u \in Named(t, p) : status[u] = "Zombie" /\ ~Locked(u)}

(* A retry inside sys_wait4 keeps the argument; a new call brings one.     *)
WaitArgs(t) == IF waiting[t] = NotWaiting THEN {AnyChild} \cup Tids
                                          ELSE {waiting[t]}

(* waitpid removes an exited child; sys_wait4 returns its pid.             *)
Reap(c) ==
  /\ halt = "no" /\ pc[c] = "running"
  /\ \E p \in WaitArgs(cur[c]) : \E u \in Exited(cur[c], p) :
       LET kidsNext == [kids EXCEPT ![cur[c]] = @ \ {u}]
           dead     == Dead({u}, cur, kidsNext)
       IN /\ kids' = kidsNext
          /\ status' = [x \in TCBs |-> IF x \in dead THEN "freed" ELSE status[x]]
          /\ freeTids' = FreeTidsOf(dead)
          /\ pending' = pending \ dead
  /\ waiting' = [waiting EXCEPT ![cur[c]] = NotWaiting]
  /\ UNCHANGED <<idVars, ppid, queue, cpuVars, table, cleared, board,
                 testVars, halt>>

(* waitpid answers -2: the child it looked at has not exited.  The scan of *)
(* a given pid stops at the first child that has it.                       *)
WaitSuspend(c) ==
  /\ halt = "no" /\ pc[c] = "running"
  /\ \E p \in WaitArgs(cur[c]) :
       /\ Named(cur[c], p) \ Exited(cur[c], p) # {}
       /\ p = AnyChild => Exited(cur[c], p) = {}
       /\ waiting' = [waiting EXCEPT ![cur[c]] = p]
  /\ Suspend(c)
  /\ UNCHANGED <<idVars, ppid, kids, queue, cur, todo, freeTids, table,
                 pending, cleared, board, testVars, halt>>

-----------------------------------------------------------------------------
(* run_tasks, after the task switched back to the idle context.            *)

PushBack(c) ==
  /\ halt = "no" /\ pc[c] = "back" /\ status[cur[c]] = "Ready"
  /\ queue' = Push(cur[c])
  /\ cur' = [cur EXCEPT ![c] = NoTask]
  /\ pc' = [pc EXCEPT ![c] = "idle"]
  /\ UNCHANGED <<status, idVars, ppid, kids, waiting, todo, freeTids, table,
                 pending, cleared, board, testVars, halt>>

(* The children the loop of handle_zombie_task goes through.               *)
Orphans_NoThreads(t) == {u \in kids[t] : pid[u] = tid[u]}
Orphans(t)           == kids[t]

(* A dying task: handle_zombie_task locks its inner part.  The panic kept  *)
(* for the origin process needs pid 0, which no task ever has.             *)
StartZombie(c) ==
  /\ halt = "no" /\ pc[c] = "back" /\ status[cur[c]] = "Dying"
  /\ pc' = [pc EXCEPT ![c] = "reparent"]
  /\ todo' = [todo EXCEPT ![c] = Orphans(cur[c])]
  /\ UNCHANGED <<status, idVars, ppid, kids, waiting, queue, cur, freeTids,
                 table, pending, cleared, board, testVars, halt>>

(* One round of the loop whose try_locks both succeed (or that needs only  *)
(* the child's); a round that fails one changes nothing and is repeated.   *)
Reparent(c) ==
  /\ halt = "no" /\ pc[c] = "reparent"
  /\ \E u \in todo[c] :
       /\ ~Locked(u)
       /\ \/ /\ ppid[cur[c]] = NoParent \/ TestEnv
             /\ ppid' = [ppid EXCEPT ![u] = NoParent]
             /\ UNCHANGED kids
          \/ /\ ~(ppid[cur[c]] = NoParent \/ TestEnv)
             /\ ~Locked(Root)
             /\ ppid' = [ppid EXCEPT ![u] = 0]
             /\ kids' = [kids EXCEPT ![Root] = @ \cup {u}]
       /\ todo' = [todo EXCEPT ![c] = @ \ {u}]
  /\ UNCHANGED <<status, idVars, waiting, queue, pc, cur, freeTids, table,
                 pending, cleared, board, testVars, halt>>

(* TestStatus::update_result judges once, then now is taken.               *)
Judged(t) == TestEnv /\ pid[t] = tid[t] /\ now # 0
NowAfter_NotTaken(t) == now
NowAfter(t)          == IF Judged(t) THEN 0 ELSE now

(* children.clear()                                                        *)
KidsCleared_Forgotten(t) == kids
KidsCleared(t)           == [kids EXCEPT ![t] = {}]

(* children.clear(), the Zombie status and the verdict on the test case.   *)
Bury(c) ==
  /\ halt = "no" /\ pc[c] = "reparent" /\ todo[c] = {}
  /\ LET t        == cur[c]
         dead     == Dead(kids[t], cur, KidsCleared(t))
     IN /\ kids' = KidsCleared(t)
        /\ status' = [x \in TCBs |-> IF x = t THEN "Zombie"
                                     ELSE IF x \in dead THEN "freed"
                                     ELSE status[x]]
        /\ freeTids' = FreeTidsOf(dead)
        /\ pending' = pending \ dead
        /\ now' = NowAfter(t)
        /\ verdicts' = IF Judged(t) THEN [verdicts EXCEPT ![now] = @ + 1]
                                    ELSE verdicts
        /\ pc' = [pc EXCEPT ![c] = IF chld[t] \/ pid[t] = tid[t]
                                   THEN "sigchld" ELSE "logoff"]
  /\ UNCHANGED <<idVars, ppid, waiting, queue, cur, todo, table, cleared,
                 board, loaded, halt>>

(* send_signal(ppid, SIGCHLD): a tid the table does not know is ignored.   *)
Receiver(i) == IF i \in Tids THEN table[i] ELSE NoTask

SendSigchld_LocksParent(c) ==
  /\ halt = "no" /\ pc[c] = "sigchld"
  /\ \A p \in TCBs : cur[c] \in kids[p] => ~Locked(p)
  /\ pending' = pending \cup ({Receiver(ppid[cur[c]])} \ {NoTask})
  /\ pc' = [pc EXCEPT ![c] = "logoff"]
  /\ UNCHANGED <<status, idVars, ppid, kids, waiting, queue, cur, todo,
                 freeTids, table, cleared, board, testVars, halt>>

SendSigchld(c) ==
  /\ halt = "no" /\ pc[c] = "sigchld"
  /\ pending' = pending \cup ({Receiver(ppid[cur[c]])} \ {NoTask})
  /\ pc' = [pc EXCEPT ![c] = "logoff"]
  /\ UNCHANGED <<status, idVars, ppid, kids, waiting, queue, cur, todo,
                 freeTids, table, cleared, board, testVars, halt>>

(* Arc::strong_count(&task.vm)                                             *)
Sharers_SameProcess(v) == {u \in TCBs : Exists(u) /\ vm[u] = v /\ pid[u] = pid[v]}
Sharers(v) == {u \in TCBs : Exists(u) /\ vm[u] = v}

(* The key global_logoff_signals removes.                                  *)
LogoffKey_Pid(t) == pid[t]
LogoffKey(t)     == tid[t]

(* global_logoff_signals, clear_user if nobody shares the address space,   *)
(* and the release of the inner lock.                                      *)
Logoff(c) ==
  /\ halt = "no" /\ pc[c] = "logoff"
  /\ table' = [table EXCEPT ![LogoffKey(cur[c])] = NoTask]
  /\ cleared' = IF Sharers(vm[cur[c]]) = {cur[c]}
                THEN cleared \cup {vm[cur[c]]} ELSE cleared
  /\ pc' = [pc EXCEPT ![c] = "release"]
  /\ UNCHANGED <<status, idVars, ppid, kids, waiting, queue, cur, todo,
                 freeTids, pending, board, testVars, halt>>

(* The core's own reference goes last.                                     *)
Release(c) ==
  /\ halt = "no" /\ pc[c] = "release"
  /\ LET curNext == [cur EXCEPT ![c] = NoTask]
         dead    == Dead({cur[c]}, curNext, kids)
     IN /\ cur' = curNext
        /\ status' = [x \in TCBs |-> IF x \in dead THEN "freed" ELSE status[x]]
        /\ freeTids' = FreeTidsOf(dead)
        /\ pending' = pending \ dead
  /\ pc' = [pc EXCEPT ![c] = "idle"]
  /\ UNCHANGED <<idVars, ppid, kids, waiting, queue, todo, table, cleared,
                 board, testVars, halt>>

-----------------------------------------------------------------------------
Kernel(c) ==
  \/ Fetch(c) \/ LoadNextTestcase(c) \/ FinalInfo(c) \/ PushBlocked(c)
  \/ Dispatch(c) \/ PushBack(c) \/ StartZombie(c) \/ Reparent(c)
  \/ Bury(c) \/ SendSigchld(c) \/ Logoff(c) \/ Release(c)

Wait4(c) == Reap(c) \/ WaitSuspend(c)

RetryWait(c) == pc[c] = "running" /\ waiting[cur[c]] # NotWaiting /\ Wait4(c)

Program(c) ==
  \/ Yield(c) \/ FutexWait(c) \/ TakeSigchld(c) \/ Exec(c) \/ Exit(c)
  \/ \E k \in CloneKinds : Clone(c, k)
  \/ TidExhausted(c)

Next ==
  \/ \E c \in Cpus : Kernel(c) \/ Wait4(c) \/ Program(c)
  \/ \E i \in Tids : TimeOut(i)

Spec == Init /\ [][Next]_vars

(* A core never stops executing kernel code, and time passes.  A program   *)
(* is under no obligation: the kernel has no preemption, so what it owes   *)
(* others (to suspend or exit at last) is stated where it is needed.       *)
Fairness ==
  /\ \A c \in Cpus : WF_vars(Kernel(c))
  /\ \A c \in Cpus : WF_vars(RetryWait(c))
  /\ \A i \in Tids : WF_vars(TimeOut(i))
FairSpec == Spec /\ Fairness

(* Programs that give up the core at last, as a kernel without preemption  *)
(* needs them to for any promise about the other tasks.                    *)
Cooperation == \A c \in Cpus : WF_vars(Yield(c) \/ FutexWait(c) \/ Exit(c))
CoopSpec == FairSpec /\ Cooperation

-----------------------------------------------------------------------------
(* Safety.                                                                 *)

TypeOK ==
  /\ status \in [TCBs -> Statuses]
  /\ tid \in [TCBs -> Tids] /\ pid \in [TCBs -> Tids]
  /\ chld \in [TCBs -> BOOLEAN] /\ vm \in [TCBs -> TCBs]
  /\ ppid \in [TCBs -> Tids \cup {0, NoParent}]
  /\ kids \in [TCBs -> SUBSET TCBs]
  /\ waiting \in [TCBs -> Tids \cup {NotWaiting, AnyChild}]
  /\ queue \in Seq(TCBs)
  /\ pc \in [Cpus -> {"idle", "fetched", "running", "back", "reparent",
                       "sigchld", "logoff", "release"}]
  /\ cur \in [Cpus -> TCBs \cup {NoTask}]
  /\ todo \in [Cpus -> SUBSET TCBs]
  /\ freeTids \in SUBSET Tids
  /\ table \in [Tids -> TCBs \cup {NoTask}]
  /\ pending \in SUBSET TCBs /\ cleared \in SUBSET TCBs
  /\ board \in [Tids -> {"none", "asleep", "due"}]
  /\ now \in 0 .. Testcases /\ loaded \in 0 .. Testcases
  /\ verdicts \in [1 .. Testcases -> Nat]
  /\ halt \in {"no", "all test ended", "no tid left"}

Queued(t) == \E i \in 1 .. Len(queue) : queue[i] = t
Held(t)   == \E c \in Cpus : cur[c] = t

(* The claim the block's comment rests its missing lock on: a living task  *)
(* is in the scheduler or with one core, never both, never twice; so the   *)
(* queue, the cores and handle_zombie_task never work on the same block.   *)
OneHolder ==
  /\ \A i, j \in 1 .. Len(queue) : queue[i] = queue[j] => i = j
  /\ \A c, d \in Cpus : cur[c] = cur[d] /\ cur[c] # NoTask => c = d
  /\ \A t \in TCBs : ~(Queued(t) /\ Held(t))
  /\ \A t \in TCBs : status[t] \in Alive => Queued(t) \/ Held(t)
  /\ \A t \in TCBs : Queued(t) => status[t] = "Ready"

(* A tid names one block until the last reference to that block is gone,   *)
(* though the number is returned by whichever of the reaping parent, the   *)
(* dying parent and the core drops its reference last.                     *)
TidUnique ==
  /\ \A t \in TCBs : Exists(t) => tid[t] \notin freeTids
  /\ \A t, u \in TCBs : Exists(t) /\ Exists(u) /\ tid[t] = tid[u] => t = u

(* TID2SIGNALS reaches every task that still runs or waits to run, and     *)
(* never a block whose tid has passed to another one: logoff comes before  *)
(* the parent can see the zombie and let its tid be reused.                *)
TableExact ==
  /\ \A i \in Tids : table[i] # NoTask => Exists(table[i]) /\ tid[table[i]] = i
  /\ \A t \in TCBs : status[t] \in {"Ready", "Running"} => table[tid[t]] = t

(* Nothing is leaked: a zombie no core is busy with is in the children of  *)
(* a task that is still alive and so can reap it or drop it.               *)
ZombieReapable ==
  \A t \in TCBs : status[t] = "Zombie" /\ ~Held(t) /\ ~IsOrigin(t) =>
    \E p \in TCBs : t \in kids[p] /\ status[p] \in Alive

(* getppid and the exit signal rely on it: the ppid of a task that runs is *)
(* the tid of one that has not been buried, because a dying parent hands   *)
(* its children over first (ppid "may be changed when the parent ends").   *)
PpidAlive ==
  \A t \in TCBs : status[t] \in {"Ready", "Running"} /\ ppid[t] \in Tids =>
    \E p \in TCBs : status[p] \in Alive /\ tid[p] = ppid[t]

(* The parent has been through its loop for this child.                    *)
HandedOver(p, u) ==
  \E c \in Cpus : pc[c] = "reparent" /\ cur[c] = p /\ u \notin todo[c]

(* "On exit, send the signal to the parent process": the task SIGCHLD is   *)
(* about to reach is the one whose children hold the zombie, and no other. *)
(* An orphan handed to the origin process is the exception: its ppid of 0  *)
(* is nobody's tid, and its SIGCHLD reaches no one.                        *)
SigchldToParent ==
  \A c \in Cpus, q \in TCBs : pc[c] = "sigchld" /\ ppid[cur[c]] # 0 =>
    (Receiver(ppid[cur[c]]) = q <=>
       cur[c] \in kids[q] /\ ~HandedOver(q, cur[c]))

(* The early clear_user never takes an address space away from a task that *)
(* shares it and can still run.                                            *)
VmKept == \A t \in TCBs : status[t] \in {"Ready", "Running"} => vm[t] \notin cleared

(* Every test case has got exactly one verdict when the next one is loaded *)
(* or the list ends, whatever it forked and however those tasks exited.    *)
OneVerdictEach ==
  \A n \in 1 .. Testcases :
    /\ verdicts[n] <= 1
    /\ n < loaded \/ halt = "all test ended" => verdicts[n] = 1

(* A test case starts, and the machine stops, only when nothing of the     *)
(* previous test case is left alive ("there will be no new tasks").        *)
StartsAlone ==
  [][loaded' # loaded \/ halt' = "all test ended" =>
       \A t \in TCBs : status[t] \notin Alive]_vars

-----------------------------------------------------------------------------
(* Liveness.                                                               *)
Stopped == halt # "no"

(* handle_zombie_task: whoever is inside it finishes, whatever parents,    *)
(* children and grandchildren are inside it at the same time.              *)
HandlingEnds ==
  \A c \in Cpus : pc[c] \in ZombiePc ~> pc[c] = "idle" \/ Stopped

(* A parent blocked in wait4(-1) with an exited child returns.             *)
WaiterServed ==
  \A t \in TCBs :
    /\ waiting[t] = AnyChild
    /\ \E u \in kids[t] : status[u] = "Zombie" /\ ~Locked(u)
    ~> waiting[t] = NotWaiting \/ Stopped

(* No starvation: a task in the queue gets a core.                         *)
ReadyRuns == \A t \in TCBs : status[t] = "Ready" ~> status[t] # "Ready" \/ Stopped
=============================================================================
