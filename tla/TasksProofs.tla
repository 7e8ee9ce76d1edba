---------------------------- MODULE TasksProofs ----------------------------
(***************************************************************************)
(* Theorems about Tasks, for any number of cores, blocks and tids, in the  *)
(* test environment and with an origin process, for any clone flags.       *)
(*                                                                         *)
(* First what a task and its tid are, then what families promise, then     *)
(* what the waiting and the dying need in order to get on.                 *)
(*                                                                         *)
(* OneHolder, TidUnique and TableExact are not inductive: they need to     *)
(* know which status goes with which place in run_tasks, that a block in a *)
(* children list has not been freed, and that a zombie still in the signal *)
(* table has its core between Bury and Logoff.  IInv adds exactly that.    *)
(***************************************************************************)
EXTENDS Tasks, FiniteSetTheorems, WellFoundedInduction, TLAPS

(* What a core at each point of run_tasks holds.                           *)
CpuShape ==
  \A c \in Cpus :
    /\ pc[c] = "idle" <=> cur[c] = NoTask
    /\ pc[c] = "fetched" => status[cur[c]] = "Ready"
    /\ pc[c] = "running" => status[cur[c]] = "Running"
    /\ pc[c] = "back" => status[cur[c]] \in {"Ready", "Dying"}
    /\ pc[c] = "reparent" => status[cur[c]] = "Dying"
    /\ pc[c] \in {"sigchld", "logoff", "release"} => status[cur[c]] = "Zombie"

(* A children list holds references: nothing in it has been freed.  What a *)
(* dying parent still has to hand over is still in its list.               *)
KidsExist ==
  /\ \A p \in TCBs : \A u \in kids[p] : Exists(u)
  /\ \A c \in Cpus : todo[c] # {} => pc[c] = "reparent" /\ todo[c] \subseteq kids[cur[c]]

(* A block in the signal table lives, or its core is about to log it off.  *)
TableLive ==
  \A i \in Tids : table[i] # NoTask =>
    \/ status[table[i]] \in Alive
    \/ \E c \in Cpus : cur[c] = table[i] /\ pc[c] \in {"sigchld", "logoff"}

IInv == /\ TypeOK /\ CpuShape /\ OneHolder /\ KidsExist
        /\ TidUnique /\ TableExact /\ TableLive
-----------------------------------------------------------------------------
(* What the assumptions on the constants come to.                          *)
LEMMA Constants == /\ Root \in TCBs /\ NoTask \notin TCBs
                   /\ TidLimit \in Nat /\ TidLimit > 2 /\ Testcases \in Nat \ {0}
BY TasksAssumption

(* Tids are numbers from 2 on, apart from 0 and NO_PARENT.                 *)
LEMMA TidsNat == /\ Tids \subseteq Nat /\ 2 \in Tids
                 /\ 0 \notin Tids /\ NoParent \notin Tids
BY Constants DEF Tids, NoParent

(* Arc::new answers a block that was never used.                           *)
LEMMA FreshUnborn == ASSUME CanAllocate PROVE Fresh \in TCBs /\ status[Fresh] = "unborn"
BY DEF CanAllocate, Fresh

(* A step that leaves the queue and the cores' tasks alone keeps OneHolder *)
(* if no task comes to life and none in the queue changes its status.      *)
LEMMA HoldersFrame ==
  ASSUME OneHolder, queue' = queue, cur' = cur,
         \A t \in TCBs : status'[t] \in Alive => status[t] \in Alive,
         \A t \in TCBs : Queued(t) => status'[t] = "Ready"
  PROVE  OneHolder'
<1>1. \A t : Queued(t)' <=> Queued(t)
  BY DEF Queued
<1>2. \A t : Held(t)' <=> Held(t)
  BY DEF Held
<1>. QED
  BY <1>1, <1>2 DEF OneHolder, Alive

(* A pushed task is queued, and once only if it was not queued before.     *)
LEMMA PushFacts ==
  ASSUME queue \in Seq(TCBs), NEW t \in TCBs, queue' = Push(t)
  PROVE  /\ queue' \in Seq(TCBs)
         /\ \A u : Queued(u)' <=> Queued(u) \/ u = t
         /\ /\ ~Queued(t)
            /\ \A i, j \in 1 .. Len(queue) : queue[i] = queue[j] => i = j
            => \A i, j \in 1 .. Len(queue') : queue'[i] = queue'[j] => i = j
<1>1. /\ queue' \in Seq(TCBs) /\ Len(queue) \in Nat /\ Len(queue') = Len(queue) + 1
      /\ queue'[Len(queue) + 1] = t
      /\ \A i \in 1 .. Len(queue) : queue'[i] = queue[i]
  BY DEF Push
<1>2. \A u : Queued(u)' <=> Queued(u) \/ u = t
  BY <1>1 DEF Queued
<1>. QED
  BY <1>1, <1>2 DEF Queued

(* A popped task is not queued any more, and all others are.               *)
LEMMA PopFacts ==
  ASSUME queue \in Seq(TCBs), queue # <<>>, queue' = Popped,
         \A i, j \in 1 .. Len(queue) : queue[i] = queue[j] => i = j
  PROVE  /\ queue' \in Seq(TCBs) /\ Head(queue) \in TCBs
         /\ Queued(Head(queue))
         /\ \A u : Queued(u)' <=> Queued(u) /\ u # Head(queue)
         /\ \A i, j \in 1 .. Len(queue') : queue'[i] = queue'[j] => i = j
<1>1. /\ queue' \in Seq(TCBs) /\ Len(queue) \in Nat \ {0} /\ Len(queue') = Len(queue) - 1
      /\ Head(queue) = queue[1] /\ Head(queue) \in TCBs
      /\ \A i \in 1 .. Len(queue') : queue'[i] = queue[i + 1]
  BY DEF Popped
<1>2. \A u : Queued(u)' => Queued(u) /\ u # Head(queue)
  BY <1>1 DEF Queued
<1>3. \A u : Queued(u) /\ u # Head(queue) => Queued(u)'
  <2> SUFFICES ASSUME NEW u, NEW i \in 1 .. Len(queue), queue[i] = u, u # Head(queue)
               PROVE  Queued(u)'
    BY DEF Queued
  <2>1. i - 1 \in 1 .. Len(queue') /\ queue'[i - 1] = u
    BY <1>1
  <2> QED
    BY <2>1 DEF Queued
<1>4. Queued(Head(queue))
  BY <1>1 DEF Queued
<1>5. ASSUME NEW i \in 1 .. Len(queue'), NEW j \in 1 .. Len(queue'), queue'[i] = queue'[j]
      PROVE  i = j
  <2>1. i + 1 \in 1 .. Len(queue) /\ j + 1 \in 1 .. Len(queue)
    BY <1>1
  <2>2. queue[i + 1] = queue[j + 1]
    BY <1>1, <1>5
  <2>3. i + 1 = j + 1
    BY <2>1, <2>2
  <2> QED
    BY <2>3
<1>. QED
  BY <1>1, <1>2, <1>3, <1>4, <1>5

(* The part of TypeOK the steps below need again and again.                *)
LEMMA Types ==
  IInv => /\ status \in [TCBs -> Statuses] /\ tid \in [TCBs -> Tids]
          /\ kids \in [TCBs -> SUBSET TCBs] /\ queue \in Seq(TCBs)
          /\ cur \in [Cpus -> TCBs \cup {NoTask}] /\ todo \in [Cpus -> SUBSET TCBs]
          /\ pc \in [Cpus -> {"idle", "fetched", "running", "back", "reparent",
                               "sigchld", "logoff", "release"}]
          /\ freeTids \subseteq Tids /\ table \in [Tids -> TCBs \cup {NoTask}]
BY DEF IInv, TypeOK

(* A core that is not idle has a task.                                     *)
LEMMA HeldTask ==
  ASSUME IInv, NEW c \in Cpus, pc[c] # "idle"
  PROVE  cur[c] \in TCBs /\ cur[c] # NoTask /\ Held(cur[c]) /\ ~Queued(cur[c])
<1>1. cur[c] \in TCBs \cup {NoTask}
  BY DEF IInv, TypeOK
<1>2. cur[c] # NoTask
  BY DEF IInv, CpuShape
<1>3. Held(cur[c])
  BY DEF Held
<1>. QED
  BY <1>1, <1>2, <1>3 DEF IInv, OneHolder

(* A step that touches none of what IInv speaks of, types apart.           *)
LEMMA QuietStep ==
  ASSUME IInv, TypeOK',
         UNCHANGED <<status, tid, kids, queue, pc, cur, todo, freeTids, table>>
  PROVE  IInv'
<1> USE DEF IInv
<1>1. OneHolder'
  BY HoldersFrame DEF OneHolder
<1>2. CpuShape'
  BY DEF CpuShape
<1>3. KidsExist'
  BY DEF KidsExist, Exists
<1>4. TidUnique'
  BY DEF TidUnique, Exists
<1>5. TableExact'
  BY DEF TableExact, Exists
<1>6. TableLive'
  BY DEF TableLive
<1>. QED
  BY <1>1, <1>2, <1>3, <1>4, <1>5, <1>6

(* A core takes its task one place further in run_tasks.                   *)
LEMMA MoveStep ==
  ASSUME IInv, TypeOK', NEW c \in Cpus, NEW x, NEW s,
         UNCHANGED <<tid, kids, queue, cur, freeTids, table>>,
         pc' = [pc EXCEPT ![c] = x], status' = [status EXCEPT ![cur[c]] = s],
         \/ /\ pc[c] \in {"fetched", "running"}
            /\ \/ x = "running" /\ s = "Running"
               \/ x = "back" /\ s \in {"Ready", "Dying"}
         \/ pc[c] = "back" /\ x = "reparent" /\ s = "Dying"
         \/ pc[c] = "sigchld" /\ x = "logoff" /\ s = "Zombie",
         \/ todo' = todo
         \/ x = "reparent" /\ todo' = [todo EXCEPT ![c] = kids[cur[c]]]
  PROVE  IInv'
<1> USE DEF IInv
<1>1. pc[c] \in {"fetched", "running", "back", "sigchld"}
  OBVIOUS
<1>2. cur[c] \in TCBs /\ cur[c] # NoTask /\ ~Queued(cur[c])
  BY <1>1, HeldTask
<1>3. status[cur[c]] \in {"Ready", "Running", "Dying", "Zombie"}
  BY <1>1 DEF CpuShape
<1>4. \A t \in TCBs : status'[t] = IF t = cur[c] THEN s ELSE status[t]
  BY <1>2 DEF TypeOK
<1>5. \A d \in Cpus : pc'[d] = IF d = c THEN x ELSE pc[d]
  BY DEF TypeOK
<1>6. \A d \in Cpus : cur[d] = cur[c] => d = c
  BY <1>2 DEF OneHolder
<1>7. status[cur[c]] = "Zombie" <=> pc[c] = "sigchld"
  BY <1>1 DEF CpuShape
<1>8. CpuShape'
  BY <1>1, <1>2, <1>4, <1>5, <1>6, Types DEF CpuShape
<1>9. OneHolder'
  <2>1. \A t \in TCBs : status'[t] \in Alive => status[t] \in Alive
    BY <1>3, <1>4, <1>7 DEF Alive
  <2>2. \A t \in TCBs : Queued(t) => status'[t] = "Ready"
    BY <1>2, <1>4 DEF OneHolder
  <2> QED
    BY <2>1, <2>2, HoldersFrame
<1>10. \A t \in TCBs : Exists(t)' <=> Exists(t)
  BY <1>3, <1>4 DEF Exists
<1>11. KidsExist'
  <2>1. \A p \in TCBs : \A u \in kids'[p] : Exists(u)'
    BY <1>10, Types DEF KidsExist
  <2>2. ASSUME NEW d \in Cpus, todo'[d] # {} PROVE pc'[d] = "reparent" /\ todo'[d] \subseteq kids'[cur'[d]]
    BY <2>2, <1>1, <1>5, Types DEF KidsExist
  <2> QED
    BY <2>1, <2>2 DEF KidsExist
<1>12. TidUnique'
  BY <1>10 DEF TidUnique
<1>13. \A t \in TCBs : status'[t] \in {"Ready", "Running"} => status[t] \in {"Ready", "Running"}
  BY <1>1, <1>4 DEF CpuShape
<1>14. TableExact'
  BY <1>10, <1>13, Types DEF TableExact
<1>15. TableLive'
  BY <1>2, <1>3, <1>4, <1>5, <1>6, <1>7, Types DEF TableLive, Alive
<1>. QED
  BY <1>8, <1>9, <1>11, <1>12, <1>14, <1>15

(* What a dropped reference frees is neither queued, held nor a child.     *)
LEMMA DeadFacts ==
  ASSUME IInv, NEW S \in SUBSET TCBs, \A u \in S : Exists(u), NEW kidsNext
  PROVE  \A u \in Dead(S, cur, kidsNext) :
           /\ u \in S /\ status[u] = "Zombie" /\ ~Queued(u) /\ ~Held(u)
           /\ \A p \in TCBs : u \notin kidsNext[p]
<1> SUFFICES ASSUME NEW u \in Dead(S, cur, kidsNext)
             PROVE  /\ u \in S /\ status[u] = "Zombie" /\ ~Queued(u) /\ ~Held(u)
                    /\ \A p \in TCBs : u \notin kidsNext[p]
  OBVIOUS
<1>1. u \in S /\ ~Queued(u) /\ ~Held(u) /\ \A p \in TCBs : u \notin kidsNext[p]
  BY DEF Dead, Queued, Held
<1>2. status[u] \notin Alive
  BY <1>1 DEF IInv, OneHolder
<1>. QED
  BY <1>1, <1>2, Types DEF Exists, Alive, Statuses

(* Freeing blocks that exist returns tids nobody else has.                 *)
LEMMA FreeingKeepsTids ==
  ASSUME IInv, NEW D \in SUBSET TCBs, \A u \in D : Exists(u),
         tid' = tid, freeTids' = FreeTidsOf(D),
         \A t \in TCBs : Exists(t)' <=> Exists(t) /\ t \notin D
  PROVE  TidUnique' /\ freeTids' \in SUBSET Tids
<1>1. \A i : i \in freeTids' <=> i \in freeTids \/ \E u \in D : i = tid[u]
  BY DEF FreeTidsOf
<1>. QED
  BY <1>1, Types DEF IInv, TidUnique

(* Freeing blocks the signal table has forgotten keeps the table exact.    *)
LEMMA FreeingKeepsTable ==
  ASSUME IInv, NEW D \in SUBSET TCBs, \A u \in D : \A i \in Tids : table[i] # u,
         tid' = tid, table' = table,
         \A t \in TCBs : Exists(t)' <=> Exists(t) /\ t \notin D,
         \A t \in TCBs : status'[t] \in {"Ready", "Running"} => status[t] \in {"Ready", "Running"}
  PROVE  TableExact'
BY Types DEF IInv, TableExact

(* A zombie whose core is past logoff is not in the signal table.          *)
LEMMA ZombieNotInTable ==
  ASSUME IInv, NEW u \in TCBs, status[u] = "Zombie",
         \A c \in Cpus : cur[c] = u => pc[c] \notin {"sigchld", "logoff"}
  PROVE  \A i \in Tids : table[i] # u
BY Constants DEF IInv, TableLive, Alive

-----------------------------------------------------------------------------
(* One lemma per action: each preserves IInv.                              *)

(* The core takes the task that was first in the queue.                    *)
LEMMA FetchStep == ASSUME IInv, NEW c \in Cpus, Fetch(c) PROVE IInv'
<1> USE DEF IInv, Fetch, idVars, testVars
<1>1. /\ queue' \in Seq(TCBs) /\ Head(queue) \in TCBs /\ Queued(Head(queue))
      /\ \A u : Queued(u)' <=> Queued(u) /\ u # Head(queue)
      /\ \A i, j \in 1 .. Len(queue') : queue'[i] = queue'[j] => i = j
  BY PopFacts, Types DEF OneHolder
<1>2. TypeOK'
  BY <1>1 DEF TypeOK
<1>3. cur[c] = NoTask /\ \A d \in Cpus : cur'[d] = IF d = c THEN Head(queue) ELSE cur[d]
  BY Types DEF CpuShape
<1>4. \A u \in TCBs : Held(u)' <=> Held(u) \/ u = Head(queue)
  BY <1>3, Constants DEF Held
<1>5. ~Held(Head(queue)) /\ status[Head(queue)] = "Ready"
  BY <1>1 DEF OneHolder
<1>6. CpuShape'
  <2>1. \A d \in Cpus : pc'[d] = IF d = c THEN "fetched" ELSE pc[d]
    BY Types
  <2>2. Head(queue) # NoTask
    BY <1>1, Constants
  <2> QED
    BY <2>1, <2>2, <1>3, <1>5 DEF CpuShape
<1>7. OneHolder'
  <2>1. \A d, e \in Cpus : cur'[d] = cur'[e] /\ cur'[d] # NoTask => d = e
    BY <1>3, <1>5 DEF OneHolder, Held
  <2> QED
    BY <2>1, <1>1, <1>4, <1>5 DEF OneHolder, Alive
<1>8. KidsExist' /\ TidUnique'
  BY <1>3, Types DEF KidsExist, TidUnique, Exists
<1>9. TableExact' /\ TableLive'
  BY <1>3, Types DEF TableExact, TableLive, Exists, CpuShape
<1>. QED
  BY <1>2, <1>6, <1>7, <1>8, <1>9

(* PushBack and PushBlocked: the core gives its task to the run queue.     *)
LEMMA RequeueStep ==
  ASSUME IInv, TypeOK', NEW c \in Cpus, pc[c] # "idle", status[cur[c]] = "Ready",
         queue' = Push(cur[c]), cur' = [cur EXCEPT ![c] = NoTask],
         pc' = [pc EXCEPT ![c] = "idle"], pc[c] \in {"fetched", "back"},
         UNCHANGED <<status, tid, kids, todo, freeTids, table>>
  PROVE  IInv'
<1> USE DEF IInv
<1>1. cur[c] \in TCBs /\ cur[c] # NoTask /\ Held(cur[c]) /\ ~Queued(cur[c])
  BY HeldTask
<1>2. /\ \A u : Queued(u)' <=> Queued(u) \/ u = cur[c]
      /\ \A i, j \in 1 .. Len(queue') : queue'[i] = queue'[j] => i = j
  BY <1>1, PushFacts, Types DEF OneHolder
<1>3. \A d \in Cpus : cur'[d] = IF d = c THEN NoTask ELSE cur[d]
  BY Types
<1>4. \A u \in TCBs : Held(u)' <=> Held(u) /\ u # cur[c]
  BY <1>1, <1>3, Constants DEF Held, OneHolder
<1>5. CpuShape'
  <2>1. \A d \in Cpus : pc'[d] = IF d = c THEN "idle" ELSE pc[d]
    BY Types
  <2> QED
    BY <2>1, <1>3 DEF CpuShape
<1>6. OneHolder'
  <2>1. \A d, e \in Cpus : cur'[d] = cur'[e] /\ cur'[d] # NoTask => d = e
    BY <1>3 DEF OneHolder
  <2> QED
    BY <2>1, <1>2, <1>4 DEF OneHolder, Alive
<1>7. TidUnique'
  BY DEF TidUnique, Exists
<1>8. KidsExist'
  BY <1>3, Types DEF KidsExist, Exists
<1>9. TableExact' /\ TableLive'
  BY <1>3 DEF TableExact, TableLive, Exists, TypeOK
<1>. QED
  BY <1>5, <1>6, <1>7, <1>8, <1>9

(* A futex waiter goes to the end of the queue again.                      *)
LEMMA PushBlockedStep == ASSUME IInv, NEW c \in Cpus, PushBlocked(c) PROVE IInv'
<1>1. cur[c] \in TCBs /\ status[cur[c]] = "Ready"
  BY HeldTask DEF PushBlocked, IInv, CpuShape
<1>2. queue' \in Seq(TCBs)
  BY <1>1, PushFacts, Types DEF PushBlocked
<1>3. TypeOK'
  BY <1>2 DEF PushBlocked, IInv, TypeOK, idVars, testVars
<1>. QED
  BY <1>1, <1>3, RequeueStep DEF PushBlocked, idVars

(* A task that suspended goes from its core to the queue.                  *)
LEMMA PushBackStep == ASSUME IInv, NEW c \in Cpus, PushBack(c) PROVE IInv'
<1>1. cur[c] \in TCBs
  BY HeldTask DEF PushBack
<1>2. queue' \in Seq(TCBs)
  BY <1>1, PushFacts, Types DEF PushBack
<1>3. TypeOK'
  BY <1>2 DEF PushBack, IInv, TypeOK, idVars, testVars
<1>. QED
  BY <1>3, RequeueStep DEF PushBack, idVars

(* A new block: what IInv says of tids and of the signal table survives.   *)
LEMMA NewBlockFacts ==
  ASSUME IInv, NEW u \in TCBs, status[u] = "unborn", NEW i \in freeTids,
         NEW p \in Tids, NEW x \in BOOLEAN, NEW v \in TCBs,
         NEW q \in Tids \cup {0, NoParent}, NewBlock(u, i, p, x, v, q)
  PROVE  /\ i \in Tids
         /\ \A t \in TCBs : status'[t] = IF t = u THEN "Ready" ELSE status[t]
         /\ \A t \in TCBs : Exists(t)' <=> Exists(t) \/ t = u
         /\ \A j \in Tids : table'[j] = IF j = i THEN u ELSE table[j]
         /\ ~Queued(u) /\ ~Held(u)
         /\ TidUnique' /\ TableExact'
<1> USE DEF IInv, NewBlock
<1>1. /\ i \in Tids
      /\ \A t \in TCBs : status'[t] = IF t = u THEN "Ready" ELSE status[t]
      /\ \A t \in TCBs : tid'[t] = IF t = u THEN i ELSE tid[t]
      /\ \A j \in Tids : table'[j] = IF j = i THEN u ELSE table[j]
      /\ freeTids' = freeTids \ {i}
  BY Types
<1>2. \A t \in TCBs : Exists(t)' <=> Exists(t) \/ t = u
  BY <1>1 DEF Exists
<1>3. ~Exists(u)
  BY DEF Exists
<1>4. ~Queued(u)
  BY DEF OneHolder
<1>5. ~Held(u)
  <2> SUFFICES ASSUME NEW d \in Cpus, cur[d] = u PROVE FALSE
    BY DEF Held
  <2>1. pc[d] # "idle"
    BY Constants DEF CpuShape
  <2>2. status[u] \in {"Ready", "Running", "Dying", "Zombie"}
    BY <2>1, Types DEF CpuShape
  <2> QED
    BY <2>2
<1>6. TidUnique'
  BY <1>1, <1>2 DEF TidUnique
<1>7. TableExact'
  <2>1. \A j \in Tids : table[j] # u
    BY <1>3, Constants DEF TableExact
  <2>2. ASSUME NEW j \in Tids, table'[j] # NoTask PROVE (Exists(table[j]) /\ tid[table[j]] = j)'
    <3>1. CASE j = i
      BY <3>1, <1>1, <1>2
    <3>2. CASE j # i
      BY <3>2, <2>1, <2>2, <1>1, <1>2, Types DEF TableExact
    <3> QED
      BY <3>1, <3>2
  <2>3. ASSUME NEW t \in TCBs, status'[t] \in {"Ready", "Running"} PROVE table'[tid'[t]] = t
    <3>1. CASE t = u
      BY <3>1, <1>1
    <3>2. CASE t # u
      <4>1. tid'[t] = tid[t] /\ tid[t] \in Tids /\ table[tid[t]] = t /\ Exists(t)
        BY <2>3, <3>2, <1>1, Types DEF TableExact, Exists
      <4>2. tid[t] # i
        BY <4>1 DEF TidUnique
      <4> QED
        BY <4>1, <4>2, <1>1
    <3> QED
      BY <3>1, <3>2
  <2> QED
    BY <2>2, <2>3 DEF TableExact
<1>. QED
  BY <1>1, <1>2, <1>4, <1>5, <1>6, <1>7

(* A new test case gets a new block and a free tid.                        *)
LEMMA LoadNextTestcaseStep == ASSUME IInv, NEW c \in Cpus, LoadNextTestcase(c) PROVE IInv'
<1> DEFINE u == Fresh
<1>1. PICK i \in Tids : Allocates(i) /\ NewBlock(u, i, i, TRUE, u, NoParent)
  BY DEF LoadNextTestcase
<1>2. u \in TCBs /\ status[u] = "unborn" /\ i \in freeTids
  BY <1>1, FreshUnborn DEF LoadNextTestcase, Allocates
<1> HIDE DEF u
<1>3. /\ \A t \in TCBs : status'[t] = IF t = u THEN "Ready" ELSE status[t]
      /\ \A t \in TCBs : Exists(t)' <=> Exists(t) \/ t = u
      /\ \A j \in Tids : table'[j] = IF j = i THEN u ELSE table[j]
      /\ ~Queued(u) /\ ~Held(u) /\ TidUnique' /\ TableExact'
  BY <1>1, <1>2, NewBlockFacts
<1>4. /\ pc[c] = "idle" /\ cur[c] = NoTask /\ UNCHANGED <<kids, queue, todo>>
      /\ \A d \in Cpus : cur'[d] = IF d = c THEN u ELSE cur[d]
      /\ \A d \in Cpus : pc'[d] = IF d = c THEN "fetched" ELSE pc[d]
  BY Types DEF LoadNextTestcase, u, IInv, CpuShape
<1>5. TypeOK'
  <2>1. loaded' \in 0 .. Testcases /\ now' \in 0 .. Testcases
    BY Constants DEF LoadNextTestcase, HasTestcase, IInv, TypeOK
  <2> QED
    BY <1>1, <1>2, <2>1 DEF LoadNextTestcase, u, NewBlock, IInv, TypeOK, Statuses
<1>6. CpuShape'
  BY <1>2, <1>3, <1>4, Constants, Types DEF IInv, CpuShape, Held
<1>7. OneHolder'
  <2>1. \A t : Queued(t)' <=> Queued(t)
    BY <1>4 DEF Queued
  <2>2. \A t \in TCBs : Held(t)' <=> Held(t) \/ t = u
    BY <1>4, Constants DEF Held
  <2>3. \A d, e \in Cpus : cur'[d] = cur'[e] /\ cur'[d] # NoTask => d = e
    BY <1>3, <1>4 DEF IInv, OneHolder, Held
  <2> QED
    BY <2>1, <2>2, <2>3, <1>2, <1>3, <1>4 DEF IInv, OneHolder, Alive
<1>8. KidsExist'
  BY <1>3, <1>4, Types DEF IInv, KidsExist
<1>9. TableLive'
  <2> SUFFICES ASSUME NEW j \in Tids, table'[j] # NoTask
               PROVE  \/ status'[table'[j]] \in Alive
                      \/ \E d \in Cpus : cur'[d] = table'[j] /\ pc'[d] \in {"sigchld", "logoff"}
    BY DEF TableLive
  <2>1. CASE j = i
    BY <2>1, <1>2, <1>3 DEF Alive
  <2>2. CASE j # i
    <3>1. table'[j] = table[j] /\ table[j] \in TCBs
      BY <2>2, <1>3, Types
    <3>2. CASE status[table[j]] \in Alive
      BY <3>1, <3>2, <1>3 DEF Alive
    <3>3. CASE \E d \in Cpus : cur[d] = table[j] /\ pc[d] \in {"sigchld", "logoff"}
      BY <3>1, <3>3, <1>4
    <3> QED
      BY <3>1, <3>2, <3>3 DEF IInv, TableLive
  <2> QED
    BY <2>1, <2>2
<1>. QED
  BY <1>3, <1>5, <1>6, <1>7, <1>8, <1>9 DEF IInv

(* A child gets a new block, a free tid and its place in queue and table.  *)
LEMMA CloneStep == ASSUME IInv, NEW c \in Cpus, NEW k \in CloneKinds, Clone(c, k) PROVE IInv'
<1> DEFINE u == Fresh  t == cur[c]
<1>1. PICK i \in Tids : /\ Allocates(i)
                        /\ NewBlock(u, i, IF k.thread THEN pid[t] ELSE i, k.chld,
                                    IF k.vm THEN vm[t] ELSE u, PpidFor(t, k))
  BY DEF Clone
<1>2. u \in TCBs /\ status[u] = "unborn" /\ i \in freeTids
  BY <1>1, FreshUnborn DEF Clone, Allocates
<1>3. t \in TCBs
  BY HeldTask DEF Clone, InUser
<1>4. /\ kids' = IF k.parent THEN kids ELSE [kids EXCEPT ![t] = @ \cup {u}]
      /\ queue' = Push(u) /\ UNCHANGED <<pc, cur, todo>>
  BY DEF Clone, cpuVars
<1> HIDE DEF u, t
<1>5. /\ k.chld \in BOOLEAN
      /\ (IF k.thread THEN pid[t] ELSE i) \in Tids
      /\ (IF k.vm THEN vm[t] ELSE u) \in TCBs
      /\ PpidFor(t, k) \in Tids \cup {0, NoParent}
  BY <1>2, <1>3, TasksAssumption DEF PpidFor, IInv, TypeOK
<1>6. /\ \A x \in TCBs : status'[x] = IF x = u THEN "Ready" ELSE status[x]
      /\ \A x \in TCBs : Exists(x)' <=> Exists(x) \/ x = u
      /\ \A j \in Tids : table'[j] = IF j = i THEN u ELSE table[j]
      /\ ~Queued(u) /\ ~Held(u) /\ TidUnique' /\ TableExact'
  BY <1>1, <1>2, <1>5, NewBlockFacts
<1>7. /\ queue' \in Seq(TCBs) /\ \A x : Queued(x)' <=> Queued(x) \/ x = u
      /\ \A a, b \in 1 .. Len(queue') : queue'[a] = queue'[b] => a = b
  BY <1>2, <1>4, <1>6, PushFacts, Types DEF IInv, OneHolder
<1>8. kids' \in [TCBs -> SUBSET TCBs] /\ \A p \in TCBs : kids'[p] \in {kids[p], kids[p] \cup {u}}
  BY <1>2, <1>3, <1>4, Types
<1>9. TypeOK'
  <2>1. /\ status' \in [TCBs -> Statuses] /\ tid' \in [TCBs -> Tids]
        /\ pid' \in [TCBs -> Tids] /\ chld' \in [TCBs -> BOOLEAN]
        /\ vm' \in [TCBs -> TCBs] /\ ppid' \in [TCBs -> Tids \cup {0, NoParent}]
        /\ freeTids' \in SUBSET Tids /\ table' \in [Tids -> TCBs \cup {NoTask}]
    BY <1>1, <1>2, <1>5 DEF NewBlock, IInv, TypeOK, Statuses
  <2> QED
    BY <2>1, <1>7, <1>8 DEF Clone, IInv, TypeOK, cpuVars, testVars
<1>10. CpuShape'
  BY <1>2, <1>4, <1>6, Types DEF IInv, CpuShape
<1>11. OneHolder'
  <2>1. \A x : Held(x)' <=> Held(x)
    BY <1>4 DEF Held
  <2> QED
    BY <2>1, <1>2, <1>4, <1>6, <1>7 DEF IInv, OneHolder, Alive
<1>12. KidsExist'
  <2>1. \A p \in TCBs : \A x \in kids'[p] : Exists(x)'
    BY <1>2, <1>6, <1>8, Types DEF IInv, KidsExist
  <2>2. ASSUME NEW d \in Cpus, todo'[d] # {} PROVE pc'[d] = "reparent" /\ todo'[d] \subseteq kids'[cur'[d]]
    <3>1. pc[d] = "reparent" /\ todo[d] \subseteq kids[cur[d]]
      BY <2>2, <1>4 DEF IInv, KidsExist
    <3>2. cur[d] \in TCBs
      BY <3>1, HeldTask
    <3> QED
      BY <3>1, <3>2, <1>4, <1>8
  <2> QED
    BY <2>1, <2>2 DEF KidsExist
<1>13. TableLive'
  BY <1>2, <1>4, <1>6, Types DEF IInv, TableLive, Alive
<1>. QED
  BY <1>6, <1>9, <1>10, <1>11, <1>12, <1>13 DEF IInv

(* The steps that touch nothing IInv relates.                              *)
LEMMA FinalInfoStep == ASSUME IInv, NEW c \in Cpus, FinalInfo(c) PROVE IInv'
<1>1. TypeOK'
  BY DEF FinalInfo, IInv, TypeOK, idVars, cpuVars, testVars
<1>. QED
  BY <1>1, QuietStep DEF FinalInfo, idVars, cpuVars

(* The kernel stops.                                                       *)
LEMMA TidExhaustedStep == ASSUME IInv, NEW c \in Cpus, TidExhausted(c) PROVE IInv'
<1>1. TypeOK'
  BY DEF TidExhausted, IInv, TypeOK, idVars, cpuVars, testVars
<1>. QED
  BY <1>1, QuietStep DEF TidExhausted, idVars, cpuVars

(* Only a pending signal changes.                                          *)
LEMMA TakeSigchldStep == ASSUME IInv, NEW c \in Cpus, TakeSigchld(c) PROVE IInv'
<1>1. TypeOK'
  BY DEF TakeSigchld, IInv, TypeOK, idVars, cpuVars, testVars
<1>. QED
  BY <1>1, QuietStep DEF TakeSigchld, idVars, cpuVars

(* exec clears what is pending.                                            *)
LEMMA ExecStep == ASSUME IInv, NEW c \in Cpus, Exec(c) PROVE IInv'
<1>1. TypeOK'
  BY DEF Exec, IInv, TypeOK, idVars, cpuVars, testVars
<1>. QED
  BY <1>1, QuietStep DEF Exec, idVars, cpuVars

(* A waiter becomes due.                                                   *)
LEMMA TimeOutStep == ASSUME IInv, NEW i \in Tids, TimeOut(i) PROVE IInv'
<1>1. TypeOK'
  BY DEF TimeOut, IInv, TypeOK, idVars, cpuVars, testVars
<1>. QED
  BY <1>1, QuietStep DEF TimeOut, idVars, cpuVars

(* The steps that move a task on.                                          *)
LEMMA DispatchStep == ASSUME IInv, NEW c \in Cpus, Dispatch(c) PROVE IInv'
<1>1. cur[c] \in TCBs
  BY HeldTask DEF Dispatch
<1>2. TypeOK'
  BY <1>1 DEF Dispatch, IInv, TypeOK, Statuses, idVars, testVars
<1>. QED
  BY <1>2, MoveStep DEF Dispatch, idVars

(* The task is ready, and still with its core.                             *)
LEMMA YieldStep == ASSUME IInv, NEW c \in Cpus, Yield(c) PROVE IInv'
<1>1. status' \in [TCBs -> Statuses] /\ pc' \in [Cpus -> {"idle", "fetched", "running", "back",
                                                     "reparent", "sigchld", "logoff", "release"}]
  BY Types DEF Yield, Suspend, Statuses
<1>2. TypeOK'
  <2>1. UNCHANGED <<tid, pid, chld, vm, ppid, kids, waiting, cur, todo, halt, freeTids,
                    table, pending, cleared, now, loaded, verdicts>>
    BY DEF Yield, idVars, testVars
  <2>2. queue' \in Seq(TCBs) /\ board' \in [Tids -> {"none", "asleep", "due"}]
    BY DEF Yield, Suspend, IInv, TypeOK
  <2> QED
    BY <1>1, <2>1, <2>2 DEF IInv, TypeOK
<1>. QED
  BY <1>2, MoveStep DEF Yield, Suspend, InUser, idVars

(* So is one that waits for a futex.                                       *)
LEMMA FutexWaitStep == ASSUME IInv, NEW c \in Cpus, FutexWait(c) PROVE IInv'
<1>1. status' \in [TCBs -> Statuses] /\ pc' \in [Cpus -> {"idle", "fetched", "running", "back",
                                                     "reparent", "sigchld", "logoff", "release"}]
  BY Types DEF FutexWait, Suspend, Statuses
<1>2. TypeOK'
  <2>1. UNCHANGED <<tid, pid, chld, vm, ppid, kids, waiting, cur, todo, halt, freeTids,
                    table, pending, cleared, now, loaded, verdicts>>
    BY DEF FutexWait, idVars, testVars
  <2>2. queue' \in Seq(TCBs) /\ board' \in [Tids -> {"none", "asleep", "due"}]
    BY DEF FutexWait, Suspend, IInv, TypeOK
  <2> QED
    BY <1>1, <2>1, <2>2 DEF IInv, TypeOK
<1>. QED
  BY <1>2, MoveStep DEF FutexWait, Suspend, InUser, idVars

(* So is one in wait4 without an exited child.                             *)
LEMMA WaitSuspendStep == ASSUME IInv, NEW c \in Cpus, WaitSuspend(c) PROVE IInv'
<1>1. cur[c] \in TCBs
  BY HeldTask DEF WaitSuspend
<1>2. waiting' \in [TCBs -> Tids \cup {NotWaiting, AnyChild}]
  <2>1. WaitArgs(cur[c]) \subseteq Tids \cup {NotWaiting, AnyChild}
    BY <1>1 DEF WaitArgs, IInv, TypeOK
  <2>2. waiting \in [TCBs -> Tids \cup {NotWaiting, AnyChild}]
    BY DEF IInv, TypeOK
  <2>3. PICK p \in WaitArgs(cur[c]) : waiting' = [waiting EXCEPT ![cur[c]] = p]
    BY DEF WaitSuspend
  <2> QED
    BY <2>1, <2>2, <2>3
<1>3. TypeOK'
  <2>1. status' \in [TCBs -> Statuses] /\ pc' \in [Cpus -> {"idle", "fetched", "running", "back",
                                                       "reparent", "sigchld", "logoff", "release"}]
    BY Types DEF WaitSuspend, Suspend, Statuses
  <2>2. UNCHANGED <<tid, pid, chld, vm, ppid, kids, queue, cur, todo, halt, freeTids,
                    table, pending, cleared, board, now, loaded, verdicts>>
    BY DEF WaitSuspend, idVars, testVars
  <2> QED
    BY <1>2, <2>1, <2>2 DEF IInv, TypeOK
<1>. QED
  BY <1>3, MoveStep DEF WaitSuspend, Suspend, idVars

(* The task is dying, and still with its core.                             *)
LEMMA ExitStep == ASSUME IInv, NEW c \in Cpus, Exit(c) PROVE IInv'
<1>1. TypeOK'
  BY DEF Exit, IInv, TypeOK, Statuses, idVars, testVars
<1>. QED
  BY <1>1, MoveStep DEF Exit, InUser, idVars

(* handle_zombie_task begins with the children.                            *)
LEMMA StartZombieStep == ASSUME IInv, NEW c \in Cpus, StartZombie(c) PROVE IInv'
<1>1. cur[c] \in TCBs
  BY HeldTask DEF StartZombie
<1>2. TypeOK'
  BY <1>1 DEF StartZombie, Orphans, IInv, TypeOK, idVars, testVars
<1>3. status' = [status EXCEPT ![cur[c]] = "Dying"]
  BY <1>1, Types DEF StartZombie
<1>. QED
  BY <1>2, <1>3, MoveStep DEF StartZombie, Orphans, idVars

(* Only a pending signal changes.                                          *)
LEMMA SendSigchldStep == ASSUME IInv, NEW c \in Cpus, SendSigchld(c) PROVE IInv'
<1>1. cur[c] \in TCBs /\ status[cur[c]] = "Zombie"
  BY HeldTask DEF SendSigchld, IInv, CpuShape
<1>2. pending' \in SUBSET TCBs
  BY Types DEF SendSigchld, Receiver, IInv, TypeOK
<1>3. TypeOK'
  BY <1>2 DEF SendSigchld, IInv, TypeOK, idVars, testVars
<1>4. status' = [status EXCEPT ![cur[c]] = "Zombie"]
  BY <1>1, Types DEF SendSigchld
<1>. QED
  BY <1>3, <1>4, MoveStep DEF SendSigchld, idVars

(* handle_zombie_task.                                                     *)
LEMMA ReparentStep == ASSUME IInv, NEW c \in Cpus, Reparent(c) PROVE IInv'
<1>1. PICK u \in todo[c] :
        /\ \/ /\ ppid' = [ppid EXCEPT ![u] = NoParent] /\ UNCHANGED kids
           \/ /\ ppid' = [ppid EXCEPT ![u] = 0]
              /\ kids' = [kids EXCEPT ![Root] = @ \cup {u}]
        /\ todo' = [todo EXCEPT ![c] = @ \ {u}]
  BY DEF Reparent
<1>2. pc[c] = "reparent" /\ UNCHANGED <<status, tid, queue, pc, cur, freeTids, table>>
  BY DEF Reparent, idVars
<1>3. u \in TCBs /\ Exists(u)
  BY <1>1, <1>2, HeldTask, Types DEF IInv, KidsExist
<1>4. \A t : Exists(t)' <=> Exists(t)
  BY <1>2 DEF Exists
<1>5. kids' \in [TCBs -> SUBSET TCBs] /\ \A p \in TCBs : kids'[p] \in {kids[p], kids[p] \cup {u}}
  BY <1>1, <1>3, Constants, Types
<1>6. todo' \in [Cpus -> SUBSET TCBs] /\ \A d \in Cpus : todo'[d] \subseteq todo[d]
  BY <1>1, Types
<1>7. ppid' \in [TCBs -> Tids \cup {0, NoParent}]
  BY <1>1 DEF IInv, TypeOK
<1>8. TypeOK'
  BY <1>5, <1>6, <1>7 DEF Reparent, IInv, TypeOK, idVars, testVars
<1>9. CpuShape'
  BY <1>2 DEF IInv, CpuShape
<1>10. OneHolder'
  BY <1>2, HoldersFrame DEF IInv, OneHolder
<1>11. KidsExist'
  <2>1. \A p \in TCBs : \A x \in kids'[p] : Exists(x)'
    BY <1>3, <1>4, <1>5 DEF IInv, KidsExist
  <2>2. ASSUME NEW d \in Cpus, todo'[d] # {} PROVE pc'[d] = "reparent" /\ todo'[d] \subseteq kids'[cur'[d]]
    <3>1. pc[d] = "reparent" /\ todo[d] \subseteq kids[cur[d]]
      BY <2>2, <1>6 DEF IInv, KidsExist
    <3>2. cur[d] \in TCBs
      BY <3>1, HeldTask
    <3> QED
      BY <3>1, <3>2, <1>2, <1>5, <1>6
  <2> QED
    BY <2>1, <2>2 DEF KidsExist
<1>12. TidUnique' /\ TableExact' /\ TableLive'
  BY <1>2, <1>4 DEF IInv, TidUnique, TableExact, TableLive
<1>. QED
  BY <1>8, <1>9, <1>10, <1>11, <1>12 DEF IInv

(* What the blocks freed by a step that keeps queue and cores satisfy.     *)
LEMMA FreedFacts ==
  ASSUME IInv, NEW D \in SUBSET TCBs,
         \A u \in D : status[u] = "Zombie" /\ ~Queued(u) /\ ~Held(u)
  PROVE  \A u \in D : Exists(u) /\ \A i \in Tids : table[i] # u
BY ZombieNotInTable DEF Exists, Held

(* The parent drops its reference to a zombie, perhaps the last one.       *)
LEMMA ReapStep == ASSUME IInv, NEW c \in Cpus, Reap(c) PROVE IInv'
<1> DEFINE t == cur[c]
<1>1. t \in TCBs /\ Held(t) /\ pc[c] = "running"
  BY HeldTask DEF Reap
<1>2. PICK p \in WaitArgs(t) : \E u \in Exited(t, p) :
        LET kidsNext == [kids EXCEPT ![t] = @ \ {u}]
            dead     == Dead({u}, cur, kidsNext)
        IN /\ kids' = kidsNext
           /\ status' = [x \in TCBs |-> IF x \in dead THEN "freed" ELSE status[x]]
           /\ freeTids' = FreeTidsOf(dead)
           /\ pending' = pending \ dead
  BY DEF Reap
<1>2a. PICK u \in Exited(t, p) :
        LET kidsNext == [kids EXCEPT ![t] = @ \ {u}]
            dead     == Dead({u}, cur, kidsNext)
        IN /\ kids' = kidsNext
           /\ status' = [x \in TCBs |-> IF x \in dead THEN "freed" ELSE status[x]]
           /\ freeTids' = FreeTidsOf(dead)
           /\ pending' = pending \ dead
  BY <1>2
<1> DEFINE kidsNext == [kids EXCEPT ![t] = @ \ {u}]  D == Dead({u}, cur, kidsNext)
<1>3. /\ kids' = kidsNext
      /\ status' = [x \in TCBs |-> IF x \in D THEN "freed" ELSE status[x]]
      /\ freeTids' = FreeTidsOf(D) /\ pending' = pending \ D
      /\ UNCHANGED <<tid, queue, pc, cur, todo, table>>
  BY <1>2a DEF Reap, idVars, cpuVars
<1>4. u \in TCBs /\ Exists(u) /\ u \in kids[t]
  BY <1>1, Types DEF Exited, Named, Exists
<1>5. kids' \in [TCBs -> SUBSET TCBs] /\ \A q \in TCBs : kids'[q] = IF q = t THEN kids[q] \ {u} ELSE kids[q]
  BY <1>1, <1>3, Types
<1>6. D \in SUBSET TCBs /\ \A x \in D : /\ status[x] = "Zombie" /\ ~Queued(x) /\ ~Held(x)
                                        /\ \A q \in TCBs : x \notin kids'[q]
  <2>1. D = Dead({u}, cur, kids') /\ {u} \in SUBSET TCBs /\ \A x \in {u} : Exists(x)
    BY <1>3, <1>4
  <2>2. \A x \in D : /\ x \in {u} /\ status[x] = "Zombie" /\ ~Queued(x) /\ ~Held(x)
                     /\ \A q \in TCBs : x \notin kids'[q]
    <3> HIDE DEF D
    <3> QED
      BY <2>1, DeadFacts
  <2> QED
    BY <2>1, <2>2
<1>7. \A x \in D : Exists(x) /\ \A i \in Tids : table[i] # x
  BY <1>6, FreedFacts
<1> HIDE DEF t, kidsNext, D
<1>8. \A x \in TCBs : status'[x] = IF x \in D THEN "freed" ELSE status[x]
  BY <1>3
<1>9. \A x \in TCBs : Exists(x)' <=> Exists(x) /\ x \notin D
  BY <1>8 DEF Exists
<1>10. TidUnique' /\ freeTids' \in SUBSET Tids
  BY <1>3, <1>6, <1>7, <1>9, FreeingKeepsTids
<1>11. TableExact'
  BY <1>3, <1>6, <1>7, <1>8, <1>9, FreeingKeepsTable
<1>12. TypeOK'
  <2>1. status' \in [TCBs -> Statuses]
    BY <1>3, Types DEF Statuses
  <2>2. waiting' \in [TCBs -> Tids \cup {NotWaiting, AnyChild}]
    BY DEF Reap, IInv, TypeOK
  <2>3. /\ UNCHANGED <<tid, queue, pc, cur, todo, table>>
        /\ kids' \in [TCBs -> SUBSET TCBs] /\ freeTids' \in SUBSET Tids
        /\ pending' \in SUBSET TCBs
    BY <1>3, <1>5, <1>10 DEF IInv, TypeOK
  <2>4. UNCHANGED <<pid, chld, vm, ppid, cleared, board, now, loaded, verdicts, halt>>
    BY DEF Reap, idVars, testVars
  <2> QED
    BY <2>1, <2>2, <2>3, <2>4 DEF IInv, TypeOK
<1>13. CpuShape'
  <2>1. ASSUME NEW d \in Cpus, pc[d] # "idle" PROVE status'[cur[d]] = status[cur[d]]
    BY <2>1, <1>6, <1>8, HeldTask
  <2> QED
    BY <2>1, <1>3 DEF IInv, CpuShape
<1>14. OneHolder'
  BY <1>3, <1>6, <1>8, HoldersFrame DEF IInv, OneHolder, Alive, Queued
<1>15. KidsExist'
  <2>1. \A q \in TCBs : \A x \in kids'[q] : Exists(x)'
    BY <1>5, <1>6, <1>9, Types DEF IInv, KidsExist
  <2>2. ASSUME NEW d \in Cpus, todo'[d] # {} PROVE pc'[d] = "reparent" /\ todo'[d] \subseteq kids'[cur'[d]]
    <3>1. pc[d] = "reparent" /\ todo[d] \subseteq kids[cur[d]]
      BY <2>2, <1>3 DEF IInv, KidsExist
    <3>2. cur[d] \in TCBs /\ cur[d] # NoTask
      BY <3>1, HeldTask
    <3>3. cur[d] # t
      BY <3>1, <3>2, <1>1 DEF IInv, OneHolder, t
    <3> QED
      BY <3>1, <3>2, <3>3, <1>3, <1>5
  <2> QED
    BY <2>1, <2>2 DEF KidsExist
<1>16. TableLive'
  BY <1>3, <1>6, <1>8, Types DEF IInv, TableLive, Alive
<1>. QED
  BY <1>10, <1>11, <1>12, <1>13, <1>14, <1>15, <1>16 DEF IInv

(* The task becomes a zombie and drops its children.                       *)
LEMMA BuryStep == ASSUME IInv, NEW c \in Cpus, Bury(c) PROVE IInv'
<1> DEFINE t == cur[c]  D == Dead(kids[t], cur, KidsCleared(t))
<1>1. t \in TCBs /\ t # NoTask /\ Held(t) /\ ~Queued(t) /\ pc[c] = "reparent" /\ status[t] = "Dying"
  BY HeldTask DEF Bury, IInv, CpuShape
<1>2. /\ kids' = KidsCleared(t) /\ todo[c] = {}
      /\ status' = [x \in TCBs |-> IF x = t THEN "Zombie"
                                   ELSE IF x \in D THEN "freed" ELSE status[x]]
      /\ freeTids' = FreeTidsOf(D) /\ pending' = pending \ D
      /\ pc' = [pc EXCEPT ![c] = IF chld[t] \/ pid[t] = tid[t] THEN "sigchld" ELSE "logoff"]
      /\ UNCHANGED <<tid, queue, cur, todo, table>>
  BY DEF Bury, idVars
<1>3. kids[t] \in SUBSET TCBs /\ \A x \in kids[t] : Exists(x)
  BY <1>1, Types DEF IInv, KidsExist
<1>4. kids' \in [TCBs -> SUBSET TCBs] /\ \A q \in TCBs : kids'[q] = IF q = t THEN {} ELSE kids[q]
  BY <1>1, <1>2, Types DEF KidsCleared
<1>5. D \in SUBSET TCBs /\ \A x \in D : /\ status[x] = "Zombie" /\ ~Queued(x) /\ ~Held(x)
                                        /\ \A q \in TCBs : x \notin kids'[q]
  <2>1. D = Dead(kids[t], cur, kids')
    BY <1>2
  <2>2. \A x \in D : /\ x \in kids[t] /\ status[x] = "Zombie" /\ ~Queued(x) /\ ~Held(x)
                     /\ \A q \in TCBs : x \notin kids'[q]
    <3> HIDE DEF D
    <3> QED
      BY <2>1, <1>3, DeadFacts
  <2> QED
    BY <1>3, <2>2
<1>6. \A x \in D : Exists(x) /\ \A i \in Tids : table[i] # x
  BY <1>5, FreedFacts
<1> HIDE DEF t, D
<1>7. \A x \in TCBs : status'[x] = IF x = t THEN "Zombie"
                                   ELSE IF x \in D THEN "freed" ELSE status[x]
  BY <1>2
<1>8. \A d \in Cpus : IF d = c THEN pc'[d] \in {"sigchld", "logoff"} ELSE pc'[d] = pc[d]
  BY <1>2, Types
<1>9. t \notin D
  BY <1>1, <1>5
<1>10. \A x \in TCBs : Exists(x)' <=> Exists(x) /\ x \notin D
  BY <1>1, <1>7, <1>9 DEF Exists
<1>11. TidUnique' /\ freeTids' \in SUBSET Tids
  BY <1>2, <1>5, <1>6, <1>10, FreeingKeepsTids
<1>12. TableExact'
  BY <1>2, <1>5, <1>6, <1>7, <1>10, FreeingKeepsTable
<1>13. TypeOK'
  <2>1. status' \in [TCBs -> Statuses]
    BY <1>2, Types DEF Statuses
  <2>2. pc' \in [Cpus -> {"idle", "fetched", "running", "back", "reparent",
                          "sigchld", "logoff", "release"}]
    BY <1>2, Types
  <2>3. now' \in 0 .. Testcases /\ verdicts' \in [1 .. Testcases -> Nat]
    BY Constants DEF Bury, NowAfter, Judged, IInv, TypeOK
  <2> QED
    BY <2>1, <2>2, <2>3, <1>2, <1>4, <1>11 DEF Bury, IInv, TypeOK, idVars
<1>14. \A d \in Cpus : d # c /\ pc[d] # "idle" => cur[d] \in TCBs /\ cur[d] # t /\ cur[d] \notin D
  BY <1>1, <1>5, HeldTask DEF IInv, OneHolder, t
<1>15. CpuShape'
  <2> SUFFICES ASSUME NEW d \in Cpus PROVE
         /\ pc'[d] = "idle" <=> cur[d] = NoTask
         /\ pc'[d] = "fetched" => status'[cur[d]] = "Ready"
         /\ pc'[d] = "running" => status'[cur[d]] = "Running"
         /\ pc'[d] = "back" => status'[cur[d]] \in {"Ready", "Dying"}
         /\ pc'[d] = "reparent" => status'[cur[d]] = "Dying"
         /\ pc'[d] \in {"sigchld", "logoff", "release"} => status'[cur[d]] = "Zombie"
    BY <1>2 DEF CpuShape
  <2>1. CASE d = c
    BY <2>1, <1>1, <1>7, <1>8 DEF t
  <2>2. CASE d # c
    BY <2>2, <1>7, <1>8, <1>14 DEF IInv, CpuShape
  <2> QED
    BY <2>1, <2>2
<1>16. OneHolder'
  BY <1>1, <1>2, <1>5, <1>7, HoldersFrame DEF IInv, OneHolder, Alive
<1>17. KidsExist'
  <2>1. \A q \in TCBs : \A x \in kids'[q] : Exists(x)'
    BY <1>4, <1>5, <1>10, Types DEF IInv, KidsExist
  <2>2. ASSUME NEW d \in Cpus, todo'[d] # {} PROVE pc'[d] = "reparent" /\ todo'[d] \subseteq kids'[cur'[d]]
    <3>1. pc[d] = "reparent" /\ todo[d] \subseteq kids[cur[d]] /\ d # c
      BY <2>2, <1>2 DEF IInv, KidsExist
    <3> QED
      BY <3>1, <1>2, <1>4, <1>8, <1>14
  <2> QED
    BY <2>1, <2>2 DEF KidsExist
<1>18. TableLive'
  <2> SUFFICES ASSUME NEW i \in Tids, table[i] # NoTask
               PROVE  \/ status'[table[i]] \in Alive
                      \/ \E d \in Cpus : cur[d] = table[i] /\ pc'[d] \in {"sigchld", "logoff"}
    BY <1>2 DEF TableLive
  <2>1. table[i] \in TCBs /\ table[i] \notin D
    BY <1>6, Types
  <2>2. CASE table[i] = t
    BY <2>2, <1>8 DEF t
  <2>3. CASE table[i] # t
    BY <2>1, <2>3, <1>7, <1>8, <1>1 DEF IInv, TableLive
  <2> QED
    BY <2>2, <2>3
<1>. QED
  BY <1>11, <1>12, <1>13, <1>15, <1>16, <1>17, <1>18 DEF IInv

(* The tid leaves the signal table.                                        *)
LEMMA LogoffStep == ASSUME IInv, NEW c \in Cpus, Logoff(c) PROVE IInv'
<1> DEFINE t == cur[c]
<1>1. t \in TCBs /\ t # NoTask /\ status[t] = "Zombie" /\ pc[c] = "logoff" /\ tid[t] \in Tids
  BY HeldTask, Types DEF Logoff, IInv, CpuShape
<1>2. /\ UNCHANGED <<status, tid, kids, queue, cur, todo, freeTids>>
      /\ table' \in [Tids -> TCBs \cup {NoTask}]
      /\ \A i \in Tids : table'[i] = IF i = tid[t] THEN NoTask ELSE table[i]
      /\ pc' \in [Cpus -> {"idle", "fetched", "running", "back", "reparent",
                           "sigchld", "logoff", "release"}]
      /\ \A d \in Cpus : pc'[d] = IF d = c THEN "release" ELSE pc[d]
  BY <1>1, Types DEF Logoff, LogoffKey, idVars
<1>3. TypeOK'
  <2>1. cleared' \in SUBSET TCBs
    BY <1>1 DEF Logoff, IInv, TypeOK
  <2> QED
    BY <2>1, <1>2 DEF Logoff, IInv, TypeOK, idVars, testVars
<1>4. CpuShape'
  BY <1>1, <1>2 DEF IInv, CpuShape
<1>5. OneHolder'
  BY <1>2, HoldersFrame DEF IInv, OneHolder
<1>6. KidsExist' /\ TidUnique'
  BY <1>1, <1>2 DEF IInv, KidsExist, TidUnique, Exists
<1>7. TableExact'
  <2>1. \A x \in TCBs : status[x] \in {"Ready", "Running"} => tid[x] \in Tids /\ tid[x] # tid[t]
    BY <1>1, Types DEF IInv, TidUnique, Exists
  <2> QED
    BY <2>1, <1>1, <1>2 DEF IInv, TableExact, Exists
<1>8. TableLive'
  <2> SUFFICES ASSUME NEW i \in Tids, table'[i] # NoTask
               PROVE  \/ status[table'[i]] \in Alive
                      \/ \E d \in Cpus : cur[d] = table'[i] /\ pc'[d] \in {"sigchld", "logoff"}
    BY <1>2 DEF TableLive
  <2>1. table'[i] = table[i] /\ i # tid[t] /\ tid[table[i]] = i
    BY <1>2 DEF IInv, TableExact
  <2>2. table[i] # t
    BY <2>1
  <2> QED
    BY <2>1, <2>2, <1>2 DEF IInv, TableLive
<1>. QED
  BY <1>3, <1>4, <1>5, <1>6, <1>7, <1>8 DEF IInv

(* The core drops its reference, perhaps the last one.                     *)
LEMMA ReleaseStep == ASSUME IInv, NEW c \in Cpus, Release(c) PROVE IInv'
<1> DEFINE t == cur[c]  curNext == [cur EXCEPT ![c] = NoTask]  D == Dead({t}, curNext, kids)
<1>1. t \in TCBs /\ t # NoTask /\ Held(t) /\ ~Queued(t) /\ status[t] = "Zombie" /\ pc[c] = "release"
  BY HeldTask DEF Release, IInv, CpuShape
<1>2. /\ cur' = curNext /\ UNCHANGED <<tid, kids, queue, todo, table>>
      /\ status' = [x \in TCBs |-> IF x \in D THEN "freed" ELSE status[x]]
      /\ freeTids' = FreeTidsOf(D) /\ pending' = pending \ D
      /\ pc' = [pc EXCEPT ![c] = "idle"]
  BY DEF Release, idVars
<1>3. D \in SUBSET {t} /\ \A x \in D : \A p \in TCBs : x \notin kids[p]
  BY DEF Dead
<1>4. \A d \in Cpus : cur[d] = t => d = c
  BY <1>1 DEF IInv, OneHolder, t
<1>5. \A i \in Tids : table[i] # t
  BY <1>1, <1>4, ZombieNotInTable
<1>6. /\ \A d \in Cpus : cur'[d] = IF d = c THEN NoTask ELSE cur[d]
      /\ \A d \in Cpus : pc'[d] = IF d = c THEN "idle" ELSE pc[d]
      /\ cur' \in [Cpus -> TCBs \cup {NoTask}]
      /\ pc' \in [Cpus -> {"idle", "fetched", "running", "back", "reparent",
                           "sigchld", "logoff", "release"}]
  BY <1>2, Types
<1> HIDE DEF t, curNext, D
<1>7. \A x \in TCBs : status'[x] = IF x \in D THEN "freed" ELSE status[x]
  BY <1>2
<1>8. \A x \in TCBs : Exists(x)' <=> Exists(x) /\ x \notin D
  BY <1>7 DEF Exists
<1>9. TidUnique' /\ freeTids' \in SUBSET Tids
  BY <1>1, <1>2, <1>3, <1>8, FreeingKeepsTids DEF Exists
<1>10. TableExact'
  BY <1>1, <1>2, <1>3, <1>5, <1>7, <1>8, FreeingKeepsTable
<1>11. TypeOK'
  <2>1. status' \in [TCBs -> Statuses]
    BY <1>2, Types DEF Statuses
  <2> QED
    BY <2>1, <1>2, <1>6, <1>9 DEF Release, IInv, TypeOK, idVars, testVars
<1>12. CpuShape'
  BY <1>3, <1>4, <1>6, <1>7, Types DEF IInv, CpuShape
<1>13. OneHolder'
  <2>1. \A x : Queued(x)' <=> Queued(x)
    BY <1>2 DEF Queued
  <2>2. \A x \in TCBs : Held(x)' <=> Held(x) /\ x # t
    BY <1>4, <1>6, Constants DEF Held, t
  <2>3. \A d, e \in Cpus : cur'[d] = cur'[e] /\ cur'[d] # NoTask => d = e
    BY <1>6 DEF IInv, OneHolder
  <2> QED
    BY <2>1, <2>2, <2>3, <1>1, <1>2, <1>3, <1>7 DEF IInv, OneHolder, Alive
<1>14. KidsExist'
  <2>1. \A p \in TCBs : \A x \in kids'[p] : Exists(x)'
    BY <1>2, <1>3, <1>8, Types DEF IInv, KidsExist
  <2>2. \A d \in Cpus : todo'[d] # {} => pc'[d] = "reparent" /\ todo'[d] \subseteq kids'[cur'[d]]
    BY <1>1, <1>2, <1>6 DEF IInv, KidsExist
  <2> QED
    BY <2>1, <2>2 DEF KidsExist
<1>15. TableLive'
  <2> SUFFICES ASSUME NEW i \in Tids, table[i] # NoTask
               PROVE  \/ status'[table[i]] \in Alive
                      \/ \E d \in Cpus : cur'[d] = table[i] /\ pc'[d] \in {"sigchld", "logoff"}
    BY <1>2 DEF TableLive
  <2>1. table[i] \in TCBs /\ table[i] # t /\ status'[table[i]] = status[table[i]]
    BY <1>3, <1>5, <1>7, Types
  <2> QED
    BY <2>1, <1>1, <1>6 DEF IInv, TableLive
<1>. QED
  BY <1>9, <1>10, <1>11, <1>12, <1>13, <1>14, <1>15 DEF IInv

-----------------------------------------------------------------------------
(* The kernel starts in the invariant.                                     *)
LEMMA InitIInv == Init => IInv
<1> SUFFICES ASSUME Init PROVE IInv
  OBVIOUS
<1>1. TypeOK
  BY Constants, TidsNat DEF Init, TypeOK, Statuses
<1>2. OneHolder /\ CpuShape
  BY Constants DEF Init, OneHolder, CpuShape, Queued, Held, Alive
<1>3. KidsExist /\ TidUnique /\ TableExact /\ TableLive
  BY Constants, TidsNat DEF Init, KidsExist, TidUnique, TableExact, TableLive, Exists, Alive
<1>. QED
  BY <1>1, <1>2, <1>3 DEF IInv

(* Every step keeps it.                                                    *)
LEMMA NextIInv == IInv /\ [Next]_vars => IInv'
<1> SUFFICES ASSUME IInv, [Next]_vars PROVE IInv'
  OBVIOUS
<1>1. ASSUME NEW c \in Cpus, Kernel(c) PROVE IInv'
  BY <1>1, FetchStep, LoadNextTestcaseStep, FinalInfoStep, PushBlockedStep, DispatchStep,
     PushBackStep, StartZombieStep, ReparentStep, BuryStep, SendSigchldStep, LogoffStep,
     ReleaseStep DEF Kernel
<1>2. ASSUME NEW c \in Cpus, Wait4(c) PROVE IInv'
  BY <1>2, ReapStep, WaitSuspendStep DEF Wait4
<1>3. ASSUME NEW c \in Cpus, Program(c) PROVE IInv'
  BY <1>3, YieldStep, FutexWaitStep, TakeSigchldStep, ExecStep, ExitStep, CloneStep,
     TidExhaustedStep DEF Program
<1>4. ASSUME NEW i \in Tids, TimeOut(i) PROVE IInv'
  BY <1>4, TimeOutStep
<1>5. CASE UNCHANGED vars
  <2>1. TypeOK'
    BY <1>5 DEF IInv, TypeOK, vars, idVars, cpuVars, testVars
  <2> QED
    BY <1>5, <2>1, QuietStep DEF vars, idVars, cpuVars
<1>. QED
  BY <1>1, <1>2, <1>3, <1>4, <1>5 DEF Next

(* Everything the kernel can reach satisfies the inductive invariant.      *)
THEOREM Inductive == Spec => []IInv
BY InitIInv, NextIInv, PTL DEF Spec

(* Types, of every variable, in every reachable state.                     *)
THEOREM Typing == Spec => []TypeOK
<1>1. IInv => TypeOK
  BY DEF IInv
<1>. QED
  BY <1>1, Inductive, PTL

(* The run queue and the cores never share a task and never lose one: what *)
(* TaskControlBlock's comment trusts when it leaves the block unlocked.    *)
THEOREM HoldersDisjoint == Spec => []OneHolder
<1>1. IInv => OneHolder
  BY DEF IInv
<1>. QED
  BY <1>1, Inductive, PTL

(* No tid is handed out while a block that has it can still be reached.    *)
THEOREM TidsUnique == Spec => []TidUnique
<1>1. IInv => TidUnique
  BY DEF IInv
<1>. QED
  BY <1>1, Inductive, PTL

(* A signal sent to a tid reaches the task that has it now, if any has.    *)
THEOREM SignalTableExact == Spec => []TableExact
<1>1. IInv => TableExact
  BY DEF IInv
<1>. QED
  BY <1>1, Inductive, PTL

-----------------------------------------------------------------------------
(***************************************************************************)
(* Families: which address spaces are still in use, who reaps a zombie,    *)
(* whom getppid and SIGCHLD mean, and which test case a verdict is about.  *)
(* All of it rests on IInv, and each theorem adds an invariant of its own. *)
(*                                                                         *)
(* The steps of Tasks are first sorted by what they do to families: most   *)
(* are calm, a few begin or end a life, and each of those has a lemma that *)
(* says what it leaves behind.                                             *)
(***************************************************************************)

(* Where a core's task is on its way out of the kernel.                    *)
Late == ZombiePc \cup {"release"}

(* No core enters, leaves or moves along that way.                         *)
LateSame ==
  \A c \in Cpus : \/ pc'[c] = pc[c] /\ cur'[c] = cur[c]
                  \/ pc[c] \notin Late /\ pc'[c] \notin Late

(* A step that no family notices; a running task may begin to die.         *)
Calm ==
  /\ UNCHANGED <<tid, pid, vm, ppid, kids, todo, table, cleared, now, loaded, verdicts>>
  /\ \A t \in TCBs : \/ status'[t] = status[t]
                     \/ status[t] \in {"Ready", "Running"} /\ status'[t] \in Alive
  /\ LateSame

(* Lives go one way, and none begins.                                      *)
Ages ==
  \A t \in TCBs :
    /\ status'[t] = "unborn" <=> status[t] = "unborn"
    /\ Exists(t)' => Exists(t)
    /\ status'[t] \in Alive => status[t] \in Alive
    /\ status'[t] \in {"Ready", "Running"} => status[t] \in {"Ready", "Running"}

-----------------------------------------------------------------------------
(* The kinds of steps.                                                     *)

(* What the scheduler, time and most system calls do is calm.              *)
LEMMA CalmSteps ==
  ASSUME IInv, NEW c \in Cpus,
         \/ Fetch(c) \/ FinalInfo(c) \/ PushBlocked(c) \/ Dispatch(c) \/ PushBack(c)
         \/ WaitSuspend(c) \/ Yield(c) \/ FutexWait(c) \/ TakeSigchld(c) \/ Exec(c)
         \/ Exit(c) \/ TidExhausted(c)
  PROVE  Calm
<1> USE Types DEF Calm, LateSame, Late, ZombiePc, Alive, idVars, testVars, cpuVars
<1>1. CASE Fetch(c)
  BY <1>1 DEF Fetch
<1>2. CASE FinalInfo(c)
  BY <1>2 DEF FinalInfo
<1>3. CASE PushBlocked(c)
  BY <1>3 DEF PushBlocked
<1>4. CASE Dispatch(c)
  BY <1>4 DEF Dispatch, IInv, CpuShape
<1>5. CASE PushBack(c)
  BY <1>5 DEF PushBack
<1>6. CASE WaitSuspend(c)
  BY <1>6 DEF WaitSuspend, Suspend, IInv, CpuShape
<1>7. CASE Yield(c)
  BY <1>7 DEF Yield, Suspend, InUser, IInv, CpuShape
<1>8. CASE FutexWait(c)
  BY <1>8 DEF FutexWait, Suspend, InUser, IInv, CpuShape
<1>9. CASE TakeSigchld(c)
  BY <1>9 DEF TakeSigchld
<1>10. CASE Exec(c)
  BY <1>10 DEF Exec
<1>11. CASE Exit(c)
  BY <1>11 DEF Exit, InUser, IInv, CpuShape
<1>12. CASE TidExhausted(c)
  BY <1>12 DEF TidExhausted
<1>. QED
  BY <1>1, <1>2, <1>3, <1>4, <1>5, <1>6, <1>7, <1>8, <1>9, <1>10, <1>11, <1>12

(* Time and standing still are calm.                                       *)
LEMMA CalmRest ==
  ASSUME IInv, (\E i \in Tids : TimeOut(i)) \/ UNCHANGED vars
  PROVE  Calm
BY DEF Calm, LateSame, TimeOut, vars, idVars, testVars, cpuVars

(* So a step is calm or one of nine others.                                *)
LEMMA Sorted ==
  ASSUME IInv, [Next]_vars
  PROVE  \/ Calm
         \/ \E c \in Cpus :
              \/ LoadNextTestcase(c) \/ \E k \in CloneKinds : Clone(c, k)
              \/ StartZombie(c) \/ Reparent(c) \/ Bury(c) \/ SendSigchld(c)
              \/ Logoff(c) \/ Release(c) \/ Reap(c)
BY CalmSteps, CalmRest DEF Next, Kernel, Wait4, Program

(* A calm step changes no life.                                            *)
LEMMA CalmAges == ASSUME Calm PROVE Ages
BY DEF Calm, Ages, Exists, Alive

(* What a new block looks like, and that nobody knew it.                   *)
LEMMA Birth ==
  ASSUME IInv, NEW u \in TCBs, status[u] = "unborn", NEW i \in freeTids,
         NEW p, NEW x, NEW v, NEW q, NewBlock(u, i, p, x, v, q)
  PROVE  /\ i \in Tids
         /\ \A t \in TCBs : status'[t] = IF t = u THEN "Ready" ELSE status[t]
         /\ \A t \in TCBs : tid'[t] = IF t = u THEN i ELSE tid[t]
         /\ \A t \in TCBs : pid'[t] = IF t = u THEN p ELSE pid[t]
         /\ \A t \in TCBs : vm'[t] = IF t = u THEN v ELSE vm[t]
         /\ \A t \in TCBs : ppid'[t] = IF t = u THEN q ELSE ppid[t]
         /\ \A j \in Tids : table'[j] = IF j = i THEN u ELSE table[j]
         /\ \A t \in TCBs : u \notin kids[t]
         /\ \A c \in Cpus : cur[c] # u
<1> USE DEF NewBlock
<1>1. /\ i \in Tids
      /\ \A t \in TCBs : status'[t] = IF t = u THEN "Ready" ELSE status[t]
      /\ \A t \in TCBs : tid'[t] = IF t = u THEN i ELSE tid[t]
      /\ \A j \in Tids : table'[j] = IF j = i THEN u ELSE table[j]
  BY Types
<1>2. /\ \A t \in TCBs : pid'[t] = IF t = u THEN p ELSE pid[t]
      /\ \A t \in TCBs : vm'[t] = IF t = u THEN v ELSE vm[t]
      /\ \A t \in TCBs : ppid'[t] = IF t = u THEN q ELSE ppid[t]
  BY DEF IInv, TypeOK
<1>3. \A t \in TCBs : u \notin kids[t]
  BY DEF IInv, KidsExist, Exists
<1>4. ASSUME NEW c \in Cpus, cur[c] = u PROVE FALSE
  <2>1. pc[c] # "idle"
    BY <1>4, Constants DEF IInv, CpuShape
  <2>2. status[u] \in {"Ready", "Running", "Dying", "Zombie"}
    BY <2>1, <1>4, Types DEF IInv, CpuShape
  <2> QED
    BY <2>2
<1>. QED
  BY <1>1, <1>2, <1>3, <1>4

(* The two steps that begin a life.                                        *)
LEMMA LoadedBlock ==
  ASSUME NEW c \in Cpus, LoadNextTestcase(c)
  PROVE  /\ Fresh \in TCBs /\ status[Fresh] = "unborn"
         /\ \E i \in freeTids : \E x : NewBlock(Fresh, i, i, x, Fresh, NoParent)
<1>1. PICK i \in Tids : Allocates(i) /\ NewBlock(Fresh, i, i, TRUE, Fresh, NoParent)
  BY DEF LoadNextTestcase
<1>2. i \in freeTids /\ \E x : NewBlock(Fresh, i, i, x, Fresh, NoParent)
  BY <1>1 DEF Allocates
<1>. QED
  BY <1>2, FreshUnborn DEF LoadNextTestcase

(* The child's address space is its own or its maker's.                    *)
LEMMA ClonedBlock ==
  ASSUME IInv, NEW c \in Cpus, NEW k \in CloneKinds, Clone(c, k)
  PROVE  /\ Fresh \in TCBs /\ status[Fresh] = "unborn"
         /\ cur[c] \in TCBs /\ pc[c] = "running" /\ status[cur[c]] = "Running"
         /\ \E i \in freeTids : \E p, x, v :
              /\ NewBlock(Fresh, i, p, x, v, PpidFor(cur[c], k))
              /\ v = Fresh \/ v = vm[cur[c]]
<1>1. PICK i \in Tids :
        /\ Allocates(i)
        /\ NewBlock(Fresh, i, IF k.thread THEN pid[cur[c]] ELSE i, k.chld,
                    IF k.vm THEN vm[cur[c]] ELSE Fresh, PpidFor(cur[c], k))
  BY DEF Clone
<1>2. i \in freeTids
  BY <1>1 DEF Allocates
<1>3. cur[c] \in TCBs /\ pc[c] = "running" /\ status[cur[c]] = "Running"
  BY HeldTask DEF Clone, InUser, IInv, CpuShape
<1> DEFINE p == IF k.thread THEN pid[cur[c]] ELSE i
           v == IF k.vm THEN vm[cur[c]] ELSE Fresh
<1>4. NewBlock(Fresh, i, p, k.chld, v, PpidFor(cur[c], k)) /\ (v = Fresh \/ v = vm[cur[c]])
  BY <1>1
<1> HIDE DEF p, v
<1>. QED
  BY <1>2, <1>3, <1>4, FreshUnborn DEF Clone

(* The last steps of a task leave lives as they are, or end one.           *)
LEMMA StartZombieEffect ==
  ASSUME IInv, NEW c \in Cpus, StartZombie(c)
  PROVE  /\ Ages /\ cur[c] \in TCBs /\ pc[c] = "back" /\ status[cur[c]] = "Dying"
         /\ UNCHANGED <<status, tid, pid, vm, ppid, kids, cur, table, cleared, now, loaded,
                        verdicts>>
         /\ \A d \in Cpus : pc'[d] = IF d = c THEN "reparent" ELSE pc[d]
         /\ \A d \in Cpus : todo'[d] = IF d = c THEN kids[cur[c]] ELSE todo[d]
<1>1. cur[c] \in TCBs
  BY HeldTask DEF StartZombie
<1>. QED
  BY <1>1, Types DEF StartZombie, Orphans, Ages, Exists, idVars, testVars

(* The signal is sent: nothing else happens to the task.                   *)
LEMMA SendSigchldEffect ==
  ASSUME IInv, NEW c \in Cpus, SendSigchld(c)
  PROVE  /\ Ages /\ pc[c] = "sigchld"
         /\ UNCHANGED <<status, tid, pid, vm, ppid, kids, cur, todo, table, cleared, now,
                        loaded, verdicts>>
         /\ \A d \in Cpus : pc'[d] = IF d = c THEN "logoff" ELSE pc[d]
BY Types DEF SendSigchld, Ages, Exists, idVars, testVars

(* The tid is no longer signalled, and the address space may be cleared.   *)
LEMMA LogoffEffect ==
  ASSUME IInv, NEW c \in Cpus, Logoff(c)
  PROVE  /\ Ages /\ pc[c] = "logoff" /\ cur[c] \in TCBs /\ status[cur[c]] = "Zombie"
         /\ UNCHANGED <<status, tid, pid, vm, ppid, kids, cur, todo, now, loaded, verdicts>>
         /\ \A d \in Cpus : pc'[d] = IF d = c THEN "release" ELSE pc[d]
         /\ \A i \in Tids : table'[i] = IF i = tid[cur[c]] THEN NoTask ELSE table[i]
         /\ \/ cleared' = cleared
            \/ /\ cleared' = cleared \cup {vm[cur[c]]}
               /\ Sharers(vm[cur[c]]) = {cur[c]}
<1>1. cur[c] \in TCBs /\ status[cur[c]] = "Zombie"
  BY HeldTask DEF Logoff, IInv, CpuShape
<1>. QED
  BY <1>1, Types DEF Logoff, LogoffKey, Ages, Exists, idVars, testVars

(* The block goes if nobody has it among its children.                     *)
LEMMA ReleaseEffect ==
  ASSUME IInv, NEW c \in Cpus, Release(c)
  PROVE  /\ Ages /\ pc[c] = "release" /\ cur[c] \in TCBs /\ status[cur[c]] = "Zombie"
         /\ UNCHANGED <<tid, pid, vm, ppid, kids, todo, table, cleared, now, loaded, verdicts>>
         /\ \A d \in Cpus : pc'[d] = IF d = c THEN "idle" ELSE pc[d]
         /\ \A d \in Cpus : cur'[d] = IF d = c THEN NoTask ELSE cur[d]
         /\ \A t \in TCBs : t # cur[c] => status'[t] = status[t]
         /\ \/ status'[cur[c]] = "freed"
            \/ /\ status'[cur[c]] = "Zombie"
               /\ IsOrigin(cur[c]) \/ \E p \in TCBs : cur[c] \in kids[p]
<1> DEFINE t == cur[c]  curNext == [cur EXCEPT ![c] = NoTask]  D == Dead({t}, curNext, kids)
<1>1. t \in TCBs /\ t # NoTask /\ ~Queued(t) /\ status[t] = "Zombie" /\ pc[c] = "release"
  BY HeldTask DEF Release, IInv, CpuShape
<1>2. /\ cur' = curNext
      /\ status' = [x \in TCBs |-> IF x \in D THEN "freed" ELSE status[x]]
      /\ pc' = [pc EXCEPT ![c] = "idle"]
      /\ UNCHANGED <<tid, pid, vm, ppid, kids, todo, table, cleared, now, loaded, verdicts>>
  BY DEF Release, idVars, testVars
<1>3. \A d \in Cpus : curNext[d] # t
  BY <1>1, Types, Constants DEF IInv, OneHolder
<1>4. \A i \in 1 .. Len(queue) : queue[i] # t
  BY <1>1 DEF Queued
<1>5. D = IF IsOrigin(t) \/ \E p \in TCBs : t \in kids[p] THEN {} ELSE {t}
  BY <1>3, <1>4 DEF Dead
<1> HIDE DEF t, D
<1>6. \A x \in TCBs : status'[x] = IF x \in D THEN "freed" ELSE status[x]
  BY <1>2
<1>7. /\ \A d \in Cpus : pc'[d] = IF d = c THEN "idle" ELSE pc[d]
      /\ \A d \in Cpus : cur'[d] = IF d = c THEN NoTask ELSE cur[d]
  BY <1>2, Types
<1>8. Ages
  BY <1>1, <1>5, <1>6 DEF Ages, Exists, Alive
<1>. QED
  BY <1>1, <1>2, <1>5, <1>6, <1>7, <1>8 DEF t

(* The child leaves the list, and goes if that was its last place.         *)
LEMMA ReapEffect ==
  ASSUME IInv, NEW c \in Cpus, Reap(c)
  PROVE  /\ Ages /\ cur[c] \in TCBs /\ status[cur[c]] = "Running"
         /\ UNCHANGED <<tid, pid, vm, ppid, pc, cur, todo, table, cleared, now, loaded, verdicts>>
         /\ \E u \in TCBs :
              /\ status[u] = "Zombie" /\ ~Locked(u)
              /\ \A q \in TCBs : kids'[q] = IF q = cur[c] THEN kids[q] \ {u} ELSE kids[q]
              /\ \A x \in TCBs : x # u => status'[x] = status[x]
              /\ \/ status'[u] = "freed"
                 \/ /\ status'[u] = "Zombie"
                    /\ Held(u) \/ IsOrigin(u) \/ \E q \in TCBs : u \in kids'[q]
<1> DEFINE t == cur[c]
<1>1. t \in TCBs /\ pc[c] = "running" /\ status[t] = "Running"
  BY HeldTask DEF Reap, IInv, CpuShape
<1>2. PICK p \in WaitArgs(t) : \E u \in Exited(t, p) :
        LET kidsNext == [kids EXCEPT ![t] = @ \ {u}]
            dead     == Dead({u}, cur, kidsNext)
        IN /\ kids' = kidsNext
           /\ status' = [x \in TCBs |-> IF x \in dead THEN "freed" ELSE status[x]]
           /\ freeTids' = FreeTidsOf(dead)
           /\ pending' = pending \ dead
  BY DEF Reap
<1>3. PICK u \in Exited(t, p) :
        LET kidsNext == [kids EXCEPT ![t] = @ \ {u}]
            dead     == Dead({u}, cur, kidsNext)
        IN /\ kids' = kidsNext
           /\ status' = [x \in TCBs |-> IF x \in dead THEN "freed" ELSE status[x]]
           /\ freeTids' = FreeTidsOf(dead)
           /\ pending' = pending \ dead
  BY <1>2
<1>4. u \in TCBs /\ status[u] = "Zombie" /\ ~Locked(u)
  BY <1>1, Types DEF Exited, Named
<1> DEFINE D == Dead({u}, cur, kids')
<1>5. /\ kids' = [kids EXCEPT ![t] = @ \ {u}]
      /\ status' = [x \in TCBs |-> IF x \in D THEN "freed" ELSE status[x]]
  BY <1>3
<1>6. \A q \in TCBs : kids'[q] = IF q = t THEN kids[q] \ {u} ELSE kids[q]
  BY <1>1, <1>5, Types
<1>7. ~Queued(u)
  BY <1>4 DEF IInv, OneHolder
<1>8. D = IF Held(u) \/ IsOrigin(u) \/ \E q \in TCBs : u \in kids'[q] THEN {} ELSE {u}
  BY <1>7 DEF Dead, Queued, Held
<1> HIDE DEF D
<1>9. \A x \in TCBs : status'[x] = IF x \in D THEN "freed" ELSE status[x]
  BY <1>5
<1>10. Ages
  BY <1>4, <1>8, <1>9 DEF Ages, Exists, Alive
<1>11. UNCHANGED <<tid, pid, vm, ppid, pc, cur, todo, table, cleared, now, loaded, verdicts>>
  BY DEF Reap, idVars, cpuVars, testVars
<1> HIDE DEF t
<1>12. \/ status'[u] = "freed"
       \/ /\ status'[u] = "Zombie"
          /\ Held(u) \/ IsOrigin(u) \/ \E q \in TCBs : u \in kids'[q]
  BY <1>4, <1>8, <1>9
<1>13. \A x \in TCBs : x # u => status'[x] = status[x]
  BY <1>8, <1>9
<1>. QED
  BY <1>1, <1>4, <1>6, <1>10, <1>11, <1>12, <1>13 DEF t

(* The dead task's list is emptied: zombies nobody else has go with it.    *)
LEMMA BuryEffect ==
  ASSUME IInv, NEW c \in Cpus, Bury(c)
  PROVE  /\ Ages /\ pc[c] = "reparent" /\ todo[c] = {}
         /\ cur[c] \in TCBs /\ status[cur[c]] = "Dying" /\ status'[cur[c]] = "Zombie"
         /\ UNCHANGED <<tid, pid, vm, ppid, cur, todo, table, cleared, loaded>>
         /\ now' = NowAfter(cur[c])
         /\ verdicts' = IF Judged(cur[c]) THEN [verdicts EXCEPT ![now] = @ + 1] ELSE verdicts
         /\ \A d \in Cpus : IF d = c THEN pc'[d] \in {"sigchld", "logoff"} ELSE pc'[d] = pc[d]
         /\ \A q \in TCBs : kids'[q] = IF q = cur[c] THEN {} ELSE kids[q]
         /\ \A x \in TCBs : x # cur[c] =>
              \/ status'[x] = status[x]
              \/ status[x] = "Zombie" /\ status'[x] = "freed"
         /\ \A x \in kids[cur[c]] : x # cur[c] /\ status'[x] = "Zombie" =>
              Held(x) \/ IsOrigin(x) \/ \E q \in TCBs : x \in kids'[q]
<1> DEFINE t == cur[c]  D == Dead(kids[t], cur, KidsCleared(t))
<1>1. t \in TCBs /\ pc[c] = "reparent" /\ todo[c] = {} /\ status[t] = "Dying" /\ Held(t)
  BY HeldTask DEF Bury, IInv, CpuShape
<1>2. /\ kids' = KidsCleared(t)
      /\ status' = [x \in TCBs |-> IF x = t THEN "Zombie"
                                   ELSE IF x \in D THEN "freed" ELSE status[x]]
      /\ pc' = [pc EXCEPT ![c] = IF chld[t] \/ pid[t] = tid[t] THEN "sigchld" ELSE "logoff"]
      /\ now' = NowAfter(t)
      /\ verdicts' = IF Judged(t) THEN [verdicts EXCEPT ![now] = @ + 1] ELSE verdicts
      /\ UNCHANGED <<tid, pid, vm, ppid, cur, todo, table, cleared, loaded>>
  BY DEF Bury, idVars
<1>3. \A q \in TCBs : kids'[q] = IF q = t THEN {} ELSE kids[q]
  BY <1>1, <1>2, Types DEF KidsCleared
<1>4. kids[t] \in SUBSET TCBs /\ \A x \in kids[t] : Exists(x)
  BY <1>1, Types DEF IInv, KidsExist
<1>5. D = Dead(kids[t], cur, kids')
  BY <1>2
<1> HIDE DEF D
<1>6. \A x \in D : x \in kids[t] /\ status[x] = "Zombie"
  BY <1>4, <1>5, DeadFacts
<1>7. \A x \in kids[t] : x \notin D =>
        Queued(x) \/ Held(x) \/ IsOrigin(x) \/ \E q \in TCBs : x \in kids'[q]
  BY <1>5 DEF Dead, Queued, Held
<1>8. \A x \in TCBs : status'[x] = IF x = t THEN "Zombie"
                                   ELSE IF x \in D THEN "freed" ELSE status[x]
  BY <1>2
<1>9. \A d \in Cpus : IF d = c THEN pc'[d] \in {"sigchld", "logoff"} ELSE pc'[d] = pc[d]
  BY <1>2, Types
<1> HIDE DEF t
<1>10. Ages
  BY <1>1, <1>6, <1>8 DEF Ages, Exists, Alive
<1>11. \A x \in kids[t] : x # t /\ status'[x] = "Zombie" =>
         Held(x) \/ IsOrigin(x) \/ \E q \in TCBs : x \in kids'[q]
  <2> SUFFICES ASSUME NEW x \in kids[t], x # t, status'[x] = "Zombie"
               PROVE  Held(x) \/ IsOrigin(x) \/ \E q \in TCBs : x \in kids'[q]
    OBVIOUS
  <2>1. x \in TCBs /\ x \notin D /\ status[x] = "Zombie"
    BY <1>4, <1>8
  <2>2. ~Queued(x)
    BY <2>1 DEF IInv, OneHolder
  <2> QED
    BY <2>1, <2>2, <1>7
<1>12. \A x \in TCBs : x # t => \/ status'[x] = status[x]
                                \/ status[x] = "Zombie" /\ status'[x] = "freed"
  BY <1>6, <1>8
<1>. QED
  BY <1>1, <1>2, <1>3, <1>8, <1>9, <1>10, <1>11, <1>12 DEF t

(* One child gets a new parent, or none.                                   *)
LEMMA ReparentEffect ==
  ASSUME IInv, NEW c \in Cpus, Reparent(c)
  PROVE  /\ Ages /\ pc[c] = "reparent" /\ cur[c] \in TCBs /\ todo[c] \subseteq kids[cur[c]]
         /\ UNCHANGED <<status, tid, pid, vm, pc, cur, table, cleared, now, loaded, verdicts>>
         /\ \E u \in todo[c] :
              /\ u \in TCBs
              /\ \A d \in Cpus : todo'[d] = IF d = c THEN todo[d] \ {u} ELSE todo[d]
              /\ \/ /\ TestEnv \/ ppid[cur[c]] = NoParent
                    /\ \A x \in TCBs : ppid'[x] = IF x = u THEN NoParent ELSE ppid[x]
                    /\ kids' = kids
                 \/ /\ ~TestEnv
                    /\ \A x \in TCBs : ppid'[x] = IF x = u THEN 0 ELSE ppid[x]
                    /\ \A q \in TCBs : kids'[q] = IF q = Root THEN kids[q] \cup {u} ELSE kids[q]
<1>1. /\ pc[c] = "reparent" /\ cur[c] \in TCBs
      /\ UNCHANGED <<status, tid, pid, vm, pc, cur, table, cleared, now, loaded, verdicts>>
  BY HeldTask DEF Reparent, idVars, testVars
<1>2. PICK u \in todo[c] :
        /\ \/ /\ ppid[cur[c]] = NoParent \/ TestEnv
              /\ ppid' = [ppid EXCEPT ![u] = NoParent]
              /\ UNCHANGED kids
           \/ /\ ~(ppid[cur[c]] = NoParent \/ TestEnv)
              /\ ppid' = [ppid EXCEPT ![u] = 0]
              /\ kids' = [kids EXCEPT ![Root] = @ \cup {u}]
        /\ todo' = [todo EXCEPT ![c] = @ \ {u}]
  BY DEF Reparent
<1>3. todo[c] \subseteq kids[cur[c]] /\ u \in TCBs
  BY <1>1, <1>2, Types DEF IInv, KidsExist
<1>4. \A d \in Cpus : todo'[d] = IF d = c THEN todo[d] \ {u} ELSE todo[d]
  BY <1>2, Types
<1>5. \/ /\ TestEnv \/ ppid[cur[c]] = NoParent
         /\ \A x \in TCBs : ppid'[x] = IF x = u THEN NoParent ELSE ppid[x]
         /\ kids' = kids
      \/ /\ ~TestEnv
         /\ \A x \in TCBs : ppid'[x] = IF x = u THEN 0 ELSE ppid[x]
         /\ \A q \in TCBs : kids'[q] = IF q = Root THEN kids[q] \cup {u} ELSE kids[q]
  <2>1. ppid \in [TCBs -> Tids \cup {0, NoParent}]
    BY DEF IInv, TypeOK
  <2> QED
    BY <1>2, <2>1, Constants, Types
<1>6. Ages
  BY <1>1 DEF Ages, Exists
<1>. QED
  BY <1>1, <1>3, <1>4, <1>5, <1>6

-----------------------------------------------------------------------------
(* Address spaces.  clear_user asks how many blocks share the memory set,  *)
(* and a clone adds one: it must not do so after the count was taken.      *)

(* No address space is named after a block that does not exist yet, so a   *)
(* block that is created finds its own name unused.                        *)
VmNamed ==
  /\ \A t \in TCBs : Exists(t) => status[vm[t]] # "unborn"
  /\ \A v \in cleared : v \in TCBs /\ status[v] # "unborn"

VmInv == IInv /\ VmNamed /\ VmKept

(* A new block has its own address space, or that of a running task.       *)
LEMMA VmBirth ==
  ASSUME VmInv, NEW u \in TCBs, status[u] = "unborn", NEW i \in freeTids,
         NEW p, NEW x, NEW v, NEW q, NewBlock(u, i, p, x, v, q), cleared' = cleared,
         v = u \/ \E t \in TCBs : status[t] = "Running" /\ v = vm[t]
  PROVE  VmNamed' /\ VmKept'
<1>1. /\ \A t \in TCBs : status'[t] = IF t = u THEN "Ready" ELSE status[t]
      /\ \A t \in TCBs : vm'[t] = IF t = u THEN v ELSE vm[t]
  BY Birth DEF VmInv
<1>2. v \in TCBs /\ v \notin cleared /\ (v = u \/ status[v] # "unborn")
  BY DEF VmInv, VmNamed, VmKept, Exists, IInv, TypeOK
<1>3. \A t \in TCBs : vm[t] \in TCBs
  BY DEF VmInv, IInv, TypeOK
<1>4. VmNamed'
  <2>1. ASSUME NEW t \in TCBs, Exists(t)' PROVE status'[vm'[t]] # "unborn"
    <3>1. CASE t = u
      BY <3>1, <1>1, <1>2
    <3>2. CASE t # u
      BY <2>1, <3>2, <1>1, <1>3 DEF VmInv, VmNamed, Exists
    <3> QED
      BY <3>1, <3>2
  <2>2. \A w \in cleared' : w \in TCBs /\ status'[w] # "unborn"
    BY <1>1 DEF VmInv, VmNamed
  <2> QED
    BY <2>1, <2>2 DEF VmNamed
<1>5. VmKept'
  BY <1>1, <1>2 DEF VmInv, VmKept
<1>. QED
  BY <1>4, <1>5

(* Everything else keeps names, and clears only what nobody can run in.    *)
LEMMA VmStep == VmInv /\ [Next]_vars => VmInv'
<1> SUFFICES ASSUME VmInv, [Next]_vars PROVE VmNamed' /\ VmKept'
  BY NextIInv DEF VmInv
<1>0. IInv
  BY DEF VmInv
<1>1. ASSUME Ages, vm' = vm, cleared' = cleared PROVE VmNamed' /\ VmKept'
  <2>1. \A t \in TCBs : vm[t] \in TCBs
    BY <1>0 DEF IInv, TypeOK
  <2> QED
    BY <1>1, <2>1 DEF VmInv, VmNamed, VmKept, Ages
<1>2. CASE Calm
  BY <1>1, <1>2, CalmAges DEF Calm
<1>3. ASSUME NEW c \in Cpus, LoadNextTestcase(c) PROVE VmNamed' /\ VmKept'
  <2>1. cleared' = cleared
    BY <1>3 DEF LoadNextTestcase
  <2> QED
    BY <1>3, <2>1, LoadedBlock, VmBirth
<1>4. ASSUME NEW c \in Cpus, NEW k \in CloneKinds, Clone(c, k) PROVE VmNamed' /\ VmKept'
  <2>1. cleared' = cleared
    BY <1>4 DEF Clone
  <2>2. PICK i \in freeTids : \E p, x, v :
          /\ NewBlock(Fresh, i, p, x, v, PpidFor(cur[c], k))
          /\ v = Fresh \/ v = vm[cur[c]]
    BY <1>0, <1>4, ClonedBlock
  <2>3. PICK p, x, v : /\ NewBlock(Fresh, i, p, x, v, PpidFor(cur[c], k))
                       /\ v = Fresh \/ v = vm[cur[c]]
    BY <2>2
  <2>4. /\ Fresh \in TCBs /\ status[Fresh] = "unborn"
        /\ v = Fresh \/ \E t \in TCBs : status[t] = "Running" /\ v = vm[t]
    BY <1>0, <1>4, <2>3, ClonedBlock
  <2> QED
    BY <2>1, <2>3, <2>4, VmBirth
<1>5. ASSUME NEW c \in Cpus, Logoff(c) PROVE VmNamed' /\ VmKept'
  <2>1. /\ Ages /\ cur[c] \in TCBs /\ status[cur[c]] = "Zombie" /\ vm' = vm /\ status' = status
        /\ \/ cleared' = cleared
           \/ cleared' = cleared \cup {vm[cur[c]]} /\ Sharers(vm[cur[c]]) = {cur[c]}
    BY <1>0, <1>5, LogoffEffect
  <2>2. CASE cleared' = cleared
    BY <1>1, <2>1, <2>2
  <2>3. CASE cleared' = cleared \cup {vm[cur[c]]} /\ Sharers(vm[cur[c]]) = {cur[c]}
    <3>1. vm[cur[c]] \in TCBs /\ status[vm[cur[c]]] # "unborn"
      BY <1>0, <2>1 DEF VmInv, VmNamed, Exists, IInv, TypeOK
    <3>2. \A t \in TCBs : status[t] \in {"Ready", "Running"} => vm[t] # vm[cur[c]]
      BY <2>1, <2>3 DEF Sharers, Exists
    <3> QED
      BY <2>1, <2>3, <3>1, <3>2 DEF VmInv, VmNamed, VmKept, Exists
  <2> QED
    BY <2>1, <2>2, <2>3
<1>6. ASSUME NEW c \in Cpus, \/ StartZombie(c) \/ Reparent(c) \/ Bury(c) \/ SendSigchld(c)
                             \/ Release(c) \/ Reap(c)
      PROVE  VmNamed' /\ VmKept'
  BY <1>0, <1>1, <1>6, StartZombieEffect, ReparentEffect, BuryEffect, SendSigchldEffect,
     ReleaseEffect, ReapEffect
<1>. QED
  BY <1>0, <1>2, <1>3, <1>4, <1>5, <1>6, Sorted

(* A task that can still run never loses its address space to the early    *)
(* clear_user of another one, on any number of cores and for any flags.    *)
THEOREM SpacesKept == Spec => []VmKept
<1>1. Init => VmInv
  BY InitIInv, Constants DEF Init, VmInv, VmNamed, VmKept, Exists
<1>2. VmInv => VmKept
  BY DEF VmInv
<1>. QED
  BY <1>1, <1>2, VmStep, PTL DEF Spec

-----------------------------------------------------------------------------
(* Zombies.  With no origin process that stays, what a dying orphan's      *)
(* parent hands to it would be lost; the theorem assumes it stays.         *)

(* Only a living task has children, the origin process lives, and a zombie *)
(* that no core is busy with is somebody's child.                          *)
Reapers ==
  /\ \A p \in TCBs : kids[p] # {} => status[p] \in Alive
  /\ ~TestEnv => status[Root] \in {"Ready", "Running"}
  /\ \A t \in TCBs : status[t] = "Zombie" /\ ~Held(t) /\ ~IsOrigin(t) =>
       \E p \in TCBs : t \in kids[p]

ReapInv == IInv /\ Reapers

(* The origin process never begins to die.                                 *)
LEMMA RootStays ==
  ASSUME TestEnv \/ OriginStays, ReapInv, [Next]_vars, ~TestEnv
  PROVE  status'[Root] \in {"Ready", "Running"}
<1>0. IInv /\ status[Root] \in {"Ready", "Running"} /\ Root \in TCBs /\ OriginStays
  BY Constants DEF ReapInv, Reapers
<1>1. ASSUME NEW c \in Cpus, Exit(c) PROVE status'[Root] = status[Root]
  BY <1>0, <1>1, Types DEF Exit, IsOrigin
<1>2. ASSUME NEW c \in Cpus, Dispatch(c) \/ WaitSuspend(c) \/ Yield(c) \/ FutexWait(c)
      PROVE  status'[Root] \in {"Ready", "Running"}
  BY <1>0, <1>2, Types DEF Dispatch, WaitSuspend, Yield, FutexWait, Suspend
<1>3. ASSUME NEW c \in Cpus, \/ Fetch(c) \/ FinalInfo(c) \/ PushBlocked(c) \/ PushBack(c)
                             \/ TakeSigchld(c) \/ Exec(c) \/ TidExhausted(c)
      PROVE  status' = status
  BY <1>3 DEF Fetch, FinalInfo, PushBlocked, PushBack, TakeSigchld, Exec, TidExhausted
<1>4. ASSUME NEW c \in Cpus, NEW k \in CloneKinds, Clone(c, k) PROVE status'[Root] = status[Root]
  BY <1>0, <1>4, FreshUnborn, Types DEF Clone, NewBlock
<1>5. ASSUME NEW c \in Cpus, \/ StartZombie(c) \/ Reparent(c) \/ SendSigchld(c) \/ Logoff(c)
      PROVE  status' = status
  BY <1>5 DEF StartZombie, Reparent, SendSigchld, Logoff
<1>6. ASSUME NEW c \in Cpus, Bury(c) PROVE status'[Root] = status[Root]
  BY <1>0, <1>6, BuryEffect
<1>7. ASSUME NEW c \in Cpus, Release(c) PROVE status'[Root] = status[Root]
  BY <1>0, <1>7, ReleaseEffect
<1>8. ASSUME NEW c \in Cpus, Reap(c) PROVE status'[Root] = status[Root]
  BY <1>0, <1>8, ReapEffect
<1>9. CASE (\E i \in Tids : TimeOut(i)) \/ UNCHANGED vars
  BY <1>0, <1>9 DEF TimeOut, vars
<1>10. ~\E c \in Cpus : LoadNextTestcase(c)
  BY DEF LoadNextTestcase
<1>. QED
  BY <1>0, <1>1, <1>2, <1>3, <1>4, <1>5, <1>6, <1>7, <1>8, <1>9, <1>10
     DEF Next, Kernel, Wait4, Program

(* A zombie some core holds is on its way out.                             *)
LEMMA ZombieLate ==
  ASSUME IInv, NEW c \in Cpus, status[cur[c]] = "Zombie", cur[c] # NoTask
  PROVE  pc[c] \in {"sigchld", "logoff", "release"}
BY Types DEF IInv, CpuShape

(* Every step keeps every zombie in reach of somebody alive.               *)
LEMMA ReapInvStep ==
  ASSUME TestEnv \/ OriginStays, ReapInv, [Next]_vars
  PROVE  ReapInv'
<1>0. IInv /\ IInv'
  BY NextIInv DEF ReapInv
<1>r. ~TestEnv => status'[Root] \in {"Ready", "Running"}
  BY RootStays
<1> SUFFICES /\ \A p \in TCBs : kids'[p] # {} => status'[p] \in Alive
             /\ \A t \in TCBs : status'[t] = "Zombie" /\ ~Held(t)' /\ ~IsOrigin(t) =>
                  \E p \in TCBs : t \in kids'[p]
  BY <1>0, <1>r DEF ReapInv, Reapers, IsOrigin
<1>1. \A p \in TCBs : kids[p] # {} => status[p] \in Alive
  BY DEF ReapInv, Reapers
<1>2. \A t \in TCBs : status[t] = "Zombie" /\ ~Held(t) /\ ~IsOrigin(t) =>
        \E p \in TCBs : t \in kids[p]
  BY DEF ReapInv, Reapers
<1> DEFINE Goal == /\ \A p \in TCBs : kids'[p] # {} => status'[p] \in Alive
                   /\ \A t \in TCBs : status'[t] = "Zombie" /\ ~Held(t)' /\ ~IsOrigin(t) =>
                        \E p \in TCBs : t \in kids'[p]
<1>3. CASE Calm
  <2>1. kids' = kids /\ \A p \in TCBs : status[p] \in Alive => status'[p] \in Alive
    BY <1>3 DEF Calm, Alive
  <2>2. ASSUME NEW t \in TCBs, status'[t] = "Zombie" PROVE status[t] = "Zombie" /\ (Held(t) => Held(t)')
    <3>1. status[t] = "Zombie"
      BY <1>3, <2>2 DEF Calm, Alive
    <3>2. ASSUME NEW c \in Cpus, cur[c] = t PROVE cur'[c] = t
      BY <1>0, <1>3, <3>1, <3>2, ZombieLate, Constants DEF Calm, LateSame, Late, ZombiePc
    <3> QED
      BY <3>1, <3>2 DEF Held
  <2> QED
    BY <1>1, <1>2, <2>1, <2>2
<1>4. ASSUME NEW c \in Cpus, LoadNextTestcase(c) PROVE Goal
  <2>1. PICK i \in freeTids : \E x : NewBlock(Fresh, i, i, x, Fresh, NoParent)
    BY <1>4, LoadedBlock
  <2>2. Fresh \in TCBs /\ status[Fresh] = "unborn" /\ kids' = kids
    BY <1>4, LoadedBlock DEF LoadNextTestcase
  <2>3. \A t \in TCBs : status'[t] = IF t = Fresh THEN "Ready" ELSE status[t]
    BY <1>0, <2>1, <2>2, Birth
  <2>4. cur[c] = NoTask /\ \A d \in Cpus : d # c => cur'[d] = cur[d]
    BY <1>0, <1>4, Types DEF LoadNextTestcase, IInv, CpuShape
  <2>5. \A t \in TCBs : Held(t) => Held(t)'
    BY <2>4, Constants DEF Held
  <2> QED
    BY <1>1, <1>2, <2>2, <2>3, <2>5 DEF Alive
<1>5. ASSUME NEW c \in Cpus, NEW k \in CloneKinds, Clone(c, k) PROVE Goal
  <2>1. PICK i \in freeTids : \E p, x, v : NewBlock(Fresh, i, p, x, v, PpidFor(cur[c], k))
    BY <1>0, <1>5, ClonedBlock
  <2>2. Fresh \in TCBs /\ status[Fresh] = "unborn" /\ cur' = cur
    BY <1>0, <1>5, ClonedBlock DEF Clone, cpuVars
  <2>3. \A t \in TCBs : status'[t] = IF t = Fresh THEN "Ready" ELSE status[t]
    BY <1>0, <2>1, <2>2, Birth
  <2>4. cur[c] \in TCBs /\ status[cur[c]] = "Running"
    BY <1>0, <1>5, ClonedBlock
  <2>5. \A q \in TCBs : kids[q] \subseteq kids'[q] /\ (kids'[q] = kids[q] \/ q = cur[c])
    BY <1>0, <1>5, <2>4, Types DEF Clone
  <2>6. \A t : Held(t)' <=> Held(t)
    BY <2>2 DEF Held
  <2> QED
    BY <1>1, <1>2, <2>2, <2>3, <2>4, <2>5, <2>6 DEF Alive
<1>6. ASSUME NEW c \in Cpus, StartZombie(c) \/ SendSigchld(c) \/ Logoff(c) PROVE Goal
  <2>1. UNCHANGED <<status, kids, cur>>
    BY <1>0, <1>6, StartZombieEffect, SendSigchldEffect, LogoffEffect
  <2> QED
    BY <1>1, <1>2, <2>1 DEF Held
<1>7. ASSUME NEW c \in Cpus, Reparent(c) PROVE Goal
  <2>1. /\ status' = status /\ cur' = cur
        /\ \A q \in TCBs : kids[q] \subseteq kids'[q] /\ (kids'[q] = kids[q] \/ (~TestEnv /\ q = Root))
    <3>1. PICK u : \/ kids' = kids
                   \/ /\ ~TestEnv
                      /\ \A q \in TCBs : kids'[q] = IF q = Root THEN kids[q] \cup {u} ELSE kids[q]
      BY <1>0, <1>7, ReparentEffect
    <3>2. status' = status /\ cur' = cur
      BY <1>0, <1>7, ReparentEffect
    <3>3. \A q \in TCBs : kids[q] \subseteq kids'[q] /\ (kids'[q] = kids[q] \/ (~TestEnv /\ q = Root))
      BY ONLY <3>1
    <3> QED
      BY <3>2, <3>3
  <2>2. ~TestEnv => status[Root] \in Alive
    BY DEF ReapInv, Reapers, Alive
  <2> QED
    BY <1>1, <1>2, <2>1, <2>2 DEF Held
<1>8. ASSUME NEW c \in Cpus, Bury(c) PROVE Goal
  <2> DEFINE t == cur[c]
  <2>1. /\ t \in TCBs /\ cur' = cur /\ status[t] = "Dying"
        /\ \A q \in TCBs : kids'[q] = IF q = t THEN {} ELSE kids[q]
        /\ \A x \in TCBs : x # t => \/ status'[x] = status[x]
                                    \/ status[x] = "Zombie" /\ status'[x] = "freed"
        /\ \A x \in kids[t] : x # t /\ status'[x] = "Zombie" =>
             Held(x) \/ IsOrigin(x) \/ \E q \in TCBs : x \in kids'[q]
    BY <1>0, <1>8, BuryEffect
  <2>2. (\E d \in Cpus : cur'[d] = t) /\ \A x : Held(x)' <=> Held(x)
    BY <2>1 DEF Held
  <2> HIDE DEF t
  <2>3. \A p \in TCBs : kids'[p] # {} => status'[p] \in Alive
    BY <1>1, <2>1 DEF Alive
  <2>4. ASSUME NEW x \in TCBs, status'[x] = "Zombie", ~Held(x)', ~IsOrigin(x)
        PROVE  \E p \in TCBs : x \in kids'[p]
    <3>1. x # t /\ ~Held(x)
      BY <2>2, <2>4 DEF Held
    <3>2. status[x] = "Zombie"
      BY <2>1, <2>4, <3>1
    <3>3. PICK p \in TCBs : x \in kids[p]
      BY <1>2, <2>4, <3>1, <3>2
    <3> QED
      BY <2>1, <2>4, <3>1, <3>2, <3>3
  <2> QED
    BY <2>3, <2>4
<1>9. ASSUME NEW c \in Cpus, Release(c) PROVE Goal
  <2>1. /\ cur[c] \in TCBs /\ kids' = kids /\ status[cur[c]] = "Zombie"
        /\ \A d \in Cpus : cur'[d] = IF d = c THEN NoTask ELSE cur[d]
        /\ \A t \in TCBs : t # cur[c] => status'[t] = status[t]
        /\ \/ status'[cur[c]] = "freed"
           \/ /\ status'[cur[c]] = "Zombie"
              /\ IsOrigin(cur[c]) \/ \E p \in TCBs : cur[c] \in kids[p]
    BY <1>0, <1>9, ReleaseEffect
  <2>2. \A t \in TCBs : t # cur[c] => (Held(t) => Held(t)')
    BY <2>1 DEF Held
  <2> QED
    BY <1>1, <1>2, <2>1, <2>2 DEF Alive
<1>10. ASSUME NEW c \in Cpus, Reap(c) PROVE Goal
  <2>1. /\ cur[c] \in TCBs /\ cur' = cur
    BY <1>0, <1>10, ReapEffect
  <2>2. PICK u \in TCBs :
          /\ status[u] = "Zombie"
          /\ \A q \in TCBs : kids'[q] = IF q = cur[c] THEN kids[q] \ {u} ELSE kids[q]
          /\ \A x \in TCBs : x # u => status'[x] = status[x]
          /\ \/ status'[u] = "freed"
             \/ /\ status'[u] = "Zombie"
                /\ Held(u) \/ IsOrigin(u) \/ \E q \in TCBs : u \in kids'[q]
    BY <1>0, <1>10, ReapEffect
  <2>3. \A x : Held(x)' <=> Held(x)
    BY <2>1 DEF Held
  <2>4. \A p \in TCBs : kids'[p] # {} => status'[p] \in Alive
    BY <1>1, <2>2 DEF Alive
  <2> QED
    BY <1>2, <2>2, <2>3, <2>4
<1>. QED
  BY <1>0, <1>3, <1>4, <1>5, <1>6, <1>7, <1>8, <1>9, <1>10, Sorted

(* No zombie is leaked while the origin process, or the test environment   *)
(* that buries orphans itself, is there: somebody alive can reap it.       *)
THEOREM NothingLeaked ==
  ASSUME TestEnv \/ OriginStays PROVE Spec => []ZombieReapable
<1>1. Init => ReapInv
  BY InitIInv, Constants DEF Init, ReapInv, Reapers
<1>2. ReapInv /\ [Next]_vars => ReapInv'
  BY ReapInvStep
<1>3. ReapInv => ZombieReapable
  BY DEF ReapInv, Reapers, ZombieReapable
<1>. QED
  BY <1>1, <1>2, <1>3, PTL DEF Spec

-----------------------------------------------------------------------------
(* Test cases, on one core.  (On two, the queue is empty while the other   *)
(* core still runs the test, and neither theorem holds.)                   *)

(* A test case without a verdict still has a group leader alive; the ones  *)
(* before it have one verdict each, the ones after it none.                *)
Verdicts ==
  /\ TestEnv => loaded >= 1
  /\ ~TestEnv => loaded = 0 /\ now = 0
  /\ now # 0 => /\ now = loaded
                /\ \E t \in TCBs : status[t] \in Alive /\ pid[t] = tid[t]
  /\ \A n \in 1 .. Testcases :
       verdicts[n] = IF n < loaded \/ (n = loaded /\ now = 0) THEN 1 ELSE 0
  /\ halt = "all test ended" => TestEnv /\ loaded = Testcases /\ now = 0

TestInv == IInv /\ Verdicts

(* The one core is idle and the queue empty: nobody is left.               *)
LEMMA IdleAlone ==
  ASSUME IInv, NEW c, Cpus = {c}, pc[c] = "idle", NoTaskReady
  PROVE  \A t \in TCBs : status[t] \notin Alive
<1>1. cur[c] = NoTask
  BY DEF IInv, CpuShape
<1>2. \A t \in TCBs : ~Queued(t) /\ ~Held(t)
  BY <1>1, Constants DEF NoTaskReady, Queued, Held
<1>. QED
  BY <1>2 DEF IInv, OneHolder

(* The tests go on: neither a new one nor a death.                         *)
LEMMA LivesOn ==
  ASSUME IInv, [Next]_vars,
         ~\E c \in Cpus : LoadNextTestcase(c), ~\E c \in Cpus : Bury(c)
  PROVE  /\ UNCHANGED <<now, loaded, verdicts>>
         /\ \A t \in TCBs : status[t] \in Alive =>
              status'[t] \in Alive /\ pid'[t] = pid[t] /\ tid'[t] = tid[t]
<1>1. CASE Calm
  BY <1>1 DEF Calm, Alive
<1>2. ASSUME NEW c \in Cpus, NEW k \in CloneKinds, Clone(c, k)
      PROVE  /\ UNCHANGED <<now, loaded, verdicts>>
             /\ \A t \in TCBs : status[t] \in Alive =>
                  status'[t] \in Alive /\ pid'[t] = pid[t] /\ tid'[t] = tid[t]
  <2>1. PICK i \in freeTids : \E p, x, v : NewBlock(Fresh, i, p, x, v, PpidFor(cur[c], k))
    BY <1>2, ClonedBlock
  <2>2. Fresh \in TCBs /\ status[Fresh] = "unborn"
    BY <1>2, ClonedBlock
  <2>3. /\ \A t \in TCBs : status'[t] = IF t = Fresh THEN "Ready" ELSE status[t]
        /\ \A t \in TCBs : t # Fresh => pid'[t] = pid[t] /\ tid'[t] = tid[t]
    BY <2>1, <2>2, Birth
  <2> QED
    BY <1>2, <2>2, <2>3 DEF Clone, testVars, Alive
<1>3. ASSUME NEW c \in Cpus, StartZombie(c) \/ Reparent(c) \/ SendSigchld(c) \/ Logoff(c)
      PROVE  UNCHANGED <<status, tid, pid, now, loaded, verdicts>>
  BY <1>3, StartZombieEffect, ReparentEffect, SendSigchldEffect, LogoffEffect
<1>4. ASSUME NEW c \in Cpus, Release(c)
      PROVE  /\ UNCHANGED <<tid, pid, now, loaded, verdicts>>
             /\ \A t \in TCBs : status[t] \in Alive => status'[t] \in Alive
  BY <1>4, ReleaseEffect DEF Alive
<1>5. ASSUME NEW c \in Cpus, Reap(c)
      PROVE  /\ UNCHANGED <<tid, pid, now, loaded, verdicts>>
             /\ \A t \in TCBs : status[t] \in Alive => status'[t] \in Alive
  BY <1>5, ReapEffect DEF Alive
<1>. QED
  BY <1>1, <1>2, <1>3, <1>4, <1>5, Sorted

(* The machine says that all tests ended in final_info only.               *)
LEMMA HaltStep ==
  ASSUME [Next]_vars, halt' = "all test ended", halt' # halt
  PROVE  \E c \in Cpus : FinalInfo(c)
<1>1. \A c \in Cpus : ~TidExhausted(c)
  BY DEF TidExhausted
<1>2. ASSUME NEW c \in Cpus, Kernel(c) PROVE FinalInfo(c)
  BY <1>2 DEF Kernel, Fetch, LoadNextTestcase, PushBlocked, Dispatch, PushBack, StartZombie,
              Reparent, Bury, SendSigchld, Logoff, Release
<1>3. ASSUME NEW c \in Cpus, Wait4(c) PROVE FALSE
  BY <1>3 DEF Wait4, Reap, WaitSuspend
<1>4. ASSUME NEW c \in Cpus, Program(c) PROVE FALSE
  BY <1>1, <1>4 DEF Program, Yield, FutexWait, TakeSigchld, Exec, Exit, Clone
<1>5. ASSUME NEW i \in Tids, TimeOut(i) PROVE FALSE
  BY <1>5 DEF TimeOut
<1>6. CASE UNCHANGED vars
  BY <1>6 DEF vars
<1>. QED
  BY <1>2, <1>3, <1>4, <1>5, <1>6 DEF Next

(* The part of TypeOK that is about tests.                                 *)
LEMMA TestTypes ==
  IInv => /\ now \in 0 .. Testcases /\ loaded \in 0 .. Testcases
          /\ verdicts \in [1 .. Testcases -> Nat] /\ TestEnv \in BOOLEAN
BY TasksAssumption DEF IInv, TypeOK

(* The next test begins when the last one has its verdict.                 *)
LEMMA LoadKeepsVerdicts ==
  ASSUME TestInv, NEW c, Cpus = {c}, LoadNextTestcase(c)
  PROVE  Verdicts'
<1>0. IInv /\ Verdicts
  BY DEF TestInv
<1>1. PICK i \in freeTids : \E x : NewBlock(Fresh, i, i, x, Fresh, NoParent)
  BY LoadedBlock
<1>2. Fresh \in TCBs /\ status[Fresh] = "unborn"
  BY LoadedBlock
<1>3. status'[Fresh] \in Alive /\ pid'[Fresh] = tid'[Fresh]
  <2>1. /\ \A t \in TCBs : status'[t] = IF t = Fresh THEN "Ready" ELSE status[t]
        /\ \A t \in TCBs : tid'[t] = IF t = Fresh THEN i ELSE tid[t]
        /\ \A t \in TCBs : pid'[t] = IF t = Fresh THEN i ELSE pid[t]
    BY <1>0, <1>1, <1>2, Birth
  <2> QED
    BY <1>2, <2>1 DEF Alive
<1>4. now = 0
  BY <1>0, IdleAlone DEF LoadNextTestcase, Verdicts
<1>5. /\ TestEnv /\ loaded' = loaded + 1 /\ now' = loaded + 1 /\ verdicts' = verdicts
      /\ halt' = halt /\ halt = "no" /\ loaded < Testcases
  BY DEF LoadNextTestcase, HasTestcase
<1>6. \A n \in 1 .. Testcases :
        verdicts'[n] = IF n < loaded' \/ (n = loaded' /\ now' = 0) THEN 1 ELSE 0
  BY <1>0, <1>4, <1>5, TestTypes, Constants DEF Verdicts
<1>. QED
  BY <1>0, <1>2, <1>3, <1>5, <1>6, TestTypes DEF Verdicts

(* A group leader's death judges the test case; any other judges nothing.  *)
LEMMA BuryKeepsVerdicts ==
  ASSUME TestInv, NEW c \in Cpus, Bury(c)
  PROVE  Verdicts'
<1> DEFINE t == cur[c]
<1>0. IInv /\ Verdicts
  BY DEF TestInv
<1>1. /\ t \in TCBs /\ loaded' = loaded /\ tid' = tid /\ pid' = pid
      /\ now' = NowAfter(t)
      /\ verdicts' = IF Judged(t) THEN [verdicts EXCEPT ![now] = @ + 1] ELSE verdicts
      /\ \A x \in TCBs : x # t => \/ status'[x] = status[x]
                                  \/ status[x] = "Zombie" /\ status'[x] = "freed"
  BY <1>0, BuryEffect
<1>2. halt' = halt /\ halt = "no"
  BY DEF Bury
<1> HIDE DEF t
<1>3. CASE Judged(t)
  <2>1. now # 0 /\ now' = 0 /\ now = loaded /\ TestEnv /\ now \in 1 .. Testcases
    <3>1. now # 0 /\ TestEnv /\ now' = 0
      BY <1>1, <1>3 DEF Judged, NowAfter
    <3>2. now = loaded /\ now \in 0 .. Testcases
      BY <1>0, <3>1, TestTypes DEF Verdicts
    <3> QED
      BY <3>1, <3>2, Constants
  <2>2. \A n \in 1 .. Testcases : verdicts'[n] = IF n = now THEN verdicts[n] + 1 ELSE verdicts[n]
    BY <1>0, <1>1, <1>3, TestTypes
  <2>3. \A n \in 1 .. Testcases : verdicts'[n] = IF n < loaded' \/ (n = loaded' /\ now' = 0) THEN 1 ELSE 0
    <3>1. \A n \in 1 .. Testcases : verdicts[n] = IF n < now THEN 1 ELSE 0
      BY <1>0, <2>1, Constants DEF Verdicts
    <3>2. loaded' = now /\ now' = 0
      BY <1>1, <2>1
    <3> QED
      BY <2>1, <2>2, <3>1, <3>2, Constants
  <2> QED
    BY <1>0, <1>1, <1>2, <2>1, <2>3 DEF Verdicts
<1>4. CASE ~Judged(t)
  <2>1. now' = now /\ verdicts' = verdicts
    BY <1>1, <1>4 DEF NowAfter
  <2>2. ASSUME now # 0 PROVE \E x \in TCBs : status'[x] \in Alive /\ pid'[x] = tid'[x]
    <3>1. PICK x \in TCBs : status[x] \in Alive /\ pid[x] = tid[x]
      BY <1>0, <2>2 DEF Verdicts
    <3>2. x # t
      BY <1>0, <1>4, <2>2, <3>1, TestTypes DEF Judged, Verdicts
    <3> QED
      BY <1>1, <3>1, <3>2 DEF Alive
  <2> QED
    BY <1>0, <1>1, <1>2, <2>1, <2>2 DEF Verdicts
<1>. QED
  BY <1>3, <1>4

(* Every step on the one core keeps the account of verdicts.               *)
LEMMA TestInvStep ==
  ASSUME NEW c, Cpus = {c}, TestInv, [Next]_vars
  PROVE  TestInv'
<1>0. IInv /\ IInv' /\ Verdicts
  BY NextIInv DEF TestInv
<1>1. CASE LoadNextTestcase(c)
  BY <1>0, <1>1, LoadKeepsVerdicts DEF TestInv
<1>2. CASE Bury(c)
  BY <1>0, <1>2, BuryKeepsVerdicts DEF TestInv
<1>3. CASE ~LoadNextTestcase(c) /\ ~Bury(c)
  <2>1. /\ now' = now /\ loaded' = loaded /\ verdicts' = verdicts
        /\ \A t \in TCBs : status[t] \in Alive =>
             status'[t] \in Alive /\ pid'[t] = pid[t] /\ tid'[t] = tid[t]
    BY <1>0, <1>3, LivesOn
  <2>2. ASSUME halt' = "all test ended" PROVE TestEnv /\ loaded = Testcases /\ now = 0
    <3>1. CASE halt' = halt
      BY <1>0, <2>2, <3>1 DEF Verdicts
    <3>2. CASE halt' # halt
      <4>1. FinalInfo(c)
        BY <2>2, <3>2, HaltStep
      <4>2. now = 0
        BY <1>0, <4>1, IdleAlone DEF FinalInfo, Verdicts
      <4>3. TestEnv /\ ~(loaded < Testcases)
        BY <4>1 DEF FinalInfo, HasTestcase
      <4>4. loaded \in 0 .. Testcases
        BY <1>0, TestTypes
      <4> QED
        BY <4>2, <4>3, <4>4, Constants
    <3> QED
      BY <3>1, <3>2
  <2>3. now' # 0 => \E t \in TCBs : status'[t] \in Alive /\ pid'[t] = tid'[t]
    BY <1>0, <2>1 DEF Verdicts
  <2> QED
    BY <1>0, <2>1, <2>2, <2>3 DEF TestInv, Verdicts
<1>. QED
  BY <1>1, <1>2, <1>3

(* Each test case is judged exactly once, whatever it forks and in         *)
(* whatever order those tasks exit.                                        *)
THEOREM JudgedOnce ==
  ASSUME NEW c, Cpus = {c} PROVE Spec => []OneVerdictEach
<1>1. Init => TestInv
  <2> SUFFICES ASSUME Init PROVE Verdicts
    BY InitIInv DEF TestInv
  <2> QED
    BY TasksAssumption DEF Init, Verdicts, Alive
<1>2. TestInv /\ [Next]_vars => TestInv'
  BY TestInvStep
<1>3. TestInv => OneVerdictEach
  <2> SUFFICES ASSUME TestInv, NEW n \in 1 .. Testcases
               PROVE  /\ verdicts[n] <= 1
                      /\ n < loaded \/ halt = "all test ended" => verdicts[n] = 1
    BY DEF OneVerdictEach
  <2>1. verdicts[n] = IF n < loaded \/ (n = loaded /\ now = 0) THEN 1 ELSE 0
    BY DEF TestInv, Verdicts
  <2>2. halt = "all test ended" => loaded = Testcases /\ now = 0
    BY DEF TestInv, Verdicts
  <2>3. verdicts[n] \in Nat /\ verdicts[n] <= 1 /\ (n < loaded => verdicts[n] = 1)
    BY <2>1, TestTypes DEF TestInv
  <2>4. halt = "all test ended" => verdicts[n] = 1
    <3>1. n < Testcases \/ n = Testcases
      BY Constants
    <3> QED
      BY <2>1, <2>2, <3>1
  <2> QED
    BY <2>3, <2>4
<1>. QED
  BY <1>1, <1>2, <1>3, PTL DEF Spec

(* A machine that has stopped takes no step.                               *)
LEMMA HaltEnds == ASSUME halt # "no", [Next]_vars PROVE UNCHANGED vars
<1> SUFFICES ASSUME Next PROVE FALSE
  OBVIOUS
<1>1. ASSUME NEW c \in Cpus, Kernel(c) PROVE FALSE
  BY <1>1 DEF Kernel, Fetch, LoadNextTestcase, FinalInfo, PushBlocked, Dispatch, PushBack,
     StartZombie, Reparent, Bury, SendSigchld, Logoff, Release
<1>2. ASSUME NEW c \in Cpus, Wait4(c) \/ Program(c) PROVE FALSE
  BY <1>2 DEF Wait4, Program, Reap, WaitSuspend, Yield, FutexWait, TakeSigchld, Exec, Exit,
     Clone, InUser, TidExhausted
<1>. QED
  BY <1>1, <1>2 DEF Next, TimeOut

(* A test case starts, and the machine stops, with nobody else alive.      *)
THEOREM NobodyElseAlive ==
  ASSUME NEW c, Cpus = {c} PROVE Spec => StartsAlone
<1>1. ASSUME IInv, [Next]_vars
      PROVE  [loaded' # loaded \/ halt' = "all test ended" =>
                \A t \in TCBs : status[t] \notin Alive]_vars
  <2> SUFFICES ASSUME ~UNCHANGED vars, loaded' # loaded \/ halt' = "all test ended"
               PROVE  \A t \in TCBs : status[t] \notin Alive
    OBVIOUS
  <2>1. CASE LoadNextTestcase(c) \/ FinalInfo(c)
    BY <1>1, <2>1, IdleAlone DEF LoadNextTestcase, FinalInfo
  <2>2. CASE loaded' # loaded
    <3>1. \A d \in Cpus : Bury(d) => loaded' = loaded
      BY DEF Bury
    <3> QED
      BY <1>1, <2>1, <2>2, <3>1, LivesOn, BuryEffect
  <2>3. CASE halt' = "all test ended" /\ halt' # halt
    BY <1>1, <2>1, <2>3, HaltStep
  <2>4. CASE halt' = "all test ended" /\ halt' = halt
    <3>1. halt # "no"
      BY <2>4
    <3> QED
      BY <1>1, <3>1, HaltEnds
  <2> QED
    BY <2>2, <2>3, <2>4
<1>. QED
  BY <1>1, Inductive, PTL DEF Spec, StartsAlone

-----------------------------------------------------------------------------
(* Parents.  clone with CLONE_PARENT makes a task its maker's sibling, yet *)
(* enters it in nobody's children; the theorems are about programs that do *)
(* not use that flag.                                                      *)

(* The core of u is about to send its exit signal.                         *)
Signalling(u) == \E c \in Cpus : pc[c] = "sigchld" /\ cur[c] = u

(* The signal table has every task that is not yet a zombie.               *)
Listed == \A t \in TCBs : status[t] \in Alive => table[tid[t]] = t

(* 0 is the origin process's ppid and an adopted orphan's, NO_PARENT that  *)
(* of a test case and its orphans: each belongs to one of the two modes.   *)
PpidKind == \A t \in TCBs : IF TestEnv THEN ppid[t] # 0 ELSE ppid[t] # NoParent

(* A child its dying parent has dealt with has nobody's tid as its ppid.   *)
HandedAway ==
  \A c \in Cpus : pc[c] = "reparent" =>
    \A u \in kids[cur[c]] : u \in todo[c] \/ ppid[u] \notin Tids

(* Up to its exit signal, a task whose ppid is a tid is the child of the   *)
(* living task that has that tid.                                          *)
HasParent ==
  \A u \in TCBs : (status[u] \in Alive \/ Signalling(u)) /\ ppid[u] \in Tids =>
    \E p \in TCBs : status[p] \in Alive /\ u \in kids[p] /\ tid[p] = ppid[u]

(* And a child that is not adopted and not handed over knows its parent.   *)
KnowsParent ==
  \A p \in TCBs : \A u \in kids[p] :
    \/ ppid[u] = 0
    \/ HandedOver(p, u)
    \/ ppid[u] = tid[p] /\ status[p] \in Alive

Family == Listed /\ PpidKind /\ HandedAway /\ HasParent /\ KnowsParent

FamilyInv == IInv /\ Family

(* The part of TypeOK about parents.                                       *)
LEMMA FamilyTypes ==
  IInv => /\ ppid \in [TCBs -> Tids \cup {0, NoParent}]
          /\ tid \in [TCBs -> Tids] /\ kids \in [TCBs -> SUBSET TCBs]
          /\ TestEnv \in BOOLEAN
BY TasksAssumption DEF IInv, TypeOK

(* No step of the scheduler matters to a family.                           *)
LEMMA CalmFamily == ASSUME FamilyInv, Calm PROVE Family'
<1>0. IInv /\ Family
  BY DEF FamilyInv
<1>1. /\ UNCHANGED <<tid, ppid, kids, todo, table>>
      /\ \A t \in TCBs : status'[t] \in Alive <=> status[t] \in Alive
      /\ \A c \in Cpus : \A s \in {"reparent", "sigchld"} :
           pc'[c] = s <=> pc[c] = s
      /\ \A c \in Cpus : pc[c] \in {"reparent", "sigchld"} => cur'[c] = cur[c]
  BY DEF Calm, LateSame, Late, ZombiePc, Alive
<1>2. /\ \A u : Signalling(u)' <=> Signalling(u)
      /\ \A p, u : HandedOver(p, u)' <=> HandedOver(p, u)
  BY <1>1 DEF Signalling, HandedOver
<1>3. Listed'
  BY <1>0, <1>1 DEF Family, Listed
<1>4. PpidKind'
  BY <1>0, <1>1 DEF Family, PpidKind
<1>5. HandedAway'
  BY <1>0, <1>1 DEF Family, HandedAway
<1>6. HasParent'
  BY <1>0, <1>1, <1>2 DEF Family, HasParent
<1>7. KnowsParent'
  BY <1>0, <1>1, <1>2 DEF Family, KnowsParent
<1>. QED
  BY <1>3, <1>4, <1>5, <1>6, <1>7 DEF Family

(* A new block has no parent in the test environment, or the running task  *)
(* that made it.                                                           *)
LEMMA FamilyBirth ==
  ASSUME FamilyInv, NEW u \in TCBs, status[u] = "unborn", NEW i \in freeTids,
         NEW p, NEW x, NEW v, NEW q, NewBlock(u, i, p, x, v, q),
         todo' = todo, LateSame,
         \/ TestEnv /\ q = NoParent /\ kids' = kids
         \/ \E t \in TCBs :
              /\ status[t] = "Running" /\ q = tid[t]
              /\ kids' = [kids EXCEPT ![t] = @ \cup {u}]
  PROVE  Family'
<1>0. IInv /\ Family
  BY DEF FamilyInv
<1>1. /\ i \in Tids
      /\ \A t \in TCBs : status'[t] = IF t = u THEN "Ready" ELSE status[t]
      /\ \A t \in TCBs : tid'[t] = IF t = u THEN i ELSE tid[t]
      /\ \A t \in TCBs : ppid'[t] = IF t = u THEN q ELSE ppid[t]
      /\ \A j \in Tids : table'[j] = IF j = i THEN u ELSE table[j]
      /\ \A t \in TCBs : u \notin kids[t]
      /\ \A c \in Cpus : cur[c] # u
  BY <1>0, Birth
<1>2. /\ \A c \in Cpus : \A s \in {"reparent", "sigchld"} : pc'[c] = s <=> pc[c] = s
      /\ \A c \in Cpus : pc[c] \in {"reparent", "sigchld"} => cur'[c] = cur[c]
  BY DEF LateSame, Late, ZombiePc
<1>3. /\ \A t : Signalling(t)' <=> Signalling(t)
      /\ \A t, w : HandedOver(t, w)' <=> HandedOver(t, w)
  BY <1>2 DEF Signalling, HandedOver
<1>4. \A t \in TCBs : status'[t] \in Alive <=> (status[t] \in Alive \/ t = u)
  BY <1>1 DEF Alive
<1>5. q # 0 /\ (TestEnv \/ q # NoParent)
  BY <1>0, TidsNat, FamilyTypes DEF NoParent
<1>6. \A t \in TCBs : kids[t] \subseteq kids'[t] /\ kids'[t] \subseteq kids[t] \cup {u}
  BY <1>0, FamilyTypes
<1>7. \A t \in TCBs : u \in kids'[t] => /\ status[t] = "Running" /\ q = tid[t] /\ t # u
                                        /\ kids'[t] = kids[t] \cup {u}
  BY <1>0, <1>1, FamilyTypes
<1>8. q \in Tids => \E t \in TCBs : status[t] = "Running" /\ u \in kids'[t] /\ q = tid[t] /\ t # u
  BY <1>0, FamilyTypes, TidsNat
<1>9. Listed'
  <2> SUFFICES ASSUME NEW t \in TCBs, status'[t] \in Alive PROVE table'[tid'[t]] = t
    BY DEF Listed
  <2>1. CASE t = u
    BY <2>1, <1>1
  <2>2. CASE t # u
    <3>1. status[t] \in Alive /\ table[tid[t]] = t /\ tid[t] \in Tids /\ tid'[t] = tid[t]
      BY <2>2, <1>0, <1>1, <1>4, FamilyTypes DEF Family, Listed
    <3>2. tid[t] # i
      BY <1>0, <3>1 DEF IInv, TidUnique, Exists, Alive
    <3> QED
      BY <1>1, <3>1, <3>2
  <2> QED
    BY <2>1, <2>2
<1>10. PpidKind'
  BY <1>0, <1>1, <1>5, FamilyTypes DEF Family, PpidKind
<1>11. HandedAway'
  <2> SUFFICES ASSUME NEW c \in Cpus, pc'[c] = "reparent", NEW w \in kids'[cur'[c]]
               PROVE  w \in todo[c] \/ ppid'[w] \notin Tids
    BY DEF HandedAway
  <2>1. pc[c] = "reparent" /\ cur'[c] = cur[c] /\ cur[c] \in TCBs /\ status[cur[c]] = "Dying"
    BY <1>0, <1>2, HeldTask DEF IInv, CpuShape
  <2>2. w # u /\ w \in kids[cur[c]] /\ w \in TCBs
    BY <1>0, <1>6, <1>7, <2>1, FamilyTypes
  <2> QED
    BY <1>0, <1>1, <2>1, <2>2 DEF Family, HandedAway
<1>12. HasParent'
  <2> SUFFICES ASSUME NEW w \in TCBs, status'[w] \in Alive \/ Signalling(w)', ppid'[w] \in Tids
               PROVE  \E t \in TCBs : status'[t] \in Alive /\ w \in kids'[t] /\ tid'[t] = ppid'[w]
    BY DEF HasParent
  <2>1. CASE w = u
    BY <2>1, <1>1, <1>4, <1>8 DEF Alive
  <2>2. CASE w # u
    <3>1. (status[w] \in Alive \/ Signalling(w)) /\ ppid[w] \in Tids /\ ppid'[w] = ppid[w]
      BY <2>2, <1>1, <1>3, <1>4
    <3>2. PICK t \in TCBs : status[t] \in Alive /\ w \in kids[t] /\ tid[t] = ppid[w]
      BY <1>0, <3>1 DEF Family, HasParent
    <3>3. t # u
      BY <3>2 DEF Alive
    <3> QED
      BY <1>1, <1>4, <1>6, <3>1, <3>2, <3>3
  <2> QED
    BY <2>1, <2>2
<1>13. KnowsParent'
  <2> SUFFICES ASSUME NEW t \in TCBs, NEW w \in kids'[t]
               PROVE  \/ ppid'[w] = 0
                      \/ HandedOver(t, w)'
                      \/ ppid'[w] = tid'[t] /\ status'[t] \in Alive
    BY DEF KnowsParent
  <2>1. CASE w = u
    BY <2>1, <1>1, <1>4, <1>7 DEF Alive
  <2>2. CASE w # u
    <3>1. w \in kids[t] /\ w \in TCBs
      BY <1>0, <1>6, <2>2, FamilyTypes
    <3>2. \/ ppid[w] = 0 \/ HandedOver(t, w)
          \/ ppid[w] = tid[t] /\ status[t] \in Alive /\ t # u
      BY <1>0, <3>1 DEF Family, KnowsParent, Alive
    <3> QED
      BY <1>1, <1>3, <1>4, <2>2, <3>1, <3>2
  <2> QED
    BY <2>1, <2>2
<1>. QED
  BY <1>9, <1>10, <1>11, <1>12, <1>13 DEF Family

(* One child is handed over, to the origin process or to nobody.           *)
LEMMA FamilyReparent ==
  ASSUME FamilyInv, NEW c \in Cpus, Reparent(c)
  PROVE  Family'
<1> DEFINE t == cur[c]
<1>0. IInv /\ Family
  BY DEF FamilyInv
<1>1. /\ t \in TCBs /\ t # NoTask /\ pc[c] = "reparent" /\ todo[c] \subseteq kids[t]
      /\ UNCHANGED <<status, tid, pc, cur, table>>
  BY <1>0, ReparentEffect, HeldTask
<1>2. PICK u \in todo[c] :
        /\ u \in TCBs
        /\ \A d \in Cpus : todo'[d] = IF d = c THEN todo[d] \ {u} ELSE todo[d]
        /\ \/ /\ TestEnv \/ ppid[t] = NoParent
              /\ \A x \in TCBs : ppid'[x] = IF x = u THEN NoParent ELSE ppid[x]
              /\ kids' = kids
           \/ /\ ~TestEnv
              /\ \A x \in TCBs : ppid'[x] = IF x = u THEN 0 ELSE ppid[x]
              /\ \A q \in TCBs : kids'[q] = IF q = Root THEN kids[q] \cup {u} ELSE kids[q]
  BY <1>0, ReparentEffect
<1>3. \A x \in TCBs : x # u => ppid'[x] = ppid[x]
  BY <1>2
<1>4. IF TestEnv THEN ppid'[u] = NoParent /\ kids' = kids ELSE ppid'[u] = 0
  BY <1>0, <1>1, <1>2 DEF Family, PpidKind
<1>5. ppid'[u] \notin Tids
  BY <1>4, TidsNat
<1>6. /\ \A q \in TCBs : kids[q] \subseteq kids'[q] /\ kids'[q] \subseteq kids[q] \cup {u}
      /\ \A q \in TCBs : kids'[q] \in SUBSET TCBs
  BY <1>0, <1>2, FamilyTypes
<1>7. \A x : Signalling(x)' <=> Signalling(x)
  BY <1>1 DEF Signalling
<1>8. \A q, x : HandedOver(q, x) => HandedOver(q, x)'
  BY <1>1, <1>2 DEF HandedOver
<1>9. \E d \in Cpus : pc'[d] = "reparent" /\ cur'[d] = t /\ u \notin todo'[d]
  BY <1>1, <1>2
<1> HIDE DEF t
<1>10. Listed'
  BY <1>0, <1>1 DEF Family, Listed
<1>11. PpidKind'
  BY <1>0, <1>3, <1>4 DEF Family, PpidKind, NoParent
<1>12. HandedAway'
  <2> SUFFICES ASSUME NEW d \in Cpus, pc[d] = "reparent", NEW w \in kids'[cur[d]], w # u
               PROVE  w \in todo'[d] \/ ppid'[w] \notin Tids
    BY <1>1, <1>5 DEF HandedAway
  <2>1. cur[d] \in TCBs
    BY <1>0, HeldTask
  <2>2. w \in kids[cur[d]] /\ w \in TCBs
    BY <1>6, <2>1
  <2> QED
    BY <1>0, <1>2, <1>3, <2>2 DEF Family, HandedAway
<1>13. HasParent'
  <2> SUFFICES ASSUME NEW w \in TCBs, status[w] \in Alive \/ Signalling(w), ppid'[w] \in Tids
               PROVE  \E p \in TCBs : status[p] \in Alive /\ w \in kids'[p] /\ tid[p] = ppid'[w]
    BY <1>1, <1>7 DEF HasParent
  <2>1. ppid'[w] = ppid[w]
    BY <1>3, <1>5
  <2> QED
    BY <1>0, <1>6, <2>1 DEF Family, HasParent
<1>14. KnowsParent'
  <2> SUFFICES ASSUME NEW q \in TCBs, NEW w \in kids'[q], ppid'[w] # 0, ~HandedOver(q, w)'
               PROVE  ppid'[w] = tid[q] /\ status[q] \in Alive
    BY <1>1 DEF KnowsParent
  <2>1. CASE w # u
    <3>1. w \in kids[q] /\ w \in TCBs /\ ppid'[w] = ppid[w] /\ ~HandedOver(q, w)
      BY <1>3, <1>6, <1>8, <2>1
    <3> QED
      BY <1>0, <3>1 DEF Family, KnowsParent
  <2>2. CASE w = u
    <3>1. TestEnv /\ u \in kids[q] /\ ~HandedOver(q, u)
      BY <1>4, <1>8, <2>2
    <3>2. ppid[u] # 0
      BY <1>0, <1>2, <3>1 DEF Family, PpidKind
    <3>3. ppid[u] = tid[q] /\ status[q] \in Alive
      BY <1>0, <3>1, <3>2 DEF Family, KnowsParent
    <3>4. ~HandedOver(t, u) /\ u \in kids[t]
      BY <1>0, <1>1, <1>2 DEF HandedOver, IInv, OneHolder, t
    <3>5. ppid[u] = tid[t] /\ status[t] \in Alive
      BY <1>0, <1>1, <3>2, <3>4 DEF Family, KnowsParent
    <3>6. q = t
      BY <1>0, <1>1, <3>3, <3>5 DEF IInv, TidUnique, Exists, Alive
    <3>7. HandedOver(q, u)'
      BY <1>9, <3>6 DEF HandedOver
    <3> QED
      BY <2>2, <3>7
  <2> QED
    BY <2>1, <2>2
<1>. QED
  BY <1>10, <1>11, <1>12, <1>13, <1>14 DEF Family

(* A parent that becomes a zombie has dealt with all its children.         *)
LEMMA FamilyBury ==
  ASSUME FamilyInv, NEW c \in Cpus, Bury(c)
  PROVE  Family'
<1> DEFINE t == cur[c]
<1>0. IInv /\ Family
  BY DEF FamilyInv
<1>1. /\ t \in TCBs /\ t # NoTask /\ pc[c] = "reparent" /\ todo[c] = {} /\ status[t] = "Dying"
      /\ UNCHANGED <<tid, ppid, cur, todo, table>>
      /\ \A d \in Cpus : IF d = c THEN pc'[d] \in {"sigchld", "logoff"} ELSE pc'[d] = pc[d]
      /\ \A q \in TCBs : kids'[q] = IF q = t THEN {} ELSE kids[q]
  BY <1>0, BuryEffect, HeldTask
<1>2. \A x \in TCBs : status'[x] \in Alive <=> (status[x] \in Alive /\ x # t)
  BY <1>0, BuryEffect DEF Alive, t
<1>3. \A d \in Cpus : cur[d] = t => d = c
  BY <1>0, <1>1 DEF IInv, OneHolder, t
<1>4. \A w : Signalling(w)' => Signalling(w) \/ w = t
  BY <1>1 DEF Signalling, t
<1>5. \A q, w : HandedOver(q, w) => q = t \/ HandedOver(q, w)'
  BY <1>1 DEF HandedOver, t
<1>6. \A w \in kids[t] : ppid[w] \notin Tids
  BY <1>0, <1>1 DEF Family, HandedAway, t
<1>7. \A d \in Cpus : pc'[d] = "reparent" => d # c /\ pc[d] = "reparent"
  BY <1>1
<1> HIDE DEF t
<1>8. Listed'
  BY <1>0, <1>1, <1>2 DEF Family, Listed
<1>9. PpidKind'
  BY <1>0, <1>1 DEF Family, PpidKind
<1>10. HandedAway'
  <2> SUFFICES ASSUME NEW d \in Cpus, pc'[d] = "reparent", NEW w \in kids'[cur[d]]
               PROVE  w \in todo[d] \/ ppid[w] \notin Tids
    BY <1>1 DEF HandedAway
  <2>1. pc[d] = "reparent" /\ cur[d] \in TCBs /\ cur[d] # t
    BY <1>0, <1>3, <1>7, HeldTask
  <2> QED
    BY <1>0, <1>1, <2>1 DEF Family, HandedAway
<1>11. HasParent'
  <2> SUFFICES ASSUME NEW w \in TCBs, status'[w] \in Alive \/ Signalling(w)', ppid[w] \in Tids
               PROVE  \E p \in TCBs : status'[p] \in Alive /\ w \in kids'[p] /\ tid[p] = ppid[w]
    BY <1>1 DEF HasParent
  <2>1. status[w] \in Alive \/ Signalling(w)
    BY <1>1, <1>2, <1>4 DEF Alive
  <2>2. PICK p \in TCBs : status[p] \in Alive /\ w \in kids[p] /\ tid[p] = ppid[w]
    BY <1>0, <2>1 DEF Family, HasParent
  <2>3. p # t
    BY <1>6, <2>2
  <2> QED
    BY <1>1, <1>2, <2>2, <2>3
<1>12. KnowsParent'
  <2> SUFFICES ASSUME NEW q \in TCBs, NEW w \in kids'[q]
               PROVE  \/ ppid[w] = 0 \/ HandedOver(q, w)'
                      \/ ppid[w] = tid[q] /\ status'[q] \in Alive
    BY <1>1 DEF KnowsParent
  <2>1. q # t /\ w \in kids[q]
    BY <1>1
  <2> QED
    BY <1>0, <1>2, <1>5, <2>1 DEF Family, KnowsParent
<1>. QED
  BY <1>8, <1>9, <1>10, <1>11, <1>12 DEF Family

(* The other steps of a core leave children and parents alone.             *)
LEMMA FamilyFrame ==
  ASSUME FamilyInv, Listed', HandedAway', UNCHANGED <<tid, ppid, kids>>,
         \A t \in TCBs : status'[t] \in Alive <=> status[t] \in Alive,
         \A u : Signalling(u)' => Signalling(u),
         \A p, u : HandedOver(p, u) => HandedOver(p, u)'
  PROVE  Family'
<1>0. IInv /\ Family
  BY DEF FamilyInv
<1>1. PpidKind'
  BY <1>0 DEF Family, PpidKind
<1>2. HasParent'
  BY <1>0 DEF Family, HasParent
<1>3. KnowsParent'
  BY <1>0 DEF Family, KnowsParent
<1>. QED
  BY <1>1, <1>2, <1>3 DEF Family

(* handle_zombie_task begins: nothing is dealt with yet.                   *)
LEMMA FamilyStartZombie == ASSUME FamilyInv, NEW c \in Cpus, StartZombie(c) PROVE Family'
<1>0. IInv /\ Family
  BY DEF FamilyInv
<1>1. /\ cur[c] \in TCBs /\ pc[c] = "back"
      /\ UNCHANGED <<status, tid, ppid, kids, cur, table>>
      /\ \A d \in Cpus : pc'[d] = IF d = c THEN "reparent" ELSE pc[d]
      /\ \A d \in Cpus : todo'[d] = IF d = c THEN kids[cur[c]] ELSE todo[d]
  BY <1>0, StartZombieEffect
<1>2. Listed'
  BY <1>0, <1>1 DEF Family, Listed
<1>3. HandedAway'
  BY <1>0, <1>1 DEF Family, HandedAway
<1>4. \A u : Signalling(u)' => Signalling(u)
  BY <1>1 DEF Signalling
<1>5. \A p, u : HandedOver(p, u) => HandedOver(p, u)'
  BY <1>1 DEF HandedOver
<1>. QED
  BY <1>1, <1>2, <1>3, <1>4, <1>5, FamilyFrame

(* The signal is sent.                                                     *)
LEMMA FamilySendSigchld == ASSUME FamilyInv, NEW c \in Cpus, SendSigchld(c) PROVE Family'
<1>0. IInv /\ Family
  BY DEF FamilyInv
<1>1. /\ pc[c] = "sigchld" /\ UNCHANGED <<status, tid, ppid, kids, cur, todo, table>>
      /\ \A d \in Cpus : pc'[d] = IF d = c THEN "logoff" ELSE pc[d]
  BY <1>0, SendSigchldEffect
<1>2. Listed'
  BY <1>0, <1>1 DEF Family, Listed
<1>3. HandedAway'
  BY <1>0, <1>1 DEF Family, HandedAway
<1>4. \A u : Signalling(u)' => Signalling(u)
  BY <1>1 DEF Signalling
<1>5. \A p, u : HandedOver(p, u) => HandedOver(p, u)'
  BY <1>1 DEF HandedOver
<1>. QED
  BY <1>1, <1>2, <1>3, <1>4, <1>5, FamilyFrame

(* The zombie's tid leaves the table, and no other.                        *)
LEMMA FamilyLogoff == ASSUME FamilyInv, NEW c \in Cpus, Logoff(c) PROVE Family'
<1>0. IInv /\ Family
  BY DEF FamilyInv
<1>1. /\ pc[c] = "logoff" /\ cur[c] \in TCBs /\ status[cur[c]] = "Zombie"
      /\ UNCHANGED <<status, tid, ppid, kids, cur, todo>>
      /\ \A d \in Cpus : pc'[d] = IF d = c THEN "release" ELSE pc[d]
      /\ \A i \in Tids : table'[i] = IF i = tid[cur[c]] THEN NoTask ELSE table[i]
  BY <1>0, LogoffEffect
<1>2. Listed'
  <2>1. \A t \in TCBs : status[t] \in Alive => tid[t] \in Tids /\ tid[t] # tid[cur[c]]
    BY <1>0, <1>1, FamilyTypes DEF IInv, TidUnique, Exists, Alive
  <2> QED
    BY <1>0, <1>1, <2>1 DEF Family, Listed
<1>3. HandedAway'
  BY <1>0, <1>1 DEF Family, HandedAway
<1>4. \A u : Signalling(u)' => Signalling(u)
  BY <1>1 DEF Signalling
<1>5. \A p, u : HandedOver(p, u) => HandedOver(p, u)'
  BY <1>1 DEF HandedOver
<1>. QED
  BY <1>1, <1>2, <1>3, <1>4, <1>5, FamilyFrame

(* The core lets go of a zombie.                                           *)
LEMMA FamilyRelease == ASSUME FamilyInv, NEW c \in Cpus, Release(c) PROVE Family'
<1>0. IInv /\ Family
  BY DEF FamilyInv
<1>1. /\ pc[c] = "release" /\ UNCHANGED <<tid, ppid, kids, todo, table>>
      /\ \A d \in Cpus : pc'[d] = IF d = c THEN "idle" ELSE pc[d]
      /\ \A d \in Cpus : cur'[d] = IF d = c THEN NoTask ELSE cur[d]
      /\ \A t \in TCBs : status'[t] \in Alive <=> status[t] \in Alive
  BY <1>0, ReleaseEffect DEF Alive
<1>2. Listed'
  BY <1>0, <1>1 DEF Family, Listed
<1>3. HandedAway'
  BY <1>0, <1>1 DEF Family, HandedAway
<1>4. \A u : Signalling(u)' => Signalling(u)
  BY <1>1 DEF Signalling
<1>5. \A p, u : HandedOver(p, u) => HandedOver(p, u)'
  BY <1>1 DEF HandedOver
<1>. QED
  BY <1>1, <1>2, <1>3, <1>4, <1>5, FamilyFrame

(* A child is reaped after its core has sent the signal.                   *)
LEMMA FamilyReap == ASSUME FamilyInv, NEW c \in Cpus, Reap(c) PROVE Family'
<1>0. IInv /\ Family
  BY DEF FamilyInv
<1>1. cur[c] \in TCBs /\ UNCHANGED <<tid, ppid, pc, cur, todo, table>>
  BY <1>0, ReapEffect
<1>2. PICK u \in TCBs :
        /\ status[u] = "Zombie" /\ ~Locked(u)
        /\ \A q \in TCBs : kids'[q] = IF q = cur[c] THEN kids[q] \ {u} ELSE kids[q]
        /\ \A x \in TCBs : x # u => status'[x] = status[x]
        /\ status'[u] \in {"freed", "Zombie"}
  BY <1>0, ReapEffect
<1>3. /\ \A t \in TCBs : status'[t] \in Alive <=> status[t] \in Alive
      /\ \A q \in TCBs : kids'[q] \subseteq kids[q] /\ kids[q] \subseteq kids'[q] \cup {u}
  BY <1>2 DEF Alive
<1>4. ~Signalling(u) /\ status[u] \notin Alive
  BY <1>2 DEF Signalling, Locked, ZombiePc, Alive
<1>5. /\ \A w : Signalling(w)' <=> Signalling(w)
      /\ \A q, w : HandedOver(q, w)' <=> HandedOver(q, w)
  BY <1>1 DEF Signalling, HandedOver
<1>6. Listed' /\ PpidKind'
  BY <1>0, <1>1, <1>3 DEF Family, Listed, PpidKind
<1>7. HandedAway'
  <2>1. \A d \in Cpus : pc[d] = "reparent" => cur[d] \in TCBs
    BY <1>0, HeldTask
  <2> QED
    BY <1>0, <1>1, <1>3, <2>1 DEF Family, HandedAway
<1>8. HasParent'
  <2> SUFFICES ASSUME NEW w \in TCBs, status[w] \in Alive \/ Signalling(w), ppid[w] \in Tids
               PROVE  \E p \in TCBs : status[p] \in Alive /\ w \in kids'[p] /\ tid[p] = ppid[w]
    BY <1>1, <1>3, <1>5 DEF HasParent
  <2>1. w # u
    BY <1>4
  <2> QED
    BY <1>0, <1>3, <2>1 DEF Family, HasParent
<1>9. KnowsParent'
  BY <1>0, <1>1, <1>3, <1>5 DEF Family, KnowsParent
<1>. QED
  BY <1>6, <1>7, <1>8, <1>9 DEF Family

(* Every step keeps families together.                                     *)
LEMMA FamilyStep ==
  ASSUME \A k \in CloneKinds : ~k.parent, FamilyInv, [Next]_vars
  PROVE  FamilyInv'
<1>0. IInv /\ IInv'
  BY NextIInv DEF FamilyInv
<1>1. ASSUME NEW c \in Cpus, LoadNextTestcase(c) PROVE Family'
  <2>1. pc[c] = "idle" /\ TestEnv /\ kids' = kids /\ todo' = todo
    BY <1>1 DEF LoadNextTestcase
  <2>2. LateSame
    BY <1>0, <1>1, Types DEF LoadNextTestcase, LateSame, Late, ZombiePc
  <2> QED
    BY <1>1, <2>1, <2>2, LoadedBlock, FamilyBirth
<1>2. ASSUME NEW c \in Cpus, NEW k \in CloneKinds, Clone(c, k) PROVE Family'
  <2>1. /\ status[cur[c]] = "Running" /\ cur[c] \in TCBs
        /\ Fresh \in TCBs /\ status[Fresh] = "unborn"
    BY <1>0, <1>2, ClonedBlock
  <2>2. PpidFor(cur[c], k) = tid[cur[c]]
    BY DEF PpidFor
  <2>3. LateSame /\ todo' = todo /\ kids' = [kids EXCEPT ![cur[c]] = @ \cup {Fresh}]
    BY <1>2 DEF Clone, LateSame, cpuVars
  <2>4. PICK i \in freeTids : \E p, x, v : NewBlock(Fresh, i, p, x, v, PpidFor(cur[c], k))
    BY <1>0, <1>2, ClonedBlock
  <2>5. PICK p, x, v : NewBlock(Fresh, i, p, x, v, tid[cur[c]])
    BY <2>2, <2>4
  <2> QED
    BY <2>1, <2>3, <2>5, FamilyBirth
<1>. QED
  BY <1>0, <1>1, <1>2, Sorted, CalmFamily, FamilyStartZombie, FamilyReparent, FamilyBury,
     FamilySendSigchld, FamilyLogoff, FamilyRelease, FamilyReap DEF FamilyInv

(* The kernel starts with one task, which is nobody's child.               *)
LEMMA FamilyInit == Init => FamilyInv
<1> SUFFICES ASSUME Init PROVE Family
  BY InitIInv DEF FamilyInv
<1>1. Listed /\ PpidKind
  BY Constants, TidsNat DEF Init, Listed, PpidKind, Alive, NoParent
<1>2. HandedAway /\ KnowsParent
  BY DEF Init, HandedAway, KnowsParent
<1>3. HasParent
  BY TidsNat DEF Init, HasParent
<1>. QED
  BY <1>1, <1>2, <1>3 DEF Family

(* The ppid of a task that can run, if it is a tid, is that of a task that *)
(* has not been buried: what getppid answers is never somebody else's.     *)
THEOREM ParentsAlive ==
  ASSUME \A k \in CloneKinds : ~k.parent PROVE Spec => []PpidAlive
<1>1. FamilyInv /\ [Next]_vars => FamilyInv'
  BY FamilyStep
<1>2. FamilyInv => PpidAlive
  BY DEF FamilyInv, Family, HasParent, PpidAlive, Alive
<1>. QED
  BY <1>1, <1>2, FamilyInit, PTL DEF Spec

(* SIGCHLD reaches the task whose children hold the zombie, and no other.  *)
THEOREM SignalsParent ==
  ASSUME \A k \in CloneKinds : ~k.parent PROVE Spec => []SigchldToParent
<1>1. FamilyInv /\ [Next]_vars => FamilyInv'
  BY FamilyStep
<1>2. FamilyInv => SigchldToParent
  <2> SUFFICES ASSUME FamilyInv, NEW c \in Cpus, NEW q \in TCBs, pc[c] = "sigchld",
                      ppid[cur[c]] # 0
               PROVE  Receiver(ppid[cur[c]]) = q <=>
                        cur[c] \in kids[q] /\ ~HandedOver(q, cur[c])
    BY DEF SigchldToParent
  <2> DEFINE u == cur[c]
  <2>0. IInv /\ Family /\ u \in TCBs /\ Signalling(u)
    BY HeldTask DEF FamilyInv, Signalling
  <2> HIDE DEF u
  <2>1. ASSUME Receiver(ppid[u]) = q PROVE u \in kids[q] /\ ~HandedOver(q, u)
    <3>1. ppid[u] \in Tids /\ table[ppid[u]] = q
      BY <2>1, Constants DEF Receiver
    <3>2. Exists(q) /\ tid[q] = ppid[u]
      BY <2>0, <3>1, Constants DEF IInv, TableExact
    <3>3. PICK p \in TCBs : status[p] \in Alive /\ u \in kids[p] /\ tid[p] = ppid[u]
      BY <2>0, <3>1 DEF Family, HasParent
    <3>4. p = q
      BY <2>0, <3>2, <3>3 DEF IInv, TidUnique, Exists, Alive
    <3> QED
      BY <2>0, <3>1, <3>3, <3>4 DEF Family, HandedAway, HandedOver
  <2>2. ASSUME u \in kids[q], ~HandedOver(q, u) PROVE Receiver(ppid[u]) = q
    <3>1. ppid[u] = tid[q] /\ status[q] \in Alive
      BY <2>0, <2>2 DEF Family, KnowsParent, u
    <3>2. table[tid[q]] = q /\ tid[q] \in Tids
      BY <2>0, <3>1, FamilyTypes DEF Family, Listed
    <3> QED
      BY <3>1, <3>2 DEF Receiver
  <2> QED
    BY <2>1, <2>2 DEF u
<1>. QED
  BY <1>1, <1>2, FamilyInit, PTL DEF Spec

-----------------------------------------------------------------------------
(***************************************************************************)
(* What the promises of the form "at last" rest on.  That they are kept    *)
(* needs fairness, and TLC checks it; that nobody waits for somebody who   *)
(* waits for him, and that nothing gained is lost again, needs none.       *)
(***************************************************************************)

Less == {ss \in Nat \X Nat : ss[1] < ss[2]}

(* Among finitely many one has the highest number.                         *)
LEMMA HasHighest ==
  ASSUME NEW S, IsFiniteSet(S), S # {}, NEW f \in [S -> Nat]
  PROVE  \E c \in S : \A d \in S : f[d] <= f[c]
<1> DEFINE Tops(X) == \E c \in X : \A d \in X : f[d] <= f[c]
           N == {n \in Nat : \E X \in SUBSET S : X # {} /\ Cardinality(X) = n /\ ~Tops(X)}
<1>1. CASE N = {}
  <2>1. Cardinality(S) \in Nat
    BY FS_CardinalityType
  <2>2. Cardinality(S) \notin N
    BY <1>1
  <2> QED
    BY <2>1, <2>2
<1>2. CASE N # {}
  <2>1. IsWellFoundedOn(Less, Nat)
    BY NatLessThanWellFounded DEF OpToRel, Less
  <2>2. PICK n \in N : \A m \in N : ~(<<m, n>> \in Less)
    BY <1>2, <2>1, WFMin
  <2>3. n \in Nat /\ \A m \in N : ~(m < n)
    BY <2>2 DEF Less
  <2>4. PICK X \in SUBSET S : X # {} /\ Cardinality(X) = n /\ ~Tops(X)
    OBVIOUS
  <2>5. IsFiniteSet(X)
    BY FS_Subset
  <2>6. PICK x \in X : TRUE
    BY <2>4
  <2> DEFINE Y == X \ {x}
  <2>7. Y \in SUBSET S /\ Cardinality(Y) = n - 1 /\ Cardinality(Y) \in Nat
    BY <2>3, <2>4, <2>5, FS_RemoveElement, FS_CardinalityType
  <2>8. Y # {}
    <3>1. Y = {} => Tops(X)
      BY <2>6
    <3> QED
      BY <2>4, <3>1
  <2>9. Tops(Y)
    BY <2>3, <2>7, <2>8
  <2>10. PICK y \in Y : \A d \in Y : f[d] <= f[y]
    BY <2>9
  <2>11. \A d \in X : f[d] \in Nat /\ (d \in Y \/ d = x)
    OBVIOUS
  <2>12. CASE f[x] <= f[y]
    BY <2>4, <2>10, <2>11, <2>12
  <2>13. CASE ~(f[x] <= f[y])
    <3>1. \A d \in X : f[d] <= f[x]
      BY <2>10, <2>11, <2>13
    <3> QED
      BY <2>4, <2>6, <3>1
  <2> QED
    BY <2>12, <2>13
<1>. QED
  BY <1>1, <1>2

(* Families have no circles: every child stands above its parent, and the  *)
(* origin process at the bottom.                                           *)
RankedBy(r) ==
  /\ r \in [TCBs -> Nat]
  /\ ~TestEnv => r[Root] = 0
  /\ \A p \in TCBs : \A u \in kids[p] : r[p] < r[u]
Ranked == \E r : RankedBy(r)

RankInv == ReapInv /\ Ranked

(* A new block is nobody's parent yet and takes its place above its own.   *)
LEMMA RankedBirth ==
  ASSUME RankInv, NEW c \in Cpus, NEW k \in CloneKinds, Clone(c, k)
  PROVE  Ranked'
<1>0. IInv /\ Reapers
  BY DEF RankInv, ReapInv
<1>1. PICK r : RankedBy(r)
  BY DEF RankInv, Ranked
<1>2. /\ Fresh \in TCBs /\ status[Fresh] = "unborn" /\ cur[c] \in TCBs
      /\ status[cur[c]] = "Running"
  BY <1>0, ClonedBlock
<1>3. \A p \in TCBs : Fresh \notin kids[p]
  BY <1>0, <1>2 DEF IInv, KidsExist, Exists
<1>4. kids[Fresh] = {}
  BY <1>0, <1>2 DEF Reapers, Alive
<1>5. ~TestEnv => Fresh # Root
  BY <1>0, <1>2 DEF Reapers
<1>6. \A p \in TCBs : \/ kids'[p] = kids[p]
                      \/ p = cur[c] /\ kids'[p] = kids[p] \cup {Fresh}
  <2>1. \/ kids' = kids
        \/ kids' = [kids EXCEPT ![cur[c]] = kids[cur[c]] \cup {Fresh}]
    BY DEF Clone
  <2>2. kids \in [TCBs -> SUBSET TCBs]
    BY <1>0, Types
  <2>3. CASE kids' = kids
    BY <2>3
  <2>4. CASE kids' = [kids EXCEPT ![cur[c]] = kids[cur[c]] \cup {Fresh}]
    BY <1>2, <2>2, <2>4
  <2> QED
    BY <2>1, <2>3, <2>4
<1>7. kids \in [TCBs -> SUBSET TCBs] /\ r \in [TCBs -> Nat] /\ Fresh # cur[c]
  BY <1>0, <1>1, <1>2, Types DEF RankedBy
<1>8. PICK q \in [TCBs -> Nat] : \A t \in TCBs : q[t] = IF t = Fresh THEN r[cur[c]] + 1 ELSE r[t]
  <2> DEFINE g == [t \in TCBs |-> IF t = Fresh THEN r[cur[c]] + 1 ELSE r[t]]
  <2>1. g \in [TCBs -> Nat] /\ \A t \in TCBs : g[t] = IF t = Fresh THEN r[cur[c]] + 1 ELSE r[t]
    BY <1>2, <1>7
  <2> QED
    BY <2>1
<1>9. ~TestEnv => q[Root] = 0
  BY <1>1, <1>5, <1>8, Constants DEF RankedBy
<1>10. ASSUME NEW p \in TCBs, NEW u \in kids'[p] PROVE q[p] < q[u]
  <2>1. p # Fresh
    BY <1>2, <1>4, <1>6, <1>7
  <2>2. CASE u \in kids[p]
    <3>1. u \in TCBs /\ u # Fresh /\ r[p] < r[u]
      BY <1>1, <1>3, <1>7, <2>2 DEF RankedBy
    <3> QED
      BY <1>8, <2>1, <3>1
  <2>3. CASE u \notin kids[p]
    <3>1. p = cur[c] /\ u = Fresh
      BY <1>6, <2>3
    <3>2. q[u] = r[p] + 1 /\ q[p] = r[p] /\ r[p] \in Nat
      BY <1>2, <1>7, <1>8, <3>1
    <3> QED
      BY <3>2
  <2> QED
    BY <2>2, <2>3
<1>11. RankedBy(q)'
  BY <1>8, <1>9, <1>10 DEF RankedBy
<1>. QED
  BY <1>11 DEF Ranked

(* No step closes a circle.                                                *)
LEMMA RankStep ==
  ASSUME TestEnv \/ OriginStays, RankInv, [Next]_vars
  PROVE  RankInv'
<1>0. ReapInv' /\ IInv
  BY ReapInvStep DEF RankInv, ReapInv
<1> SUFFICES Ranked'
  BY <1>0 DEF RankInv
<1>1. PICK r : RankedBy(r)
  BY DEF RankInv, Ranked
<1>2. ASSUME \A p \in TCBs : kids'[p] \subseteq kids[p] PROVE Ranked'
  BY <1>1, <1>2 DEF RankedBy, Ranked
<1>3. CASE Calm
  <2>1. kids' = kids
    BY <1>3 DEF Calm
  <2>2. \A p \in TCBs : kids'[p] \subseteq kids[p]
    BY <2>1
  <2> QED
    BY <1>2, <2>2
<1>4. ASSUME NEW c \in Cpus, LoadNextTestcase(c) \/ StartZombie(c) \/ SendSigchld(c)
                             \/ Logoff(c) \/ Release(c)
      PROVE  Ranked'
  <2>1. kids' = kids
    BY <1>4 DEF LoadNextTestcase, StartZombie, SendSigchld, Logoff, Release
  <2>2. \A p \in TCBs : kids'[p] \subseteq kids[p]
    BY <2>1
  <2> QED
    BY <1>2, <2>2
<1>5. ASSUME NEW c \in Cpus, NEW k \in CloneKinds, Clone(c, k) PROVE Ranked'
  BY <1>5, RankedBirth
<1>6. ASSUME NEW c \in Cpus, Reparent(c) PROVE Ranked'
  <2>1. PICK u \in todo[c] :
          /\ u \in TCBs
          /\ \/ kids' = kids
             \/ /\ ~TestEnv
                /\ \A q \in TCBs : kids'[q] = IF q = Root THEN kids[q] \cup {u} ELSE kids[q]
    BY <1>0, <1>6, ReparentEffect
  <2>2. cur[c] \in TCBs /\ u \in kids[cur[c]]
    BY <1>0, <1>6, ReparentEffect
  <2>3. r[cur[c]] < r[u] /\ r[cur[c]] \in Nat /\ r[u] \in Nat
    BY <1>1, <2>1, <2>2 DEF RankedBy
  <2>4. ASSUME NEW p \in TCBs, NEW x \in kids'[p] PROVE r[p] < r[x]
    <3>1. x \in kids[p] \/ (~TestEnv /\ p = Root /\ x = u)
      BY <2>1
    <3>2. ~TestEnv /\ p = Root /\ x = u => r[p] = 0 /\ 0 < r[u]
      BY <1>1, <2>3 DEF RankedBy
    <3> QED
      BY <1>1, <3>1, <3>2 DEF RankedBy
  <2>5. RankedBy(r)'
    BY <1>1, <2>4 DEF RankedBy
  <2> QED
    BY <2>5 DEF Ranked
<1>7. ASSUME NEW c \in Cpus, Bury(c) PROVE Ranked'
  <2>1. \A p \in TCBs : kids'[p] \subseteq kids[p]
    BY <1>0, <1>7, BuryEffect
  <2> QED
    BY <1>2, <2>1
<1>8. ASSUME NEW c \in Cpus, Reap(c) PROVE Ranked'
  <2>1. \A p \in TCBs : kids'[p] \subseteq kids[p]
    BY <1>0, <1>8, ReapEffect
  <2> QED
    BY <1>2, <2>1
<1>. QED
  BY <1>0, <1>3, <1>4, <1>5, <1>6, <1>7, <1>8, Sorted

LEMMA RankInit == Init => RankInv
<1> SUFFICES ASSUME Init PROVE RankInv
  OBVIOUS
<1>1. ReapInv
  BY InitIInv, Constants DEF Init, ReapInv, Reapers
<1>2. RankedBy([t \in TCBs |-> 0])
  BY Constants DEF Init, RankedBy
<1>. QED
  BY <1>1, <1>2 DEF RankInv, Ranked

(* A core inside handle_zombie_task can take its next step: of the locks   *)
(* it tries, for a child it has to hand over, none is taken.               *)
CanGoOn(c) ==
  \/ pc[c] \in {"sigchld", "logoff"}
  \/ pc[c] = "reparent" /\ todo[c] = {}
  \/ /\ pc[c] = "reparent"
     /\ \E u \in todo[c] :
          ~Locked(u) /\ (ppid[cur[c]] = NoParent \/ TestEnv \/ ~Locked(Root))

SomeoneGoesOn ==
  (\E c \in Cpus : pc[c] \in ZombiePc) => \E c \in Cpus : pc[c] \in ZombiePc /\ CanGoOn(c)

(* handle_zombie_task does not deadlock, however many cores bury parents,  *)
(* children and grandchildren at once, each with its own task's lock: who  *)
(* buries the youngest of a line finds the locks of that task's children   *)
(* free.  It relies on an origin process that stays; its own exit waits    *)
(* for its own lock.                                                       *)
THEOREM NoDeadlock ==
  ASSUME TestEnv \/ OriginStays PROVE Spec => []SomeoneGoesOn
<1>1. RankInv => SomeoneGoesOn
  <2> DEFINE H == {c \in Cpus : pc[c] \in ZombiePc}
  <2> SUFFICES ASSUME RankInv, H # {}, \A c \in H : ~CanGoOn(c) PROVE FALSE
    BY DEF SomeoneGoesOn
  <2>0. IInv /\ Reapers
    BY DEF RankInv, ReapInv
  <2>1. PICK r : RankedBy(r)
    BY DEF RankInv, Ranked
  <2>2. \A c \in H : c \in Cpus /\ pc[c] = "reparent" /\ todo[c] # {}
    BY DEF CanGoOn, ZombiePc
  <2>3. \A c \in H : cur[c] \in TCBs /\ todo[c] \subseteq kids[cur[c]] /\ status[cur[c]] = "Dying"
    BY <2>0, <2>2, HeldTask DEF IInv, KidsExist, CpuShape
  <2>4. IsFiniteSet(H)
    BY TasksAssumption, FS_Subset
  <2> DEFINE f == [c \in H |-> r[cur[c]]]
  <2>5. f \in [H -> Nat]
    BY <2>1, <2>3 DEF RankedBy
  <2>6. PICK c \in H : \A d \in H : f[d] <= f[c]
    <3> HIDE DEF H, f
    <3> QED
      BY <2>4, <2>5, HasHighest
  <2>7. PICK u \in todo[c] : TRUE
    BY <2>2
  <2>8. u \in TCBs /\ r[cur[c]] < r[u] /\ r[u] \in Nat /\ r[cur[c]] \in Nat
    BY <2>0, <2>1, <2>3, <2>6, <2>7, Types DEF RankedBy
  <2>9. ~Locked(u)
    <3> SUFFICES ASSUME NEW d \in H, cur[d] = u PROVE FALSE
      BY DEF Locked
    <3>1. r[u] <= r[cur[c]]
      BY <2>6
    <3> QED
      BY <2>8, <3>1
  <2>10. ~TestEnv => ~Locked(Root)
    <3> SUFFICES ASSUME ~TestEnv, NEW d \in H, cur[d] = Root PROVE FALSE
      BY DEF Locked
    <3> QED
      BY <2>0, <2>3 DEF Reapers
  <2> QED
    BY <2>2, <2>6, <2>7, <2>9, <2>10 DEF CanGoOn
<1>. QED
  BY <1>1, RankInit, RankStep, PTL DEF Spec

(* What a core does next inside handle_zombie_task: it hands over one more *)
(* child, or leaves the loop, or goes on to the next of the three calls.   *)
Forward(c) ==
  \/ UNCHANGED <<pc[c], cur[c], todo[c]>>
  \/ /\ cur'[c] = cur[c]
     /\ \/ /\ pc[c] = "reparent" /\ pc'[c] = "reparent"
           /\ todo'[c] \subseteq todo[c] /\ todo'[c] # todo[c]
        \/ pc[c] = "reparent" /\ todo[c] = {} /\ pc'[c] \in {"sigchld", "logoff"}
        \/ pc[c] = "sigchld" /\ pc'[c] = "logoff"
        \/ pc[c] = "logoff" /\ pc'[c] = "release"

(* Nobody gives a dying task new children to hand over, takes its core     *)
(* away, or makes it start again: with NoDeadlock, each core there needs   *)
(* no more steps than its task had children, and three.                    *)
THEOREM HandlingAdvances == Spec => [][\A c \in Cpus : pc[c] \in ZombiePc => Forward(c)]_vars
<1>1. IInv /\ [Next]_vars => \A c \in Cpus : pc[c] \in ZombiePc => Forward(c)
  <2> SUFFICES ASSUME IInv, [Next]_vars, NEW c \in Cpus, pc[c] \in ZombiePc PROVE Forward(c)
    OBVIOUS
  <2>1. CASE Calm
    BY <2>1 DEF Calm, LateSame, Late, Forward
  <2>2. ASSUME NEW d \in Cpus, LoadNextTestcase(d) PROVE Forward(c)
    <3>1. pc[d] = "idle" /\ d # c /\ UNCHANGED todo
      BY <2>2 DEF LoadNextTestcase, ZombiePc
    <3>2. pc'[c] = pc[c] /\ cur'[c] = cur[c]
      BY <2>2, <3>1, Types DEF LoadNextTestcase
    <3> QED
      BY <3>1, <3>2 DEF Forward
  <2>3. ASSUME NEW d \in Cpus, (\E k \in CloneKinds : Clone(d, k)) \/ Reap(d) PROVE Forward(c)
    BY <2>3 DEF Clone, Reap, cpuVars, Forward
  <2>4. ASSUME NEW d \in Cpus, StartZombie(d) PROVE Forward(c)
    <3>1. pc[d] = "back" /\ d # c
      BY <2>4 DEF StartZombie, ZombiePc
    <3> QED
      BY <2>4, <3>1, StartZombieEffect DEF Forward
  <2>5. ASSUME NEW d \in Cpus, Reparent(d) PROVE Forward(c)
    <3>1. PICK u \in todo[d] : \A e \in Cpus : todo'[e] = IF e = d THEN todo[e] \ {u} ELSE todo[e]
      BY <2>5, ReparentEffect
    <3>2. pc[d] = "reparent" /\ UNCHANGED <<pc, cur>>
      BY <2>5, ReparentEffect
    <3> QED
      BY <3>1, <3>2 DEF Forward
  <2>6. ASSUME NEW d \in Cpus, Bury(d) PROVE Forward(c)
    BY <2>6, BuryEffect DEF Forward
  <2>7. ASSUME NEW d \in Cpus, SendSigchld(d) PROVE Forward(c)
    BY <2>7, SendSigchldEffect DEF Forward
  <2>8. ASSUME NEW d \in Cpus, Logoff(d) PROVE Forward(c)
    BY <2>8, LogoffEffect DEF Forward
  <2>9. ASSUME NEW d \in Cpus, Release(d) PROVE Forward(c)
    <3>1. pc[d] = "release" /\ d # c
      BY <2>9 DEF Release, ZombiePc
    <3> QED
      BY <2>9, <3>1, ReleaseEffect DEF Forward
  <2> QED
    BY <2>1, <2>2, <2>3, <2>4, <2>5, <2>6, <2>7, <2>8, <2>9, Sorted
<1>. QED
  BY <1>1, Inductive, PTL DEF Spec

-----------------------------------------------------------------------------
(* A parent that waits for any child.                                      *)

(* Who is inside wait4 can come back from it.                              *)
WaitsAlive == \A t \in TCBs : waiting[t] # NotWaiting => status[t] \in {"Ready", "Running"}

WaitInv == IInv /\ WaitsAlive

(* Only the waiter's own core changes what it waits for.                   *)
LEMMA WaitingEffect ==
  ASSUME IInv, [Next]_vars
  PROVE  \/ waiting' = waiting
         \/ \E c \in Cpus :
              /\ cur[c] \in TCBs
              /\ \/ Reap(c) /\ \A t \in TCBs : waiting'[t] = IF t = cur[c] THEN NotWaiting ELSE waiting[t]
                 \/ /\ WaitSuspend(c)
                    /\ \E p \in WaitArgs(cur[c]) :
                         \A t \in TCBs : waiting'[t] = IF t = cur[c] THEN p ELSE waiting[t]
<1>1. waiting \in [TCBs -> Tids \cup {NotWaiting, AnyChild}]
  BY DEF IInv, TypeOK
<1>2. ASSUME NEW c \in Cpus, Reap(c) PROVE
        cur[c] \in TCBs /\ \A t \in TCBs : waiting'[t] = IF t = cur[c] THEN NotWaiting ELSE waiting[t]
  BY <1>1, <1>2, HeldTask DEF Reap
<1>3. ASSUME NEW c \in Cpus, WaitSuspend(c) PROVE
        /\ cur[c] \in TCBs
        /\ \E p \in WaitArgs(cur[c]) :
             \A t \in TCBs : waiting'[t] = IF t = cur[c] THEN p ELSE waiting[t]
  BY <1>1, <1>3, HeldTask DEF WaitSuspend
<1>4. ASSUME NEW c \in Cpus, Kernel(c) PROVE waiting' = waiting
  BY <1>4 DEF Kernel, Fetch, LoadNextTestcase, FinalInfo, PushBlocked, Dispatch, PushBack,
              StartZombie, Reparent, Bury, SendSigchld, Logoff, Release
<1>5. ASSUME NEW c \in Cpus, Program(c) PROVE waiting' = waiting
  BY <1>5 DEF Program, Yield, FutexWait, TakeSigchld, Exec, Exit, Clone, TidExhausted
<1>6. CASE (\E i \in Tids : TimeOut(i)) \/ UNCHANGED vars
  BY <1>6 DEF TimeOut, vars
<1>. QED
  BY <1>2, <1>3, <1>4, <1>5, <1>6 DEF Next, Wait4

(* No step but exit ends the life of a task that can run, and it is made   *)
(* outside wait4.                                                          *)
LEMMA StillRuns ==
  ASSUME WaitInv, [Next]_vars, NEW t \in TCBs, status[t] \in {"Ready", "Running"},
         waiting[t] # NotWaiting
  PROVE  status'[t] \in {"Ready", "Running"}
<1>0. IInv
  BY DEF WaitInv
<1>1. ASSUME NEW c \in Cpus, Exit(c) PROVE status'[t] = status[t]
  BY <1>0, <1>1, Types DEF Exit, InUser
<1>2. ASSUME NEW c \in Cpus, Dispatch(c) \/ WaitSuspend(c) \/ Yield(c) \/ FutexWait(c)
      PROVE  status'[t] \in {"Ready", "Running"}
  BY <1>0, <1>2, Types DEF Dispatch, WaitSuspend, Yield, FutexWait, Suspend
<1>3. ASSUME NEW c \in Cpus, \/ Fetch(c) \/ FinalInfo(c) \/ PushBlocked(c) \/ PushBack(c)
                             \/ TakeSigchld(c) \/ Exec(c) \/ TidExhausted(c)
      PROVE  status' = status
  BY <1>3 DEF Fetch, FinalInfo, PushBlocked, PushBack, TakeSigchld, Exec, TidExhausted
<1>4. ASSUME NEW c \in Cpus, LoadNextTestcase(c) \/ \E k \in CloneKinds : Clone(c, k)
      PROVE  status'[t] = status[t]
  BY <1>0, <1>4, FreshUnborn, Types DEF LoadNextTestcase, Clone, NewBlock
<1>5. ASSUME NEW c \in Cpus, \/ StartZombie(c) \/ Reparent(c) \/ SendSigchld(c) \/ Logoff(c)
      PROVE  status' = status
  BY <1>5 DEF StartZombie, Reparent, SendSigchld, Logoff
<1>6. ASSUME NEW c \in Cpus, Bury(c) PROVE status'[t] = status[t]
  BY <1>0, <1>6, BuryEffect
<1>7. ASSUME NEW c \in Cpus, Release(c) PROVE status'[t] = status[t]
  BY <1>0, <1>7, ReleaseEffect
<1>8. ASSUME NEW c \in Cpus, Reap(c) PROVE status'[t] = status[t]
  BY <1>0, <1>8, ReapEffect
<1>9. CASE (\E i \in Tids : TimeOut(i)) \/ UNCHANGED vars
  BY <1>9 DEF TimeOut, vars
<1>. QED
  BY <1>1, <1>2, <1>3, <1>4, <1>5, <1>6, <1>7, <1>8, <1>9 DEF Next, Kernel, Wait4, Program

LEMMA WaitStep == ASSUME WaitInv, [Next]_vars PROVE WaitInv'
<1>0. IInv /\ IInv'
  BY NextIInv DEF WaitInv
<1> SUFFICES ASSUME NEW t \in TCBs, waiting'[t] # NotWaiting
             PROVE  status'[t] \in {"Ready", "Running"}
  BY <1>0 DEF WaitInv, WaitsAlive
<1>1. CASE waiting[t] # NotWaiting
  BY <1>1, StillRuns DEF WaitInv, WaitsAlive
<1>2. CASE waiting[t] = NotWaiting
  <2>1. PICK c \in Cpus : WaitSuspend(c) /\ t = cur[c]
    BY <1>0, <1>2, WaitingEffect
  <2> QED
    BY <1>0, <2>1, Types DEF WaitSuspend, Suspend
<1>. QED
  BY <1>1, <1>2

(* The child u has exited and t can take it.                               *)
Due(t, u) == waiting[t] = AnyChild /\ u \in kids[t] /\ status[u] = "Zombie" /\ ~Locked(u)

(* A core gets the lock of a task that is not dead yet, or never.          *)
LEMMA LocksTheDying ==
  ASSUME IInv, [Next]_vars, NEW u \in TCBs, status[u] = "Zombie", ~Locked(u)
  PROVE  ~Locked(u)'
<1>1. CASE Calm
  BY <1>1 DEF Calm, LateSame, Late, ZombiePc, Locked
<1>2. ASSUME NEW c \in Cpus, LoadNextTestcase(c) PROVE ~Locked(u)'
  BY <1>2, Types DEF LoadNextTestcase, Locked, ZombiePc
<1>3. ASSUME NEW c \in Cpus, (\E k \in CloneKinds : Clone(c, k)) \/ Reap(c) PROVE ~Locked(u)'
  BY <1>3 DEF Clone, Reap, cpuVars, Locked
<1>4. ASSUME NEW c \in Cpus, StartZombie(c) PROVE ~Locked(u)'
  BY <1>4, StartZombieEffect DEF Locked, ZombiePc
<1>5. ASSUME NEW c \in Cpus, Reparent(c) PROVE ~Locked(u)'
  BY <1>5, ReparentEffect DEF Locked
<1>6. ASSUME NEW c \in Cpus, Bury(c) PROVE ~Locked(u)'
  BY <1>6, BuryEffect DEF Locked, ZombiePc
<1>7. ASSUME NEW c \in Cpus, SendSigchld(c) PROVE ~Locked(u)'
  BY <1>7, SendSigchldEffect DEF Locked, ZombiePc
<1>8. ASSUME NEW c \in Cpus, Logoff(c) PROVE ~Locked(u)'
  BY <1>8, LogoffEffect DEF Locked, ZombiePc
<1>9. ASSUME NEW c \in Cpus, Release(c) PROVE ~Locked(u)'
  BY <1>9, ReleaseEffect DEF Locked, ZombiePc
<1>. QED
  BY <1>1, <1>2, <1>3, <1>4, <1>5, <1>6, <1>7, <1>8, <1>9, Sorted

(* A list loses a child only to its owner.                                 *)
LEMMA ListsKeep ==
  ASSUME IInv, [Next]_vars, NEW t \in TCBs, status[t] \in {"Ready", "Running"}, NEW u \in kids[t]
  PROVE  u \in kids'[t] \/ \E c \in Cpus : Reap(c) /\ cur[c] = t
<1>1. CASE Calm
  BY <1>1 DEF Calm
<1>2. ASSUME NEW c \in Cpus, LoadNextTestcase(c) \/ StartZombie(c) \/ SendSigchld(c)
                             \/ Logoff(c) \/ Release(c)
      PROVE  u \in kids'[t]
  <2>1. kids' = kids
    BY <1>2 DEF LoadNextTestcase, StartZombie, SendSigchld, Logoff, Release
  <2> QED
    BY <2>1
<1>3. ASSUME NEW c \in Cpus, NEW k \in CloneKinds, Clone(c, k) PROVE u \in kids'[t]
  BY <1>3, Types DEF Clone
<1>4. ASSUME NEW c \in Cpus, Reparent(c) PROVE u \in kids'[t]
  BY <1>4, ReparentEffect
<1>5. ASSUME NEW c \in Cpus, Bury(c) PROVE u \in kids'[t]
  BY <1>5, BuryEffect
<1>6. ASSUME NEW c \in Cpus, Reap(c), cur[c] # t PROVE u \in kids'[t]
  BY <1>6, ReapEffect
<1>. QED
  BY <1>1, <1>2, <1>3, <1>4, <1>5, <1>6, Sorted

(* A parent inside wait4(-1) with an exited child keeps it until it has    *)
(* returned: nobody else takes the child, locks it, frees it or kills the  *)
(* parent, whoever dies or is adopted meanwhile.  So whenever it gets a    *)
(* core, by TurnsCome, it has something to reap.                           *)
THEOREM ExitedChildKept ==
  Spec => [][\A t, u \in TCBs : Due(t, u) => Due(t, u)' \/ waiting'[t] = NotWaiting]_vars
<1>1. Init => WaitInv
  BY InitIInv DEF Init, WaitInv, WaitsAlive
<1>2. WaitInv /\ [Next]_vars => WaitInv'
  BY WaitStep
<1>3. WaitInv /\ [Next]_vars =>
        \A t, u \in TCBs : Due(t, u) => Due(t, u)' \/ waiting'[t] = NotWaiting
  <2> SUFFICES ASSUME WaitInv, [Next]_vars, NEW t \in TCBs, NEW u \in TCBs, Due(t, u),
                      waiting'[t] # NotWaiting
               PROVE  Due(t, u)'
    OBVIOUS
  <2>1. /\ IInv /\ IInv' /\ waiting[t] = AnyChild /\ AnyChild # NotWaiting /\ u \in kids[t]
        /\ status[u] = "Zombie" /\ ~Locked(u) /\ status[t] \in {"Ready", "Running"}
    BY NextIInv DEF WaitInv, WaitsAlive, Due, AnyChild, NotWaiting
  <2>2. waiting'[t] = AnyChild
    BY <2>1, WaitingEffect DEF WaitArgs
  <2>3. u \in kids'[t]
    <3>1. ASSUME NEW c \in Cpus, Reap(c), cur[c] = t PROVE FALSE
      <4>1. waiting \in [TCBs -> Tids \cup {NotWaiting, AnyChild}]
        BY <2>1 DEF IInv, TypeOK
      <4> QED
        BY <3>1, <4>1 DEF Reap
    <3> QED
      BY <2>1, <3>1, ListsKeep
  <2>4. status'[u] = "Zombie"
    <3>1. status'[u] \in Statuses /\ status'[u] # "freed" /\ status'[u] # "unborn"
      BY <2>1, <2>3, Types DEF IInv, KidsExist, Exists, TypeOK
    <3>2. status'[u] \notin Alive
      <4>1. CASE Ages
        BY <2>1, <4>1 DEF Ages, Alive
      <4>2. ASSUME NEW c \in Cpus, LoadNextTestcase(c) \/ \E k \in CloneKinds : Clone(c, k)
            PROVE  status'[u] = status[u]
        BY <2>1, <4>2, FreshUnborn, Types DEF LoadNextTestcase, Clone, NewBlock
      <4>3. Calm => Ages
        BY CalmAges
      <4> QED
        BY <2>1, <4>1, <4>2, <4>3, Sorted, StartZombieEffect, ReparentEffect, BuryEffect,
           SendSigchldEffect, LogoffEffect, ReleaseEffect, ReapEffect DEF Alive
    <3> QED
      BY <3>1, <3>2 DEF Statuses, Alive
  <2>5. ~Locked(u)'
    BY <2>1, LocksTheDying
  <2> QED
    BY <2>2, <2>3, <2>4, <2>5 DEF Due
<1>. QED
  BY <1>1, <1>2, <1>3, PTL DEF Spec

-----------------------------------------------------------------------------
(* The run queue.                                                          *)

(* A task goes to its end, or leaves it at its head for a core.            *)
LEMMA QueueEffect ==
  ASSUME IInv, [Next]_vars
  PROVE  \/ queue' = queue
         \/ \E t \in TCBs : queue' = Append(queue, t)
         \/ \E c \in Cpus : queue # <<>> /\ queue' = Tail(queue) /\ cur'[c] = Head(queue)
<1>1. ASSUME NEW c \in Cpus, Fetch(c)
      PROVE  queue # <<>> /\ queue' = Tail(queue) /\ cur'[c] = Head(queue)
  BY <1>1, Types DEF Fetch, Popped
<1>2. ASSUME NEW c \in Cpus, PushBlocked(c) \/ PushBack(c)
      PROVE  cur[c] \in TCBs /\ queue' = Append(queue, cur[c])
  BY <1>2, HeldTask DEF PushBlocked, PushBack, Push
<1>3. ASSUME NEW c \in Cpus, NEW k \in CloneKinds, Clone(c, k)
      PROVE  Fresh \in TCBs /\ queue' = Append(queue, Fresh)
  BY <1>3, FreshUnborn DEF Clone, Push
<1>4. ASSUME NEW c \in Cpus,
             \/ LoadNextTestcase(c) \/ FinalInfo(c) \/ Dispatch(c) \/ StartZombie(c)
             \/ Reparent(c) \/ Bury(c) \/ SendSigchld(c) \/ Logoff(c) \/ Release(c)
      PROVE  queue' = queue
  BY <1>4 DEF LoadNextTestcase, FinalInfo, Dispatch, StartZombie, Reparent, Bury, SendSigchld,
              Logoff, Release
<1>5. ASSUME NEW c \in Cpus,
             \/ Reap(c) \/ WaitSuspend(c) \/ Yield(c) \/ FutexWait(c) \/ TakeSigchld(c)
             \/ Exec(c) \/ Exit(c) \/ TidExhausted(c)
      PROVE  queue' = queue
  BY <1>5 DEF Reap, WaitSuspend, Yield, FutexWait, TakeSigchld, Exec, Exit, TidExhausted
<1>6. CASE (\E i \in Tids : TimeOut(i)) \/ UNCHANGED vars
  BY <1>6 DEF TimeOut, vars
<1>. QED
  BY <1>1, <1>2, <1>3, <1>4, <1>5, <1>6 DEF Next, Kernel, Wait4, Program

(* Nobody gets ahead of a task in the queue: it keeps its place, moves up  *)
(* by one, or is at the head and gets a core.                              *)
KeepsPlace(i) ==
  \/ i <= Len(queue') /\ queue'[i] = queue[i]
  \/ i > 1 /\ i - 1 <= Len(queue') /\ queue'[i - 1] = queue[i]
  \/ i = 1 /\ \E c \in Cpus : cur'[c] = queue[1]

(* A ready task is not overtaken for as long as it waits, by clones, by    *)
(* tasks that yield or by those a core sends back because they sleep.      *)
THEOREM TurnsCome == Spec => [][\A i \in 1 .. Len(queue) : KeepsPlace(i)]_vars
<1>1. IInv /\ [Next]_vars => \A i \in 1 .. Len(queue) : KeepsPlace(i)
  <2> SUFFICES ASSUME IInv, [Next]_vars, NEW i \in 1 .. Len(queue) PROVE KeepsPlace(i)
    OBVIOUS
  <2>0. queue \in Seq(TCBs) /\ Len(queue) \in Nat /\ i \in Nat /\ 1 <= i /\ i <= Len(queue)
    BY Types
  <2>1. CASE queue' = queue
    BY <2>0, <2>1 DEF KeepsPlace
  <2>2. ASSUME NEW t \in TCBs, queue' = Append(queue, t) PROVE KeepsPlace(i)
    <3>1. Len(queue') = Len(queue) + 1 /\ queue'[i] = queue[i]
      BY <2>0, <2>2
    <3> QED
      BY <2>0, <3>1 DEF KeepsPlace
  <2>3. ASSUME NEW c \in Cpus, queue # <<>>, queue' = Tail(queue), cur'[c] = Head(queue)
        PROVE  KeepsPlace(i)
    <3>1. /\ Len(queue') = Len(queue) - 1 /\ Head(queue) = queue[1]
          /\ \A j \in 1 .. Len(queue) - 1 : queue'[j] = queue[j + 1]
      BY <2>0, <2>3
    <3>2. CASE i = 1
      BY <2>3, <3>1, <3>2 DEF KeepsPlace
    <3>3. CASE i > 1
      <4>1. i - 1 \in 1 .. Len(queue) - 1 /\ (i - 1) + 1 = i
        BY <2>0, <3>3
      <4>2. queue'[i - 1] = queue[i]
        BY <3>1, <4>1
      <4> QED
        BY <2>0, <3>1, <3>3, <4>1, <4>2 DEF KeepsPlace
    <3> QED
      BY <2>0, <3>2, <3>3
  <2> QED
    BY <2>1, <2>2, <2>3, QueueEffect
<1>. QED
  BY <1>1, Inductive, PTL DEF Spec
=============================================================================
