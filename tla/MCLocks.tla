------------------------------ MODULE MCLocks ------------------------------
(* Instances of Locks for TLC: who shares what, and which calls are made.  *)
EXTENDS Locks
Own == [t \in Tasks |-> t]
One == [t \in Tasks |-> CHOOSE u \in Tasks : TRUE]
\* One task by itself, the others together.
Apart == LET lone == CHOOSE u \in Tasks : TRUE
         IN  [t \in Tasks |-> IF t = lone THEN t ELSE CHOOSE u \in Tasks \ {lone} : TRUE]

Sound == DOMAIN PathsOf \ Faulty

\* Processes, two of them in one address space, and one epoll file; threads.
Forked   == [vm |-> Apart, fd |-> Own, epoll |-> One, calls |-> Sound]
Threaded == [vm |-> One, fd |-> One, epoll |-> One, calls |-> Sound \ SleepWithTable]
SoundPrograms == {Forked, Threaded}

\* Both are among the programs that the theorem NoneSpins is about.
ASSUME HarmlessAssumption == \A p \in SoundPrograms : Harmless(p)
=============================================================================
