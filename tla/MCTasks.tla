------------------------------ MODULE MCTasks ------------------------------
(* Instances of Tasks for TLC: which clone flags the programs use.         *)
EXTENDS Tasks, TLC

Kind(t, p, v, s) == [thread |-> t, parent |-> p, vm |-> v, chld |-> s]

Fork    == Kind(FALSE, FALSE, FALSE, TRUE)   \* fork()
VFork   == Kind(FALSE, FALSE, TRUE, TRUE)    \* posix_spawn()
Thread  == Kind(TRUE, FALSE, TRUE, FALSE)    \* pthread_create()

CpuSymmetry == Permutations(Cpus)

ProcessesThreads == {Fork, Thread}
ProcessesVmSharing == {Fork, VFork, Thread}
=============================================================================
