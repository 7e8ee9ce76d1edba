--------------------------- MODULE FdTableProofs ---------------------------
(***************************************************************************)
(* Theorems about FdTable, for any processes, files and capacity: programs *)
(* that are Careful in the sense of that module never make a table's       *)
(* files, its free descriptors and its limit disagree, and never trip an   *)
(* assertion of the kernel.                                                *)
(***************************************************************************)
EXTENDS FdTable, FiniteSetTheorems, WellFoundedInduction, TLAPS

\* What a table's array, bits and limit have to do with each other.
Sound(table, bits, n) ==
  /\ bits \cap {fd \in Fds : table[fd] # NoFile} = {}
  /\ bits \cup {fd \in Fds : table[fd] # NoFile} = Below(n)

\* No table has room for nothing: an allocator of nothing counts down from 0.
TablesSound ==
  \A p \in alive : /\ Sound(file[p], free[p], limit[p])
                   /\ limit[p] > 0

IInv == TypeOK /\ TablesSound /\ NeverPanics

Table == [Fds -> Files \cup {NoFile}]
-----------------------------------------------------------------------------
Less == {ss \in Nat \X Nat : ss[1] < ss[2]}

\* A set of numbers that is not empty has a least one.
LEMMA HasLeast ==
  ASSUME NEW S \in SUBSET Nat, S # {}
  PROVE  Lowest(S) \in S
<1>1. IsWellFoundedOn(Less, Nat)
  BY NatLessThanWellFounded DEF OpToRel, Less
<1>2. PICK x \in S : \A y \in S : ~ (<<y, x>> \in Less)
  BY <1>1, WFMin
<1>3. \A y \in S : ~ (y < x)
  BY <1>2 DEF Less
<1>4. \A y \in S : x <= y
  BY <1>3
<1> QED
  BY <1>4 DEF Lowest, Min

LEMMA FdsType == Fds \in SUBSET Nat /\ \A n \in 0..Hard : Below(n) \in SUBSET Fds
BY FdTableAssumption DEF Fds, Below

\* The parts of the invariant by table.
LEMMA Parts ==
  ASSUME IInv, NEW p \in alive
  PROVE  /\ p \in Procs /\ file[p] \in Table /\ free[p] \in SUBSET Fds
         /\ limit[p] \in 0..Hard /\ limit[p] > 0
         /\ Sound(file[p], free[p], limit[p])
BY DEF IInv, TypeOK, TablesSound, Table

\* A call that changes one table and leaves it sound leaves them all so.
LEMMA OneTable ==
  ASSUME IInv, NEW p \in alive,
         NEW tb \in Table, NEW bits \in SUBSET Fds, NEW n \in 0..Hard,
         Sound(tb, bits, n), n > 0,
         file' = [file EXCEPT ![p] = tb], free' = [free EXCEPT ![p] = bits],
         limit' = [limit EXCEPT ![p] = n],
         cloexec' \in [Files -> BOOLEAN], UNCHANGED <<alive, panicked>>
  PROVE  IInv'
<1>1. p \in Procs
  BY Parts
<1>2. TypeOK'
  BY <1>1 DEF IInv, TypeOK, Table
<1>3. TablesSound'
  BY <1>1 DEF IInv, TypeOK, TablesSound
<1>4. NeverPanics'
  BY DEF IInv, NeverPanics
<1> QED
  BY <1>2, <1>3, <1>4 DEF IInv

\* push: the lowest free descriptor gets the file.
LEMMA PushKeeps ==
  ASSUME IInv, NEW p \in alive, NEW f \in Files, free[p] # {}, Push(p, f),
         cloexec' \in [Files -> BOOLEAN], UNCHANGED <<alive, limit, panicked>>
  PROVE  IInv'
<1> DEFINE fd == Lowest(free[p])
           tb == [file[p] EXCEPT ![fd] = f]
           bits == free[p] \ {fd}
<1>1. /\ p \in Procs /\ file[p] \in Table /\ free[p] \in SUBSET Fds
      /\ limit[p] \in 0..Hard /\ limit[p] > 0 /\ Sound(file[p], free[p], limit[p])
  BY Parts
<1>2. fd \in free[p]
  BY <1>1, FdsType, HasLeast
<1> HIDE DEF fd
<1>3. tb \in Table /\ bits \in SUBSET Fds /\ Sound(tb, bits, limit[p])
  BY <1>1, <1>2, FdTableAssumption DEF Table, Sound
<1>4. file' = [file EXCEPT ![p] = tb] /\ free' = [free EXCEPT ![p] = bits]
  BY DEF Push, fd
<1>5. limit' = [limit EXCEPT ![p] = limit[p]]
  BY <1>1 DEF IInv, TypeOK
<1> HIDE DEF tb, bits
<1> QED
  BY <1>1, <1>3, <1>4, <1>5, OneTable

LEMMA FlagType ==
  ASSUME IInv, NEW f \in Files, NEW b \in BOOLEAN
  PROVE  FlagSet(f, b) \in [Files -> BOOLEAN] /\ cloexec \in [Files -> BOOLEAN]
BY DEF IInv, TypeOK, FlagSet

\* A file that is open is one of the files.
LEMMA UsedFile ==
  ASSUME IInv, NEW p \in alive, NEW fd \in Used(p)
  PROVE  fd \in Fds /\ file[p][fd] \in Files
BY Parts DEF Used, Has, Table
-----------------------------------------------------------------------------
LEMMA InitHolds == Init => IInv
<1> SUFFICES ASSUME Init PROVE IInv
  OBVIOUS
<1>1. Empty \in Table /\ Sound(Empty, Below(Hard), Hard)
  BY FdTableAssumption DEF Empty, Table, Sound
<1>2. Hard \in 0..Hard /\ Hard > 0
  BY FdTableAssumption
<1>3. TypeOK
  BY <1>1, <1>2, FdTableAssumption DEF Init, TypeOK, Table, Below, Fds
<1> QED
  BY <1>1, <1>2, <1>3, FdTableAssumption DEF Init, IInv, TablesSound, NeverPanics

\* Calls that leave the tables alone.
LEMMA FlagsOnly ==
  ASSUME IInv, cloexec' \in [Files -> BOOLEAN], UNCHANGED <<alive, file, free, limit, panicked>>
  PROVE  IInv'
BY DEF IInv, TypeOK, TablesSound, NeverPanics

LEMMA OpenKeeps == ASSUME IInv, NEW p \in Procs, Open(p) PROVE IInv'
<1>1. PICK f \in Fresh, b \in BOOLEAN : Push(p, f) /\ cloexec' = [cloexec EXCEPT ![f] = b]
  BY DEF Open
<1>2. f \in Files /\ p \in alive /\ free[p] # {} /\ cloexec' \in [Files -> BOOLEAN]
  BY <1>1 DEF Open, In, Fresh, IInv, TypeOK
<1> QED
  BY <1>1, <1>2, PushKeeps DEF Open

LEMMA MakePipeKeeps == ASSUME IInv, NEW p \in Procs, MakePipe(p) PROVE IInv'
<1> DEFINE fd1 == Lowest(free[p])
           fd2 == Lowest(free[p] \ {fd1})
<1>1. PICK r \in Files, w \in Files :
        /\ free' = [free EXCEPT ![p] = @ \ {fd1, fd2}]
        /\ file' = [file EXCEPT ![p][fd1] = r, ![p][fd2] = w]
  BY DEF MakePipe, Fresh
<1>2. p \in alive /\ Cardinality(free[p]) > 1
  BY DEF MakePipe, In
<1>3. /\ file[p] \in Table /\ free[p] \in SUBSET Fds
      /\ limit[p] \in 0..Hard /\ limit[p] > 0 /\ Sound(file[p], free[p], limit[p])
  BY <1>2, Parts
<1>4. free[p] # {}
  BY <1>2, FS_EmptySet
<1>5. fd1 \in free[p]
  BY <1>3, <1>4, FdsType, HasLeast
<1>6. free[p] \ {fd1} # {}
  <2>1. free[p] # {fd1}
    BY <1>2, FS_Singleton
  <2> QED
    BY <1>5, <2>1
<1>7. fd2 \in free[p] \ {fd1}
  BY <1>3, <1>6, FdsType, HasLeast
<1> DEFINE tb == [file[p] EXCEPT ![fd1] = r, ![fd2] = w]
           bits == free[p] \ {fd1, fd2}
<1>8. file' = [file EXCEPT ![p] = tb] /\ free' = [free EXCEPT ![p] = bits]
  BY <1>1 DEF IInv, TypeOK
<1> HIDE DEF fd1, fd2
<1>9. tb \in Table /\ bits \in SUBSET Fds /\ Sound(tb, bits, limit[p])
  BY <1>3, <1>5, <1>7, FdTableAssumption DEF Table, Sound
<1>10. limit' = [limit EXCEPT ![p] = limit[p]] /\ cloexec' \in [Files -> BOOLEAN]
       /\ UNCHANGED <<alive, panicked>>
  BY DEF MakePipe, IInv, TypeOK
<1> HIDE DEF tb, bits
<1> QED
  BY <1>2, <1>3, <1>8, <1>9, <1>10, OneTable

LEMMA CloseKeeps == ASSUME IInv, NEW p \in Procs, Close(p) PROVE IInv'
<1>1. p \in alive
  BY DEF Close, In
<1>2. /\ file[p] \in Table /\ free[p] \in SUBSET Fds
      /\ limit[p] \in 0..Hard /\ limit[p] > 0 /\ Sound(file[p], free[p], limit[p])
  BY <1>1, Parts
<1>3. PICK fd \in Used(p) : Remove(p, fd) /\ UNCHANGED <<alive, limit, cloexec, panicked>>
  BY <1>2 DEF Close, Used, Has, Sound
<1> DEFINE tb == [file[p] EXCEPT ![fd] = NoFile]
           bits == free[p] \cup {fd}
<1>4. fd \in Fds /\ file[p][fd] # NoFile
  BY DEF Used, Has
<1>5. tb \in Table /\ bits \in SUBSET Fds /\ Sound(tb, bits, limit[p])
  BY <1>2, <1>4 DEF Table, Sound
<1>6. file' = [file EXCEPT ![p] = tb] /\ free' = [free EXCEPT ![p] = bits]
  BY <1>3 DEF Remove
<1>7. limit' = [limit EXCEPT ![p] = limit[p]] /\ cloexec' \in [Files -> BOOLEAN]
  BY <1>3 DEF IInv, TypeOK
<1> HIDE DEF tb, bits
<1> QED
  BY <1>1, <1>2, <1>3, <1>5, <1>6, <1>7, OneTable

LEMMA DupKeeps == ASSUME IInv, NEW p \in Procs, Dup(p) \/ DupCloexec(p) PROVE IInv'
<1>1. p \in alive /\ free[p] # {}
  BY DEF Dup, DupCloexec, In
<1>2. CASE Dup(p)
  <2>1. PICK fd \in Used(p) : Push(p, file[p][fd])
    BY <1>2 DEF Dup
  <2>2. file[p][fd] \in Files /\ cloexec' \in [Files -> BOOLEAN]
    BY <1>1, <1>2, UsedFile DEF Dup, IInv, TypeOK
  <2> QED
    BY <1>1, <1>2, <2>1, <2>2, PushKeeps DEF Dup
<1>3. CASE DupCloexec(p)
  <2>1. PICK fd \in Used(p), b \in BOOLEAN :
          /\ IF Settable(file[p][fd]) THEN Push(p, file[p][fd])
             ELSE Undone(p, Lowest(free[p]), file[p][fd])
          /\ cloexec' = FlagSet(file[p][fd], b)
    BY <1>3 DEF DupCloexec
  <2>2. file[p][fd] \in Files
    BY <1>1, UsedFile
  <2>3. cloexec' \in [Files -> BOOLEAN]
    BY <2>1, <2>2, FlagType
  <2>4. UNCHANGED <<alive, limit, panicked>>
    BY <1>3 DEF DupCloexec
  <2>5. CASE Push(p, file[p][fd])
    BY <1>1, <2>2, <2>3, <2>4, <2>5, PushKeeps
  <2>6. CASE UNCHANGED <<free, file>>
    BY <2>3, <2>4, <2>6, FlagsOnly
  <2> QED
    BY <2>1, <2>5, <2>6 DEF Undone
<1> QED
  BY <1>2, <1>3

LEMMA Dup3Keeps == ASSUME Careful, IInv, NEW p \in Procs, Dup3(p) PROVE IInv'
<1>1. p \in alive
  BY DEF Dup3, In
<1>2. /\ file[p] \in Table /\ free[p] \in SUBSET Fds
      /\ limit[p] \in 0..Hard /\ limit[p] > 0 /\ Sound(file[p], free[p], limit[p])
  BY <1>1, Parts
<1>3. PICK old \in Used(p), new \in 0..Hard :
        /\ new < limit[p]
        /\ free' = [free EXCEPT ![p] = Claim(@, {new})]
        /\ file' = [file EXCEPT ![p][new] = file[p][old]]
        /\ UNCHANGED <<alive, limit, cloexec, panicked>>
  <2>1. PICK old \in Used(p), new \in 0..Hard :
          /\ new < limit[p]
          /\ IF new = Hard THEN Panic
             ELSE /\ free' = [free EXCEPT ![p] = Claim(@, {new})]
                  /\ file' = [file EXCEPT ![p][new] = file[p][old]]
                  /\ UNCHANGED <<alive, limit, cloexec, panicked>>
    BY DEF Dup3
  <2>2. new # Hard
    BY <1>2, <2>1, FdTableAssumption
  <2> QED
    BY <2>1, <2>2
<1> DEFINE tb == [file[p] EXCEPT ![new] = file[p][old]]
           bits == free[p] \ {new}
<1>4. new \in Fds /\ new \in Below(limit[p]) /\ file[p][old] \in Files
  BY <1>1, <1>2, <1>3, FdTableAssumption, UsedFile DEF Fds, Below
<1>5. tb \in Table /\ bits \in SUBSET Fds /\ Sound(tb, bits, limit[p])
  BY <1>2, <1>4, FdTableAssumption DEF Table, Sound
<1>6. file' = [file EXCEPT ![p] = tb] /\ free' = [free EXCEPT ![p] = bits]
  BY <1>3 DEF Claim
<1>7. limit' = [limit EXCEPT ![p] = limit[p]] /\ cloexec' \in [Files -> BOOLEAN]
  BY <1>3 DEF IInv, TypeOK
<1> HIDE DEF tb, bits
<1> QED
  BY <1>1, <1>2, <1>3, <1>5, <1>6, <1>7, OneTable

LEMMA SetLimitKeeps == ASSUME Careful, IInv, NEW p \in Procs, SetLimit(p) PROVE IInv'
<1>1. p \in alive
  BY DEF SetLimit, In
<1>2. /\ file[p] \in Table /\ free[p] \in SUBSET Fds
      /\ limit[p] \in 0..Hard /\ limit[p] > 0 /\ Sound(file[p], free[p], limit[p])
  BY <1>1, Parts
<1>3. PICK n \in 0..Hard :
        /\ n > 0 /\ Used(p) \subseteq Below(n)
        /\ limit' = [limit EXCEPT ![p] = n]
        /\ free' = [free EXCEPT ![p] = Relimited(@, limit[p], n)]
  BY DEF SetLimit
<1> DEFINE old == limit[p]
           bits == Relimited(free[p], old, n)
<1>4. Hard \in Nat
  BY FdTableAssumption
<1>5. old \in 0..Hard /\ Sound(file[p], free[p], old)
  BY <1>2
<1> HIDE DEF old
<1>6. bits \in SUBSET Fds
  BY <1>2, <1>4, <1>5 DEF Relimited, Fds
<1>7. Sound(file[p], bits, n)
  BY <1>3, <1>4, <1>5 DEF Sound, Relimited, Fds, Below, Used, Has
<1>8. free' = [free EXCEPT ![p] = bits]
  BY <1>3 DEF old
<1>9. file' = [file EXCEPT ![p] = file[p]] /\ cloexec' \in [Files -> BOOLEAN]
      /\ UNCHANGED <<alive, panicked>>
  BY DEF SetLimit, IInv, TypeOK
<1> HIDE DEF bits
<1> QED
  BY <1>1, <1>2, <1>3, <1>6, <1>7, <1>8, <1>9, OneTable

LEMMA ForkKeeps == ASSUME IInv, NEW p \in Procs, Fork(p) PROVE IInv'
<1>1. p \in alive
  BY DEF Fork, In
<1>2. /\ file[p] \in Table /\ free[p] \in SUBSET Fds
      /\ limit[p] \in 0..Hard /\ limit[p] > 0 /\ Sound(file[p], free[p], limit[p])
  BY <1>1, Parts
<1>3. PICK q \in Procs \ alive :
        /\ alive' = alive \cup {q}
        /\ file' = [file EXCEPT ![q] = file[p]]
        /\ limit' = [limit EXCEPT ![q] = limit[p]]
        /\ free' = [free EXCEPT ![q] = Claim(Below(limit[p]), Used(p))]
        /\ UNCHANGED <<cloexec, panicked>>
  BY <1>2 DEF Fork
<1>4. Claim(Below(limit[p]), Used(p)) = free[p]
  BY <1>2 DEF Claim, Used, Has, Sound
<1>5. TypeOK'
  BY <1>1, <1>2, <1>3, <1>4 DEF IInv, TypeOK, Table
<1>6. TablesSound'
  BY <1>2, <1>3, <1>4 DEF IInv, TypeOK, TablesSound
<1> QED
  BY <1>3, <1>5, <1>6 DEF IInv, NeverPanics

LEMMA ExecKeeps == ASSUME Careful, IInv, NEW p \in Procs, Exec(p) PROVE IInv'
<1>1. p \in alive /\ file[p] \in Table
  BY Parts DEF Exec, In
<1>2. file' = [file EXCEPT ![p] = file[p]]
  BY <1>1 DEF Exec, Table
<1>3. UNCHANGED file
  BY <1>2 DEF IInv, TypeOK
<1> QED
  BY <1>3, FlagsOnly DEF Exec, IInv, TypeOK

LEMMA GoneKeeps == ASSUME IInv, NEW p \in Procs, Gone(p) PROVE IInv'
<1>1. Empty \in Table /\ Below(Hard) \in SUBSET Fds /\ Hard \in 0..Hard
  BY FdsType, FdTableAssumption DEF Empty, Table
<1>2. TypeOK'
  BY <1>1 DEF Gone, IInv, TypeOK, Table
<1>3. TablesSound'
  BY DEF Gone, IInv, TypeOK, TablesSound
<1> QED
  BY <1>2, <1>3 DEF Gone, IInv, NeverPanics

\* Every call keeps the invariant, if the programs are careful.
LEMMA StepKeeps == ASSUME Careful PROVE IInv /\ [Next]_vars => IInv'
<1> SUFFICES ASSUME IInv, [Next]_vars PROVE IInv'
  OBVIOUS
<1>1. CASE UNCHANGED vars
  BY <1>1, FlagsOnly DEF vars, IInv, TypeOK
<1>2. ASSUME NEW p \in Procs, NEW fd \in Fds, NEW b \in BOOLEAN, SetFd(p, fd, b) PROVE IInv'
  <2>1. file[p][fd] \in Files
    BY <1>2, UsedFile DEF SetFd, In, Has, Used
  <2> QED
    BY <1>2, <2>1, FlagType, FlagsOnly DEF SetFd
<1>3. ASSUME NEW p \in Procs, SetFl(p) PROVE IInv'
  BY <1>3, FlagsOnly DEF SetFl, IInv, TypeOK
<1> QED
  BY <1>1, <1>2, <1>3, OpenKeeps, MakePipeKeeps, CloseKeeps, DupKeeps, Dup3Keeps, SetLimitKeeps,
     ForkKeeps, ExecKeeps, GoneKeeps DEF Next
-----------------------------------------------------------------------------
\* The strengthened invariant holds in every state.
THEOREM Inductive == ASSUME Careful PROVE Spec => []IInv
BY InitHolds, StepKeeps, PTL DEF Spec

\* Every table, set and flag keeps its type, for any number of processes and
\* files and any capacity.
THEOREM Typing == ASSUME Careful PROVE Spec => []TypeOK
<1>1. IInv => TypeOK
  BY DEF IInv
<1> QED
  BY Inductive, <1>1, PTL

\* No descriptor with a file is free to be given again, after any calls of
\* any number of processes.
THEOREM FreeStaysFree == ASSUME Careful PROVE Spec => []FreeIsFree
<1>1. IInv => FreeIsFree
  BY DEF IInv, TablesSound, Sound, FreeIsFree, Used, Has
<1> QED
  BY Inductive, <1>1, PTL

\* No descriptor below the limit is lost and none beyond it made up.
THEOREM NoDescriptorLost == ASSUME Careful PROVE Spec => []NoneLost
<1>1. IInv => NoneLost
  BY DEF IInv, TablesSound, Sound, NoneLost, Used, Has
<1> QED
  BY Inductive, <1>1, PTL

\* No assertion or index check of the kernel fails.
THEOREM KernelSurvives == ASSUME Careful PROVE Spec => []NeverPanics
<1>1. IInv => NeverPanics
  BY DEF IInv
<1> QED
  BY Inductive, <1>1, PTL
=============================================================================
