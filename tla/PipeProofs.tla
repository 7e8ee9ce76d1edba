----------------------------- MODULE PipeProofs -----------------------------
(***************************************************************************)
(* Theorems about Pipe, for any tasks, descriptors, cores, limit and       *)
(* lengths of calls, and whether or not tasks share tables: what goes      *)
(* through a pipe is a FIFO, a hang-up that was seen stays, on one core a  *)
(* short call left nothing it could have moved, and what can delay a call  *)
(* is its own table and MaxTries turns.                                    *)
(***************************************************************************)
EXTENDS Pipe, TLAPS

RP == INSTANCE RingBufferProofs

\* A task inside a read or write has a call of that kind, and no task has
\* moved more than it was asked to.
InCall ==
  \A t \in Tasks : /\ pc[t] \in Inside => call[t].kind \in {"read", "write"}
                   /\ call[t].done <= call[t].want

IInv == TypeOK /\ InCall
-----------------------------------------------------------------------------
(* What one try does to the buffer.                                        *)

\* What the assumptions on the constants of the buffer come to.
LEMMA Bounds == Limit \in Nat /\ Limit > 0 /\ MaxIO \in Nat /\ Stale \notin Byte
BY PipeAssumption

\* A read of n bytes moves as many as there are, up to n.
LEMMA ReadMoves ==
  ASSUME Ring!TypeOK, Ring!Consistent, NEW n \in Nat, Ring!Read(n)
  PROVE  /\ Ring!TypeOK' /\ Ring!Consistent'
         /\ Len(reply'.bytes) \in Nat /\ Len(reply'.bytes) <= n
         /\ len' = len - Len(reply'.bytes)
         /\ Len(reply'.bytes) < n => len' = 0
<1>1. RP!IInv
  BY DEF RP!IInv, RP!TypeOK, Ring!TypeOK, RP!Consistent, Ring!Consistent, RP!Cells, Ring!Cells
<1>2. RP!Read(n)
  BY DEF RP!Read, Ring!Read, RP!Least, Ring!Least, RP!Straight, Ring!Straight, RP!FileRead,
         Ring!FileRead, RP!Advance, Ring!Advance
<1>3. reply' = [call |-> "read", bytes |-> SubSeq(RP!Contents, 1, RP!Least(n, len))]
  BY <1>1, <1>2, Bounds, RP!ReadGetsPrefix
<1>4. RP!IInv'
  BY <1>1, <1>2, Bounds, RP!ReadStep
<1>5. RP!Contents \in Seq(Byte) /\ Len(RP!Contents) = len
  BY <1>1, Bounds, RP!ContentsSequence
<1>6. len \in Nat
  BY Bounds DEF Ring!TypeOK
<1>7. RP!Least(n, len) \in Nat /\ RP!Least(n, len) <= len /\ RP!Least(n, len) <= n
      /\ (RP!Least(n, len) < n => RP!Least(n, len) = len)
  BY <1>6 DEF RP!Least
<1>8. Len(reply'.bytes) = RP!Least(n, len)
  BY <1>3, <1>5, <1>6, <1>7
<1>9. len' = len - RP!Least(n, len)
  BY <1>2 DEF RP!Read
<1>10. Ring!TypeOK' /\ Ring!Consistent'
  BY <1>4 DEF RP!IInv, RP!TypeOK, Ring!TypeOK, RP!Consistent, Ring!Consistent, RP!Cells, Ring!Cells
<1> QED
  BY <1>6, <1>7, <1>8, <1>9, <1>10

\* A write moves as many bytes as there is room for, up to all.
LEMMA WriteMoves ==
  ASSUME Ring!TypeOK, Ring!Consistent, NEW n \in Nat, NEW bytes \in [1..n -> Byte],
         Ring!Write(bytes)
  PROVE  /\ Ring!TypeOK' /\ Ring!Consistent'
         /\ Len(reply'.bytes) \in Nat /\ Len(reply'.bytes) <= n
         /\ len' = len + Len(reply'.bytes)
         /\ Len(reply'.bytes) < n => len' = Limit
<1>1. RP!IInv
  BY DEF RP!IInv, RP!TypeOK, Ring!TypeOK, RP!Consistent, Ring!Consistent, RP!Cells, Ring!Cells
<1>2. RP!Write(bytes)
  BY DEF RP!Write, Ring!Write, RP!Least, Ring!Least, RP!Most, Ring!Most, RP!Straight,
         Ring!Straight, RP!FileWrite, Ring!FileWrite, RP!Advance, Ring!Advance, RP!Cells,
         Ring!Cells
<1>3. bytes \in Seq(Byte) /\ Len(bytes) = n
  BY Bounds, RP!FunctionIsSequence
<1>4. RP!IInv'
  BY <1>1, <1>2, <1>3, Bounds, RP!WriteStep
<1>5. reply' = [call |-> "write", bytes |-> SubSeq(bytes, 1, RP!Least(n, Limit - len))]
  BY <1>2, <1>3 DEF RP!Write
<1>6. len \in Nat /\ len <= Limit
  BY Bounds DEF Ring!TypeOK
<1>7. /\ RP!Least(n, Limit - len) \in Nat
      /\ RP!Least(n, Limit - len) <= Limit - len /\ RP!Least(n, Limit - len) <= n
      /\ RP!Least(n, Limit - len) < n => RP!Least(n, Limit - len) = Limit - len
  BY <1>6, Bounds DEF RP!Least
<1>8. Len(reply'.bytes) = RP!Least(n, Limit - len)
  BY <1>3, <1>5, <1>7
<1>9. len' = len + RP!Least(n, Limit - len)
  BY <1>2, <1>3 DEF RP!Write
<1>10. Ring!TypeOK' /\ Ring!Consistent'
  BY <1>4 DEF RP!IInv, RP!TypeOK, Ring!TypeOK, RP!Consistent, Ring!Consistent, RP!Cells, Ring!Cells
<1> QED
  BY <1>6, <1>7, <1>8, <1>9, <1>10, Bounds

\* One try of a call: what it adds to the call, and what it leaves.
LEMMA TryMoves ==
  ASSUME IInv, NEW t \in Tasks, Move(t)
  PROVE  /\ Ring!TypeOK' /\ Ring!Consistent'
         /\ Len(reply'.bytes) \in Nat
         /\ call[t].kind \in {"read", "write"}
         /\ call[t].done + Len(reply'.bytes) <= call[t].want
         /\ call[t].kind = "read" => len' = len - Len(reply'.bytes)
         /\ call[t].done + Len(reply'.bytes) < call[t].want
              => len' = IF call[t].kind = "read" THEN 0 ELSE Limit
<1> DEFINE left == call[t].want - call[t].done
<1>1. /\ Ring!TypeOK /\ Ring!Consistent
      /\ call[t].kind \in {"read", "write"}
      /\ call[t].want \in Nat /\ call[t].done \in Nat /\ left \in Nat
  BY Bounds DEF IInv, TypeOK, InCall, Move, Inside
<1>2. CASE call[t].kind = "read"
  <2>1. Ring!Read(left)
    BY <1>2 DEF Move
  <2> HIDE DEF left
  <2>2. /\ Ring!TypeOK' /\ Ring!Consistent'
        /\ Len(reply'.bytes) \in Nat /\ Len(reply'.bytes) <= left
        /\ len' = len - Len(reply'.bytes)
        /\ Len(reply'.bytes) < left => len' = 0
    BY <1>1, <2>1, ReadMoves
  <2> QED
    BY <1>1, <1>2, <2>2 DEF left
<1>3. CASE call[t].kind = "write"
  <2>1. PICK bytes \in [1..left -> Byte] : Ring!Write(bytes)
    BY <1>3 DEF Move
  <2> HIDE DEF left
  <2>2. /\ Ring!TypeOK' /\ Ring!Consistent'
        /\ Len(reply'.bytes) \in Nat /\ Len(reply'.bytes) <= left
        /\ len' = len + Len(reply'.bytes)
        /\ Len(reply'.bytes) < left => len' = Limit
    BY <1>1, <2>1, WriteMoves
  <2> QED
    BY <1>1, <1>3, <2>2 DEF left
<1> QED
  BY <1>1, <1>2, <1>3
-----------------------------------------------------------------------------
(* The run queue.                                                          *)

\* The queue without a task that is in it.
LEMMA OthersType ==
  ASSUME queue \in Seq(Tasks), NEW t \in Tasks, Running(t)
  PROVE  Others(t) \in Seq(Tasks)
<1> DEFINE i == CHOOSE j \in 1..Len(queue) : queue[j] = t
<1>1. i \in 1..Len(queue) /\ Len(queue) \in Nat
  BY DEF Running
<1> HIDE DEF i
<1>2. SubSeq(queue, 1, i - 1) \in Seq(Tasks)
  BY <1>1, Bounds, RP!Part
<1>3. SubSeq(queue, i + 1, Len(queue)) \in Seq(Tasks)
  BY <1>1, Bounds, RP!Part
<1>4. Others(t) = SubSeq(queue, 1, i - 1) \o SubSeq(queue, i + 1, Len(queue))
  BY DEF Others, i
<1> QED
  BY <1>2, <1>3, <1>4
-----------------------------------------------------------------------------
(* The invariant.                                                          *)

\* The parts of TypeOK that are about the tasks.
CallSet == [kind : Kinds \cup {"none"}, fd : Fds, want : 0..MaxIO, done : 0..MaxIO,
            cnt : 0..MaxTries]
Places == {"unborn", "user", "lock", "move", "check", "zombie", "gone"}

TasksOK ==
  /\ queue \in Seq(Tasks)
  /\ pc \in [Tasks -> Places]
  /\ call \in [Tasks -> CallSet]
  /\ tableOf \in [Tasks -> Tasks]
  /\ files \in [Tasks -> [Fds -> {"none", "read", "write"}]]
  /\ holder \in [Tasks -> Tasks \cup {NoTask}]
  /\ parent \in [Tasks -> Tasks \cup {NoTask}]

RingOK == Ring!TypeOK /\ Ring!Consistent

LEMMA Split == IInv <=> RingOK /\ TasksOK /\ InCall
BY DEF IInv, TypeOK, RingOK, TasksOK, CallSet, Places

\* An idle buffer stays as it is.
LEMMA RingIdle ==
  ASSUME RingOK, UNCHANGED ringVars
  PROVE  RingOK'
BY DEF RingOK, ringVars, Ring!TypeOK, Ring!Consistent, Ring!Cells

LEMMA NoCallType == NoCall \in CallSet
BY Bounds, PipeAssumption DEF NoCall, MaxTries, Kinds, CallSet

\* A call as it begins, after a try and after a suspension.
LEMMA Begun ==
  ASSUME NEW k \in Kinds, NEW fd \in Fds, NEW n \in 1..MaxIO
  PROVE  [kind |-> k, fd |-> fd, want |-> n, done |-> 0, cnt |-> 0] \in CallSet
<1>1. n \in 0..MaxIO /\ 0 \in 0..MaxIO /\ 0 \in 0..MaxTries
  BY Bounds DEF MaxTries
<1> QED
  BY <1>1 DEF CallSet

LEMMA Counted ==
  ASSUME NEW c \in CallSet, NEW n \in 0..MaxIO, NEW m \in 0..MaxTries
  PROVE  /\ [c EXCEPT !.done = n] \in CallSet
         /\ [c EXCEPT !.done = n].kind = c.kind
         /\ [c EXCEPT !.done = n].done = n
         /\ [c EXCEPT !.done = n].want = c.want
         /\ [c EXCEPT !.cnt = m] \in CallSet
         /\ [c EXCEPT !.cnt = m].kind = c.kind
         /\ [c EXCEPT !.cnt = m].done = c.done
         /\ [c EXCEPT !.cnt = m].want = c.want
         /\ c.done \in 0..MaxIO /\ c.want \in 0..MaxIO /\ c.cnt \in 0..MaxTries
BY DEF CallSet

LEMMA NoFilesType == NoFiles \in [Fds -> {"none", "read", "write"}]
BY DEF NoFiles

LEMMA FreshUnborn ==
  ASSUME \E u \in Tasks : pc[u] = "unborn"
  PROVE  Fresh \in Tasks /\ pc[Fresh] = "unborn"
BY DEF Fresh

LEMMA FilesWithoutType ==
  ASSUME TasksOK, NEW gone
  PROVE  FilesWithout(gone) \in [Tasks -> [Fds -> {"none", "read", "write"}]]
BY NoFilesType DEF FilesWithout, TasksOK

LEMMA InitHolds == Init => IInv
<1> SUFFICES ASSUME Init PROVE IInv
  OBVIOUS
<1>1. RingOK
  <2>1. RP!Init
    BY DEF Init, RP!Init, Ring!Init, RP!Cells, Ring!Cells
  <2>2. RP!IInv
    BY <2>1, Bounds, RP!InitEstablishes
  <2> QED
    BY <2>2 DEF RingOK, RP!IInv, RP!TypeOK, Ring!TypeOK, RP!Consistent, Ring!Consistent,
                RP!Cells, Ring!Cells
<1>2. TasksOK
  <2>1. queue \in Seq(Tasks)
    BY PipeAssumption DEF Init
  <2>2. call \in [Tasks -> CallSet]
    BY NoCallType DEF Init
  <2>3. files \in [Tasks -> [Fds -> {"none", "read", "write"}]]
    BY NoFilesType DEF Init
  <2>4. pc \in [Tasks -> Places]
    BY DEF Init, Places
  <2> QED
    BY <2>1, <2>2, <2>3, <2>4 DEF Init, TasksOK
<1>3. InCall
  BY DEF Init, InCall, Inside, NoCall
<1> QED
  BY <1>1, <1>2, <1>3, Split

\* Nothing but tries changes the buffer; each keeps it in order.
LEMMA StepRing == ASSUME IInv, [Next]_vars PROVE RingOK'
<1>1. RingOK
  BY Split
<1>2. ASSUME NEW t \in Tasks, Move(t) PROVE RingOK'
  BY <1>2, TryMoves DEF RingOK
<1>3. CASE UNCHANGED ringVars
  BY <1>1, <1>3, RingIdle
<1> QED
  BY <1>2, <1>3 DEF Next, KernelStep, vars, Yield, Begin, FindFile, Wait, Return, Close, Dup, Fork,
       CloneSharing, Exit, Reap

\* The run queue has tasks only.
LEMMA StepQueue == ASSUME TasksOK, [Next]_vars PROVE queue' \in Seq(Tasks)
<1>1. queue \in Seq(Tasks)
  BY DEF TasksOK
<1>2. ASSUME NEW t \in Tasks, Running(t), queue' = Append(Others(t), t) PROVE queue' \in Seq(Tasks)
  BY <1>1, <1>2, OthersType
<1>3. ASSUME NEW t \in Tasks, Running(t), queue' = Others(t) PROVE queue' \in Seq(Tasks)
  BY <1>1, <1>3, OthersType
<1>4. ASSUME \E u \in Tasks : pc[u] = "unborn", queue' = Append(queue, Fresh)
      PROVE  queue' \in Seq(Tasks)
  BY <1>1, <1>4, FreshUnborn
<1>5. CASE UNCHANGED queue
  BY <1>1, <1>5
<1> QED
  BY <1>2, <1>3, <1>4, <1>5 DEF Next, KernelStep, vars, Yield, Begin, FindFile, Move, Wait, Suspend,
       Return, Close, Dup, Fork, CloneSharing, Exit, Reap

\* A task that moves on, with its call.
LEMMA OneMoves ==
  ASSUME TasksOK, InCall, NEW t \in Tasks, NEW p \in Places, NEW c \in CallSet,
         pc' = [pc EXCEPT ![t] = p], call' = [call EXCEPT ![t] = c],
         p \in Inside => c.kind \in {"read", "write"}, c.done <= c.want
  PROVE  pc' \in [Tasks -> Places] /\ call' \in [Tasks -> CallSet] /\ InCall'
<1>1. pc' \in [Tasks -> Places] /\ call' \in [Tasks -> CallSet]
  BY DEF TasksOK
<1>2. ASSUME NEW u \in Tasks
      PROVE  /\ pc'[u] \in Inside => call'[u].kind \in {"read", "write"}
             /\ call'[u].done <= call'[u].want
  BY <1>2 DEF TasksOK, InCall
<1> QED
  BY <1>1, <1>2 DEF InCall

\* The other fields of the tasks.
RestOK ==
  /\ tableOf \in [Tasks -> Tasks]
  /\ files \in [Tasks -> [Fds -> {"none", "read", "write"}]]
  /\ holder \in [Tasks -> Tasks \cup {NoTask}]
  /\ parent \in [Tasks -> Tasks \cup {NoTask}]

LEMMA StepRest == ASSUME TasksOK, [Next]_vars PROVE RestOK'
<1> USE DEF TasksOK, RestOK
<1>1. ASSUME NEW t \in Tasks, FindFile(t) PROVE RestOK'
  BY <1>1 DEF FindFile
<1>2. ASSUME NEW t \in Tasks, Return(t) PROVE RestOK'
  BY <1>2 DEF Return
<1>3. ASSUME NEW t \in Tasks, Close(t) PROVE RestOK'
  BY <1>3 DEF Close
<1>4. ASSUME NEW t \in Tasks, Dup(t) PROVE RestOK'
  <2> DEFINE free == {fd \in Fds : files[tableOf[t]][fd] = "none"}
             lowest == CHOOSE fd \in free : \A g \in free : fd <= g
  <2>1. tableOf[t] \in Tasks /\ call[t].fd \in Fds
    BY DEF CallSet
  <2>2. Named(t) \in {"none", "read", "write"}
    BY <2>1 DEF Named
  <2> HIDE DEF lowest
  <2>3. \/ UNCHANGED files
        \/ files' = [files EXCEPT ![tableOf[t]][lowest] = Named(t)]
    BY <1>4 DEF Dup, lowest
  <2> HIDE DEF free
  <2>4. files' \in [Tasks -> [Fds -> {"none", "read", "write"}]]
    <3>1. CASE lowest \in Fds
      <4> DEFINE table == [files[tableOf[t]] EXCEPT ![lowest] = Named(t)]
      <4>1. files[tableOf[t]] \in [Fds -> {"none", "read", "write"}]
        BY <2>1
      <4>2. table \in [Fds -> {"none", "read", "write"}]
        BY <2>2, <4>1
      <4>3. files' = files \/ files' = [files EXCEPT ![tableOf[t]] = table]
        BY <2>3
      <4> HIDE DEF table
      <4> QED
        BY <4>2, <4>3
    <3>2. CASE lowest \notin Fds
      <4>1. files[tableOf[t]] \in [Fds -> {"none", "read", "write"}]
        BY <2>1
      <4>2. [files[tableOf[t]] EXCEPT ![lowest] = Named(t)] = files[tableOf[t]]
        BY <3>2, <4>1
      <4> QED
        BY <2>1, <2>3, <4>1, <4>2
    <3> QED
      BY <3>1, <3>2
  <2> QED
    BY <1>4, <2>4 DEF Dup
<1>5. ASSUME NEW t \in Tasks, Fork(t) PROVE RestOK'
  <2>1. CASE \E u \in Tasks : pc[u] = "unborn"
    <3>1. Fresh \in Tasks
      BY <2>1, FreshUnborn
    <3>2. /\ files' = [files EXCEPT ![Fresh] = files[tableOf[t]]]
          /\ parent' = [parent EXCEPT ![Fresh] = t]
          /\ UNCHANGED <<tableOf, holder>>
      BY <1>5, <2>1 DEF Fork
    <3>3. files[tableOf[t]] \in [Fds -> {"none", "read", "write"}]
      OBVIOUS
    <3>4. files' \in [Tasks -> [Fds -> {"none", "read", "write"}]]
      BY <3>2, <3>3
    <3> QED
      BY <3>1, <3>2, <3>4
  <2>2. CASE ~ \E u \in Tasks : pc[u] = "unborn"
    BY <1>5, <2>2 DEF Fork
  <2> QED
    BY <2>1, <2>2
<1>6. ASSUME NEW t \in Tasks, CloneSharing(t) PROVE RestOK'
  BY <1>6, FreshUnborn DEF CloneSharing
<1>7. ASSUME NEW t \in Tasks, Exit(t) PROVE RestOK'
  BY <1>7, FilesWithoutType DEF Exit
<1>8. ASSUME NEW t \in Tasks, Reap(t) PROVE RestOK'
  BY <1>8, FilesWithoutType DEF Reap
<1>9. CASE UNCHANGED <<tableOf, files, holder, parent>>
  BY <1>9
<1> QED
  BY <1>1, <1>2, <1>3, <1>4, <1>5, <1>6, <1>7, <1>8, <1>9
  DEF Next, KernelStep, vars, Yield, Begin, Move, Wait

\* The call a task is in stays a call of the kind it is.
LEMMA StepCalls ==
  ASSUME IInv, [Next]_vars
  PROVE  pc' \in [Tasks -> Places] /\ call' \in [Tasks -> CallSet] /\ InCall'
<1> DEFINE Kept == pc' \in [Tasks -> Places] /\ call' \in [Tasks -> CallSet] /\ InCall'
<1>1. TasksOK /\ InCall
  BY Split
<1>2. pc \in [Tasks -> Places] /\ call \in [Tasks -> CallSet]
  BY <1>1 DEF TasksOK
<1>3. NoCall \in CallSet /\ "user" \in Places /\ "user" \notin Inside
  BY NoCallType DEF Places, Inside
<1>4. ASSUME NEW t \in Tasks, ToUser(t) PROVE Kept
  <2>1. NoCall.done <= NoCall.want
    BY DEF NoCall
  <2> QED
    BY <1>1, <1>3, <1>4, <2>1, OneMoves DEF ToUser
<1>5. ASSUME NEW t \in Tasks, Begin(t) PROVE Kept
  <2>1. PICK k \in Kinds, fd \in Fds, n \in 1..MaxIO :
          call' = [call EXCEPT ![t] = [kind |-> k, fd |-> fd, want |-> n, done |-> 0, cnt |-> 0]]
    BY <1>5 DEF Begin
  <2> DEFINE c == [kind |-> k, fd |-> fd, want |-> n, done |-> 0, cnt |-> 0]
  <2>2. c \in CallSet /\ c.done <= c.want
    <3>1. n \in Nat
      BY Bounds
    <3> QED
      BY <3>1, Begun
  <2>3. call' = [call EXCEPT ![t] = c] /\ pc' = [pc EXCEPT ![t] = "lock"]
    BY <1>5, <2>1 DEF Begin
  <2> HIDE DEF c
  <2>4. "lock" \in Places /\ "lock" \notin Inside
    BY DEF Places, Inside
  <2> QED
    BY <1>1, <2>2, <2>3, <2>4, OneMoves
<1>6. ASSUME NEW t \in Tasks, FindFile(t) PROVE Kept
  <2>1. CASE ToUser(t)
    BY <1>4, <2>1
  <2>2. CASE pc' = [pc EXCEPT ![t] = "move"] /\ call' = call
    <3>1. call[t] \in CallSet /\ call' = [call EXCEPT ![t] = call[t]]
      BY <1>2, <2>2
    <3>2. call[t].kind \in {"read", "write"}
      BY <1>6 DEF FindFile, Locks
    <3>3. call[t].done <= call[t].want
      BY <1>1 DEF InCall
    <3>4. "move" \in Places
      BY DEF Places
    <3> QED
      BY <1>1, <2>2, <3>1, <3>2, <3>3, <3>4, OneMoves
  <2> QED
    BY <1>6, <2>1, <2>2 DEF FindFile
<1>7. ASSUME NEW t \in Tasks, Move(t) PROVE Kept
  <2> DEFINE n == call[t].done + Len(reply'.bytes)
             c == [call[t] EXCEPT !.done = n]
  <2>1. /\ Len(reply'.bytes) \in Nat /\ call[t].kind \in {"read", "write"}
        /\ n <= call[t].want
    BY <1>7, TryMoves
  <2>2. call[t] \in CallSet
    BY <1>2
  <2>3. call[t].done \in 0..MaxIO /\ call[t].want \in 0..MaxIO /\ 0 \in 0..MaxIO
        /\ 0 \in 0..MaxTries
    BY <2>2, Bounds DEF CallSet, MaxTries
  <2>4. n \in 0..MaxIO
    BY <2>1, <2>3, Bounds
  <2>5. pc' = [pc EXCEPT ![t] = "check"] /\ call' = [call EXCEPT ![t] = c]
    BY <1>7 DEF Move
  <2> HIDE DEF n
  <2>6. c \in CallSet /\ c.kind = call[t].kind /\ c.done = n /\ c.want = call[t].want
    BY <2>2, <2>3, <2>4, Counted
  <2>7. "check" \in Places
    BY DEF Places
  <2> HIDE DEF c
  <2> QED
    BY <1>1, <2>1, <2>5, <2>6, <2>7, OneMoves
<1>8. ASSUME NEW t \in Tasks, Wait(t) PROVE Kept
  <2> DEFINE m == call[t].cnt + 1
             c == [call[t] EXCEPT !.cnt = m]
  <2>1. call[t] \in CallSet
    BY <1>2
  <2>2. call[t].cnt \in 0..MaxTries /\ call[t].cnt # MaxTries /\ 0 \in 0..MaxIO
    BY <1>8, <2>1, Bounds DEF CallSet, Wait, GivesUp
  <2>3. m \in 0..MaxTries
    BY <2>2 DEF MaxTries
  <2>4. pc' = [pc EXCEPT ![t] = "move"] /\ call' = [call EXCEPT ![t] = c]
    BY <1>8 DEF Wait, Suspend, Tried
  <2>5. call[t].kind \in {"read", "write"} /\ call[t].done <= call[t].want
    BY <1>1, <1>8 DEF InCall, Wait, Inside
  <2> HIDE DEF m
  <2>6. c \in CallSet /\ c.kind = call[t].kind /\ c.done = call[t].done /\ c.want = call[t].want
    BY <2>1, <2>2, <2>3, Counted
  <2>7. "move" \in Places
    BY DEF Places
  <2> HIDE DEF c
  <2> QED
    BY <1>1, <2>4, <2>5, <2>6, <2>7, OneMoves
<1>9. ASSUME NEW t \in Tasks, Return(t) \/ Close(t) \/ Dup(t) PROVE Kept
  <2>1. ToUser(t)
    BY <1>9 DEF Return, Close, Dup
  <2> QED
    BY <1>4, <2>1
<1>10. ASSUME pc' \in [Tasks -> Places], UNCHANGED call,
              \A u \in Tasks : pc'[u] \in Inside => pc[u] \in Inside
       PROVE  Kept
  BY <1>1, <1>2, <1>10 DEF InCall
<1>11. ASSUME NEW t \in Tasks, Fork(t) PROVE Kept
  <2>1. call' = [call EXCEPT ![t] = NoCall]
    BY <1>11 DEF Fork
  <2>2. NoCall.done <= NoCall.want
    BY DEF NoCall
  <2>3. call' \in [Tasks -> CallSet]
    BY <1>2, <1>3, <2>1
  <2>4. pc' \in [Tasks -> Places] /\ \A u \in Tasks : pc'[u] \in Inside => pc'[u] = pc[u] /\ u # t
    BY <1>2, <1>3, <1>11, FreshUnborn DEF Fork
  <2>5. ASSUME NEW u \in Tasks
        PROVE  /\ pc'[u] \in Inside => call'[u].kind \in {"read", "write"}
               /\ call'[u].done <= call'[u].want
    BY <1>1, <1>2, <2>1, <2>2, <2>4 DEF InCall
  <2> QED
    BY <2>3, <2>4, <2>5 DEF InCall
<1>12. ASSUME NEW t \in Tasks, CloneSharing(t) PROVE Kept
  <2>1. pc' \in [Tasks -> Places] /\ \A u \in Tasks : pc'[u] \in Inside => pc[u] \in Inside
    BY <1>2, <1>3, <1>12, FreshUnborn DEF CloneSharing
  <2> QED
    BY <1>10, <1>12, <2>1 DEF CloneSharing
<1>13. ASSUME NEW t \in Tasks, Exit(t) PROVE Kept
  <2>1. pc' \in [Tasks -> Places] /\ \A u \in Tasks : pc'[u] \in Inside => pc[u] \in Inside
    BY <1>2, <1>13 DEF Exit, Places, Inside
  <2> QED
    BY <1>10, <1>13, <2>1 DEF Exit
<1>14. ASSUME NEW t \in Tasks, Reap(t) PROVE Kept
  <2>1. pc' \in [Tasks -> Places] /\ \A u \in Tasks : pc'[u] \in Inside => pc[u] \in Inside
    BY <1>2, <1>14 DEF Reap, Places, Inside
  <2> QED
    BY <1>10, <1>14, <2>1 DEF Reap
<1>15. CASE UNCHANGED <<pc, call>>
  BY <1>2, <1>10, <1>15
<1> QED
  BY <1>5, <1>6, <1>7, <1>8, <1>9, <1>11, <1>12, <1>13, <1>14, <1>15
  DEF Next, KernelStep, vars, Yield

\* The invariant is inductive.
LEMMA StepKeeps == IInv /\ [Next]_vars => IInv'
<1> SUFFICES ASSUME IInv, [Next]_vars PROVE IInv'
  OBVIOUS
<1>1. TasksOK
  BY Split
<1>2. RingOK'
  BY StepRing
<1>3. TasksOK'
  BY <1>1, StepQueue, StepCalls, StepRest DEF TasksOK, RestOK
<1>4. InCall'
  BY StepCalls
<1> QED
  BY <1>2, <1>3, <1>4 DEF IInv, TypeOK, RingOK, TasksOK, CallSet, Places

\* The strengthened invariant holds in every state.
THEOREM Inductive == Spec => []IInv
BY InitHolds, StepKeeps, PTL DEF Spec

\* Every field stays in its range and the buffer's counters agree, whoever
\* reads, writes, copies, shares, closes and dies in whatever order.
THEOREM Typing == Spec => []TypeOK
<1>1. IInv => TypeOK
  BY DEF IInv
<1> QED
  BY Inductive, <1>1, PTL
-----------------------------------------------------------------------------
(* What goes through a pipe in use is a FIFO.                              *)

\* The tries of the tasks are the only calls the buffer gets.
LEMMA StepIsTry == IInv /\ [Next]_vars => [RP!Next]_(RP!vars)
<1> SUFFICES ASSUME IInv, [Next]_vars PROVE [RP!Next]_(RP!vars)
  OBVIOUS
<1>1. ASSUME NEW t \in Tasks, Move(t) PROVE RP!Next
  <2> DEFINE left == call[t].want - call[t].done
  <2>1. left \in 0..MaxIO
    BY <1>1, Bounds DEF IInv, TypeOK, InCall
  <2>2. \/ Ring!Read(left)
        \/ \E bytes \in [1..left -> Byte] : Ring!Write(bytes)
    BY <1>1 DEF Move
  <2> HIDE DEF left
  <2>3. RP!Read(left) \/ \E bytes \in [1..left -> Byte] : RP!Write(bytes)
    BY <2>2 DEF RP!Read, Ring!Read, RP!Write, Ring!Write, RP!Least, Ring!Least, RP!Most,
         Ring!Most, RP!Straight, Ring!Straight, RP!FileRead, Ring!FileRead, RP!FileWrite,
         Ring!FileWrite, RP!Advance, Ring!Advance, RP!Cells, Ring!Cells
  <2> QED
    BY <2>1, <2>3 DEF RP!Next
<1>2. CASE UNCHANGED ringVars
  BY <1>2 DEF ringVars, RP!vars
<1> QED
  BY <1>1, <1>2 DEF Next, KernelStep, vars, Yield, Begin, FindFile, Wait, Return, Close, Dup, Fork,
       CloneSharing, Exit, Reap

\* Every behaviour of the tasks is one of the buffer.
THEOREM UsesRing == Spec => RP!Spec
<1>1. Init => RP!Init
  BY DEF Init, RP!Init, Ring!Init, RP!Cells, Ring!Cells
<1> QED
  BY Inductive, <1>1, StepIsTry, PTL DEF Spec, RP!Spec

\* So bytes come out of a pipe in the order they went in, none lost, doubled
\* or invented, however the tasks that share it are scheduled between and
\* within their calls.
THEOREM InOrder == Spec => RP!IsFifo
<1>1. RP!Spec => RP!IsFifo
  BY Bounds, RP!Implements
<1> QED
  BY UsesRing, <1>1, PTL

-----------------------------------------------------------------------------
(* The hang-up.                                                            *)

\* A hang-up of the read end is final: with no write end in a table or in a
\* call, none comes back, and nothing is written.
LEMMA StepHungUp == IInv /\ ReadHangsUp /\ [Next]_vars => ReadHangsUp'
<1> SUFFICES ASSUME IInv, ReadHangsUp, [Next]_vars PROVE ReadHangsUp'
  OBVIOUS
<1>1. /\ len = 0
      /\ \A tb \in Tasks, fd \in Fds : files[tb][fd] # "write"
      /\ \A t \in Tasks : pc[t] \in Inside => call[t].kind # "write"
  BY DEF ReadHangsUp, Open
<1>2. TasksOK /\ RestOK' /\ pc' \in [Tasks -> Places] /\ call' \in [Tasks -> CallSet]
      /\ (len' \in Nat)
  <2>1. RingOK'
    BY StepRing
  <2>2. len' \in Nat
    BY <2>1, Bounds DEF RingOK, Ring!TypeOK
  <2> QED
    BY <2>2, Split, StepRest, StepCalls
<1>3. len' = 0
  <2>1. ASSUME NEW t \in Tasks, Move(t) PROVE len' = 0
    <3>1. call[t].kind = "read" /\ Len(reply'.bytes) \in Nat /\ len' = len - Len(reply'.bytes)
      BY <1>1, <2>1, TryMoves DEF Move, Inside
    <3> QED
      BY <1>1, <1>2, <3>1
  <2> QED
    BY <1>1, <2>1 DEF Next, KernelStep, vars, ringVars, Yield, Begin, FindFile, Wait, Return, Close,
         Dup, Fork, CloneSharing, Exit, Reap
<1>4. \A tb \in Tasks, fd \in Fds : files'[tb][fd] # "write"
  <2> USE <1>1, <1>2 DEF TasksOK
  <2>1. ASSUME NEW t \in Tasks, Close(t) PROVE \A tb \in Tasks, fd \in Fds : files'[tb][fd] # "write"
    BY <2>1 DEF Close
  <2>2. ASSUME NEW t \in Tasks, Dup(t) PROVE \A tb \in Tasks, fd \in Fds : files'[tb][fd] # "write"
    <3>1. Named(t) # "write"
      BY DEF Named, CallSet
    <3>2. UNCHANGED files \/ \E g : files' = [files EXCEPT ![tableOf[t]][g] = Named(t)]
      BY <2>2 DEF Dup
    <3>3. CASE UNCHANGED files
      BY <3>3
    <3>4. ASSUME NEW g, files' = [files EXCEPT ![tableOf[t]][g] = Named(t)]
          PROVE  \A tb \in Tasks, fd \in Fds : files'[tb][fd] # "write"
      <4> DEFINE table == [files[tableOf[t]] EXCEPT ![g] = Named(t)]
      <4>1. tableOf[t] \in Tasks /\ files[tableOf[t]] \in [Fds -> {"none", "read", "write"}]
        OBVIOUS
      <4>2. \A fd \in Fds : table[fd] # "write"
        BY <3>1, <4>1
      <4>3. files' = [files EXCEPT ![tableOf[t]] = table]
        BY <3>4
      <4> HIDE DEF table
      <4> QED
        BY <4>1, <4>2, <4>3
    <3> QED
      BY <3>2, <3>3, <3>4
  <2>3. ASSUME NEW t \in Tasks, Fork(t) PROVE \A tb \in Tasks, fd \in Fds : files'[tb][fd] # "write"
    <3>1. \/ UNCHANGED files
          \/ files' = [files EXCEPT ![Fresh] = files[tableOf[t]]]
      BY <2>3 DEF Fork
    <3>2. tableOf[t] \in Tasks
      OBVIOUS
    <3> QED
      BY <3>1, <3>2
  <2>4. ASSUME NEW gone, files' = FilesWithout(gone)
        PROVE  \A tb \in Tasks, fd \in Fds : files'[tb][fd] # "write"
    BY <2>4 DEF FilesWithout, NoFiles
  <2>5. CASE UNCHANGED files
    BY <2>5
  <2> QED
    BY <2>1, <2>2, <2>3, <2>4, <2>5 DEF Next, KernelStep, vars, Yield, Begin, FindFile, Move, Wait,
       Return, CloneSharing, Exit, Reap
<1>5. \A t \in Tasks : pc'[t] \in Inside => call'[t].kind # "write"
  <2> USE <1>1, <1>2 DEF TasksOK
  <2>1. ASSUME NEW t \in Tasks, FindFile(t)
        PROVE  \A u \in Tasks : pc'[u] \in Inside => call'[u].kind # "write"
    <3>1. Named(t) # "write"
      BY DEF Named, CallSet
    <3> QED
      BY <2>1, <3>1 DEF FindFile, ToUser, Inside
  <2>2. ASSUME NEW t \in Tasks, Move(t) \/ Wait(t)
        PROVE  \A u \in Tasks : pc'[u] \in Inside => call'[u].kind # "write"
    <3>1. call'[t].kind = call[t].kind
      BY <2>2 DEF Move, Wait, CallSet
    <3>2. \A u \in Tasks \ {t} : pc'[u] = pc[u] /\ call'[u] = call[u]
      BY <2>2 DEF Move, Wait, Suspend
    <3> QED
      BY <2>2, <3>1, <3>2 DEF Move, Wait, Inside
  <2>3. ASSUME \A u \in Tasks : pc'[u] \in Inside => pc[u] \in Inside /\ call'[u] = call[u]
        PROVE  \A u \in Tasks : pc'[u] \in Inside => call'[u].kind # "write"
    BY <2>3
  <2>4. ASSUME NEW t \in Tasks, Begin(t) \/ Return(t) \/ Close(t) \/ Dup(t)
        PROVE  \A u \in Tasks : pc'[u] \in Inside => pc[u] \in Inside /\ call'[u] = call[u]
    BY <2>4 DEF Begin, Return, Close, Dup, ToUser, Inside
  <2>5. ASSUME NEW t \in Tasks, Fork(t) \/ CloneSharing(t) \/ Exit(t) \/ Reap(t)
        PROVE  \A u \in Tasks : pc'[u] \in Inside => pc[u] \in Inside /\ call'[u] = call[u]
    <3>1. CASE Fork(t)
      BY <3>1, FreshUnborn DEF Fork, Inside
    <3>2. CASE CloneSharing(t)
      BY <3>2, FreshUnborn DEF CloneSharing, Inside
    <3>3. CASE Exit(t)
      BY <3>3 DEF Exit, Inside
    <3>4. CASE Reap(t)
      BY <3>4 DEF Reap, Inside
    <3> QED
      BY <2>5, <3>1, <3>2, <3>3, <3>4
  <2>6. CASE UNCHANGED <<pc, call>>
    BY <2>6
  <2> QED
    BY <2>1, <2>2, <2>3, <2>4, <2>5, <2>6 DEF Next, KernelStep, vars, Yield
<1> QED
  BY <1>3, <1>4, <1>5 DEF ReadHangsUp, Open

\* Once a poll of the read end reports the hang-up, no later one takes it
\* back, whatever the tasks share, copy, close or are in the middle of.
THEOREM HangUpFinal == Spec => HangUpIsFinal
<1>1. IInv /\ [Next]_vars => [ReadHangsUp => ReadHangsUp']_vars
  BY StepHungUp
<1> QED
  BY Inductive, <1>1, PTL DEF Spec, HangUpIsFinal
-----------------------------------------------------------------------------
(* On one core.                                                            *)

\* Whoever stands before the test of its loop has the core, and its last try
\* moved all it could.
LastTry ==
  \A t \in Tasks : pc[t] = "check" =>
    /\ Running(t)
    /\ call[t].done < call[t].want => len = IF call[t].kind = "read" THEN 0 ELSE Limit

LEMMA OneRuns ==
  ASSUME Cores = 1, NEW t \in Tasks, NEW u \in Tasks, Running(t), Running(u)
  PROVE  t = u
BY DEF Running

LEMMA FirstRuns ==
  ASSUME Cores = 1, queue \in Seq(Tasks), NEW t \in Tasks
  PROVE  Running(t) <=> Len(queue) >= 1 /\ queue[1] = t
BY DEF Running

LEMMA StepLastTry == ASSUME Cores = 1, IInv, LastTry, [Next]_vars PROVE LastTry'
<1>1. TasksOK
  BY Split
<1>2. ASSUME NEW t \in Tasks, Running(t), pc[t] # "check",
             \A u \in Tasks : pc'[u] = "check" => pc[u] = "check"
      PROVE  LastTry'
  BY <1>2, OneRuns DEF LastTry
<1>3. ASSUME NEW t \in Tasks, Move(t) PROVE LastTry'
  <2>1. Running(t)' <=> Running(t)
    BY <1>3 DEF Running, Move
  <2>2. call[t] \in CallSet /\ call \in [Tasks -> CallSet] /\ pc \in [Tasks -> Places]
    BY <1>1 DEF TasksOK
  <2>3. \A u \in Tasks : pc'[u] = "check" => u = t
    BY <1>3, <2>2, OneRuns DEF LastTry, Move
  <2>4. /\ call'[t].kind = call[t].kind /\ call'[t].want = call[t].want
        /\ call'[t].done = call[t].done + Len(reply'.bytes)
    BY <1>3, <2>2 DEF Move, CallSet
  <2>5. call'[t].done < call'[t].want => len' = IF call'[t].kind = "read" THEN 0 ELSE Limit
    BY <1>3, <2>4, TryMoves
  <2> QED
    BY <1>3, <2>1, <2>3, <2>5 DEF LastTry, Move
<1>4. ASSUME NEW t \in Tasks, Wait(t) \/ Return(t) PROVE LastTry'
  <2>1. \A u \in Tasks : pc'[u] # "check"
    BY <1>1, <1>4, OneRuns DEF LastTry, TasksOK, Wait, Suspend, Return, ToUser
  <2> QED
    BY <2>1 DEF LastTry
<1>5. ASSUME NEW t \in Tasks, Yield(t) \/ Begin(t) \/ FindFile(t) \/ Close(t) \/ Dup(t)
      PROVE  LastTry'
  <2>1. Running(t) /\ pc[t] # "check"
    BY <1>5 DEF Yield, Begin, FindFile, Close, Dup, Locks
  <2>2. \A u \in Tasks : pc'[u] = "check" => pc[u] = "check"
    BY <1>1, <1>5 DEF TasksOK, Yield, Begin, FindFile, Close, Dup, ToUser
  <2> QED
    BY <1>2, <2>1, <2>2
<1>6. ASSUME NEW t \in Tasks, Fork(t) \/ CloneSharing(t) \/ Exit(t) \/ Reap(t) PROVE LastTry'
  <2>1. Running(t) /\ pc[t] # "check"
    BY <1>6 DEF Fork, CloneSharing, Exit, Reap, Locks
  <2>2. \A u \in Tasks : pc'[u] = "check" => pc[u] = "check"
    <3> USE <1>1 DEF TasksOK
    <3>1. CASE Fork(t)
      BY <3>1, FreshUnborn DEF Fork
    <3>2. CASE CloneSharing(t)
      BY <3>2, FreshUnborn DEF CloneSharing
    <3>3. CASE Exit(t)
      BY <3>3 DEF Exit
    <3>4. CASE Reap(t)
      BY <3>4 DEF Reap
    <3> QED
      BY <1>6, <3>1, <3>2, <3>3, <3>4
  <2> QED
    BY <1>2, <2>1, <2>2
<1>7. CASE UNCHANGED vars
  BY <1>7 DEF LastTry, vars, ringVars, Running
<1> QED
  BY <1>3, <1>4, <1>5, <1>6, <1>7 DEF Next, KernelStep

\* On one core a read comes back short only from an empty pipe and a write
\* only from a full one: suspended in between, a task tries again before it
\* looks at the other end.
THEOREM ShortLeftNothing ==
  ASSUME Cores = 1
  PROVE  Spec => ShortMeansStuck
<1>1. Init => LastTry
  BY DEF Init, LastTry
<1>2. IInv /\ LastTry /\ [Next]_vars => LastTry'
  BY StepLastTry
<1>3. LastTry => [\A t \in Tasks : Returns(t) /\ call[t].done < call[t].want
                     => len = IF call[t].kind = "read" THEN 0 ELSE Limit]_vars
  BY DEF LastTry, Returns
<1> QED
  BY Inductive, <1>1, <1>2, <1>3, PTL DEF Spec, ShortMeansStuck
-----------------------------------------------------------------------------
(* Coming back from a call.  That every call does needs fairness, and TLC  *)
(* checks it; what can delay it is a matter of safety.                     *)

\* A table's lock is taken exactly by the task that is inside a transfer with
\* a file of it: by one at most.
Guards ==
  /\ \A tb \in Tasks : holder[tb] # NoTask =>
       /\ holder[tb] \in Tasks /\ pc[holder[tb]] \in Inside
       /\ tableOf[holder[tb]] = tb
  /\ \A t \in Tasks : pc[t] \in Inside => holder[tableOf[t]] = t

LEMMA StepGuards == ASSUME IInv, Guards, [Next]_vars PROVE Guards'
<1>1. TasksOK /\ NoTask \notin Tasks
  BY Split, PipeAssumption
<1> USE <1>1 DEF TasksOK
<1>2. ASSUME UNCHANGED <<holder, tableOf>>,
             \A u \in Tasks : pc'[u] \in Inside <=> pc[u] \in Inside
      PROVE  Guards'
  BY <1>2 DEF Guards
<1>3. ASSUME NEW t \in Tasks, FindFile(t) PROVE Guards'
  <2>1. CASE Named(t) = call[t].kind
    <3>1. /\ holder[tableOf[t]] = NoTask /\ pc[t] = "lock" /\ UNCHANGED tableOf
          /\ \A u \in Tasks : pc'[u] = IF u = t THEN "move" ELSE pc[u]
          /\ \A tb \in Tasks : holder'[tb] = IF tb = tableOf[t] THEN t ELSE holder[tb]
      BY <1>3, <2>1 DEF FindFile, Locks
    <3> DEFINE mine == tableOf[t]
    <3>2. mine \in Tasks /\ t # NoTask /\ holder[mine] = NoTask /\ holder'[mine] = t
      BY <3>1
    <3>3. ASSUME NEW tb \in Tasks, holder'[tb] # NoTask
          PROVE  /\ holder'[tb] \in Tasks /\ pc'[holder'[tb]] \in Inside
                 /\ tableOf'[holder'[tb]] = tb
      <4>1. CASE tb = mine
        BY <3>1, <3>2, <4>1 DEF Inside
      <4>2. CASE tb # mine
        <5>1. holder'[tb] = holder[tb]
          BY <3>1, <4>2
        <5>2. holder[tb] \in Tasks /\ pc[holder[tb]] \in Inside /\ tableOf[holder[tb]] = tb
          BY <3>3, <5>1 DEF Guards
        <5> QED
          BY <3>1, <5>1, <5>2 DEF Inside
      <4> QED
        BY <4>1, <4>2
    <3>4. ASSUME NEW u \in Tasks, pc'[u] \in Inside PROVE holder'[tableOf'[u]] = u
      <4>1. CASE u = t
        BY <3>1, <3>2, <4>1
      <4>2. CASE u # t
        <5>1. pc[u] \in Inside /\ tableOf[u] \in Tasks
          BY <3>1, <3>4, <4>2
        <5>2. holder[tableOf[u]] = u
          BY <5>1 DEF Guards
        <5>3. tableOf[u] # mine
          BY <3>2, <5>2
        <5> QED
          BY <3>1, <5>1, <5>2, <5>3
      <4> QED
        BY <4>1, <4>2
    <3> QED
      BY <3>3, <3>4 DEF Guards
  <2>2. CASE Named(t) # call[t].kind
    <3>1. pc[t] = "lock" /\ UNCHANGED <<holder, tableOf>>
          /\ \A u \in Tasks : pc'[u] = IF u = t THEN "user" ELSE pc[u]
      BY <1>3, <2>2 DEF FindFile, Locks, ToUser
    <3> QED
      BY <1>2, <3>1 DEF Inside
  <2> QED
    BY <2>1, <2>2
<1>4. ASSUME NEW t \in Tasks, Return(t) PROVE Guards'
  <2>1. /\ pc[t] = "check" /\ UNCHANGED tableOf
        /\ \A u \in Tasks : pc'[u] = IF u = t THEN "user" ELSE pc[u]
        /\ \A tb \in Tasks : holder'[tb] = IF tb = tableOf[t] THEN NoTask ELSE holder[tb]
    BY <1>4 DEF Return, ToUser
  <2>2. holder[tableOf[t]] = t
    BY <2>1 DEF Guards, Inside
  <2>3. ASSUME NEW tb \in Tasks, holder'[tb] # NoTask
        PROVE  /\ holder'[tb] \in Tasks /\ pc'[holder'[tb]] \in Inside
               /\ tableOf'[holder'[tb]] = tb
    <3>1. tb # tableOf[t] /\ holder'[tb] = holder[tb]
      BY <2>1, <2>3
    <3>2. holder[tb] \in Tasks /\ pc[holder[tb]] \in Inside /\ tableOf[holder[tb]] = tb
      BY <2>3, <3>1 DEF Guards
    <3>3. holder[tb] # t
      BY <3>1, <3>2
    <3> QED
      BY <2>1, <3>1, <3>2, <3>3
  <2>4. ASSUME NEW u \in Tasks, pc'[u] \in Inside PROVE holder'[tableOf'[u]] = u
    <3>1. u # t /\ pc[u] \in Inside /\ tableOf[u] \in Tasks
      BY <2>1, <2>4 DEF Inside
    <3>2. holder[tableOf[u]] = u
      BY <3>1 DEF Guards
    <3>3. tableOf[u] # tableOf[t]
      BY <2>2, <3>1, <3>2
    <3> QED
      BY <2>1, <3>1, <3>2, <3>3
  <2> QED
    BY <2>3, <2>4 DEF Guards
<1>5. ASSUME NEW t \in Tasks, Move(t) \/ Wait(t) PROVE Guards'
  <2>1. /\ pc[t] \in Inside /\ UNCHANGED <<holder, tableOf>>
        /\ \A u \in Tasks : IF u = t THEN pc'[u] \in Inside ELSE pc'[u] = pc[u]
    BY <1>5 DEF Move, Wait, Suspend, Inside
  <2> QED
    BY <1>2, <2>1
<1>6. ASSUME NEW t \in Tasks, Yield(t) \/ Begin(t) \/ Close(t) \/ Dup(t) PROVE Guards'
  <2>1. /\ pc[t] \notin Inside /\ UNCHANGED <<holder, tableOf>>
        /\ \A u \in Tasks : IF u = t THEN pc'[u] \notin Inside ELSE pc'[u] = pc[u]
    BY <1>6 DEF Yield, Begin, Close, Dup, Locks, ToUser, Inside
  <2> QED
    BY <1>2, <2>1
<1>7. ASSUME NEW t \in Tasks, Fork(t) PROVE Guards'
  <2>1. /\ pc[t] \notin Inside /\ UNCHANGED <<holder, tableOf>>
        /\ \A u \in Tasks : \/ pc'[u] = pc[u]
                            \/ pc[u] \in {"lock", "unborn"} /\ pc'[u] = "user"
    BY <1>7, FreshUnborn DEF Fork, Locks, Inside
  <2> QED
    BY <1>2, <2>1 DEF Inside
<1>8. ASSUME NEW t \in Tasks, CloneSharing(t) PROVE Guards'
  <2>1. /\ Fresh \in Tasks /\ pc[Fresh] = "unborn" /\ UNCHANGED holder
        /\ \A u \in Tasks : pc'[u] = IF u = Fresh THEN "user" ELSE pc[u]
        /\ \A u \in Tasks : u # Fresh => tableOf'[u] = tableOf[u]
    BY <1>8, FreshUnborn DEF CloneSharing
  <2> QED
    BY <2>1 DEF Guards, Inside
<1>9. ASSUME NEW t \in Tasks, Exit(t) \/ Reap(t) PROVE Guards'
  <2>1. /\ UNCHANGED <<holder, tableOf>>
        /\ \A u \in Tasks : \/ pc'[u] = pc[u]
                            \/ pc[u] \in {"user", "zombie"} /\ pc'[u] \in {"zombie", "gone"}
    BY <1>9 DEF Exit, Reap
  <2> QED
    BY <1>2, <2>1 DEF Inside
<1>10. CASE UNCHANGED vars
  BY <1>2, <1>10 DEF vars
<1> QED
  BY <1>3, <1>4, <1>5, <1>6, <1>7, <1>8, <1>9, <1>10 DEF Next, KernelStep

\* A task that has to spin for its table spins for another one with the same
\* table that is inside a transfer: only sharing a table makes a call wait
\* for more than its turn.
THEOREM SpinsForSharer ==
  Spec => [](\A t \in Tasks : pc[t] = "lock" /\ holder[tableOf[t]] # NoTask =>
               \E u \in Tasks \ {t} : pc[u] \in Inside /\ tableOf[u] = tableOf[t])
<1>1. Init => Guards
  BY DEF Init, Guards, Inside
<1>2. IInv /\ Guards => \A t \in Tasks : pc[t] = "lock" /\ holder[tableOf[t]] # NoTask =>
                          \E u \in Tasks \ {t} : pc[u] \in Inside /\ tableOf[u] = tableOf[t]
  <2> SUFFICES ASSUME IInv, Guards, NEW t \in Tasks, pc[t] = "lock", holder[tableOf[t]] # NoTask
               PROVE  \E u \in Tasks \ {t} : pc[u] \in Inside /\ tableOf[u] = tableOf[t]
    OBVIOUS
  <2>1. tableOf[t] \in Tasks
    BY Split DEF TasksOK
  <2>2. /\ holder[tableOf[t]] \in Tasks /\ pc[holder[tableOf[t]]] \in Inside
        /\ tableOf[holder[tableOf[t]]] = tableOf[t]
    BY <2>1 DEF Guards
  <2> QED
    BY <2>2 DEF Inside
<1>3. IInv /\ Guards /\ [Next]_vars => Guards'
  BY StepGuards
<1> QED
  BY Inductive, <1>1, <1>2, <1>3, PTL DEF Spec

\* What a task inside a transfer does next: try, suspend once more, or return.
Onward(t) ==
  \/ UNCHANGED <<pc[t], call[t]>>
  \/ /\ pc[t] = "move" /\ pc'[t] = "check"
     /\ call'[t].cnt = call[t].cnt /\ call[t].done <= call'[t].done
  \/ /\ pc[t] = "check" /\ pc'[t] = "move" /\ call[t].cnt < MaxTries
     /\ call'[t].cnt = call[t].cnt + 1
  \/ pc[t] = "check" /\ pc'[t] = "user"

\* A transfer suspends MaxTries times at most and never loses what it moved,
\* whatever happens to the other end, its table and its relatives meanwhile.
THEOREM TransfersAdvance == Spec => [][\A t \in Tasks : pc[t] \in Inside => Onward(t)]_vars
<1>1. IInv /\ [Next]_vars => \A t \in Tasks : pc[t] \in Inside => Onward(t)
  <2> SUFFICES ASSUME IInv, [Next]_vars, NEW t \in Tasks, pc[t] \in Inside PROVE Onward(t)
    OBVIOUS
  <2>1. TasksOK
    BY Split
  <2>2. ASSUME pc'[t] = pc[t], call'[t] = call[t] PROVE Onward(t)
    BY <2>2 DEF Onward
  <2>3. ASSUME NEW u \in Tasks, Move(u) PROVE Onward(t)
    <3>1. CASE u = t
      <4>1. Len(reply'.bytes) \in Nat
        BY <2>3, TryMoves
      <4>2. call[t] \in CallSet /\ call \in [Tasks -> CallSet]
        BY <2>1 DEF TasksOK
      <4>3. call[t].done \in Nat
        BY <4>2, Bounds DEF CallSet
      <4>4. call'[t].cnt = call[t].cnt /\ call'[t].done = call[t].done + Len(reply'.bytes)
        BY <2>3, <3>1, <4>2 DEF Move, CallSet
      <4>5. pc[t] = "move" /\ pc'[t] = "check"
        BY <2>1, <2>3, <3>1 DEF Move, TasksOK
      <4> QED
        BY <4>1, <4>3, <4>4, <4>5 DEF Onward
    <3>2. CASE u # t
      BY <2>1, <2>2, <2>3, <3>2 DEF Move, TasksOK
    <3> QED
      BY <3>1, <3>2
  <2>4. ASSUME NEW u \in Tasks, Wait(u) PROVE Onward(t)
    <3>1. CASE u = t
      <4>1. call[t] \in CallSet /\ call \in [Tasks -> CallSet]
        BY <2>1 DEF TasksOK
      <4>2. call'[t].cnt = call[t].cnt + 1
        BY <2>4, <3>1, <4>1 DEF Wait, Tried, CallSet
      <4>3. call[t].cnt \in 0..MaxTries /\ call[t].cnt # MaxTries
        BY <2>4, <3>1, <4>1 DEF Wait, GivesUp, CallSet
      <4>4. pc[t] = "check" /\ pc'[t] = "move"
        BY <2>1, <2>4, <3>1 DEF Wait, Suspend, TasksOK
      <4> QED
        BY <4>2, <4>3, <4>4 DEF Onward, MaxTries
    <3>2. CASE u # t
      BY <2>1, <2>2, <2>4, <3>2 DEF Wait, Suspend, TasksOK
    <3> QED
      BY <3>1, <3>2
  <2>5. ASSUME NEW u \in Tasks, Return(u) PROVE Onward(t)
    BY <2>1, <2>5 DEF Return, ToUser, TasksOK, Onward
  <2>6. ASSUME NEW u \in Tasks, Yield(u) \/ Begin(u) \/ FindFile(u) \/ Close(u) \/ Dup(u)
        PROVE  Onward(t)
    <3>1. pc[u] \in {"user", "lock"} /\ u # t
      BY <2>6 DEF Yield, Begin, FindFile, Close, Dup, Locks, Inside
    <3> QED
      BY <2>1, <2>2, <2>6, <3>1 DEF Yield, Begin, FindFile, Close, Dup, ToUser, TasksOK
  <2>7. ASSUME NEW u \in Tasks, Fork(u) PROVE Onward(t)
    <3>1. u # t /\ \A v \in Tasks : pc[v] = "unborn" => v # t
      BY <2>7 DEF Fork, Locks, Inside
    <3> QED
      BY <2>1, <2>2, <2>7, <3>1, FreshUnborn DEF Fork, TasksOK
  <2>8. ASSUME NEW u \in Tasks, CloneSharing(u) PROVE Onward(t)
    <3>1. Fresh # t
      BY <2>8, FreshUnborn DEF CloneSharing, Inside
    <3> QED
      BY <2>1, <2>2, <2>8, <3>1 DEF CloneSharing, TasksOK
  <2>9. ASSUME NEW u \in Tasks, Exit(u) \/ Reap(u) PROVE Onward(t)
    <3>1. pc[u] = "user" /\ u # t /\ call' = call
      BY <2>9 DEF Exit, Reap, Inside
    <3>2. pc'[t] = pc[t]
      BY <2>1, <2>9, <3>1 DEF Exit, Reap, Inside, TasksOK
    <3> QED
      BY <2>2, <3>1, <3>2
  <2>10. CASE UNCHANGED vars
    BY <2>2, <2>10 DEF vars
  <2> QED
    BY <2>3, <2>4, <2>5, <2>6, <2>7, <2>8, <2>9, <2>10 DEF Next, KernelStep
<1> QED
  BY Inductive, <1>1, PTL DEF Spec
=============================================================================
