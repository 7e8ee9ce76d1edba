--------------------------- MODULE SignalsProofs ---------------------------
(***************************************************************************)
(* Theorems about Signals, for any threads, signals, actions, masks and    *)
(* images: a handler can return and does so to where it interrupted the    *)
(* program, as long as handlers do not clone; and outside handlers every   *)
(* signal gets its action, as long as none is SIG_IGN and nothing execs.   *)
(* A trap can be handled unless a thread died with the table it needs.     *)
(***************************************************************************)
EXTENDS Signals, WellFoundedInduction, TLAPS

A0s == Results \cup Sigs \cup {0, 1, -1, EINVAL}
Kinds == {"default", "ignore", "plain", "siginfo"}

LEMMA Constants ==
  /\ First \in Threads /\ NSig \in Nat /\ NSig > 0
  /\ Segv \in Sigs /\ Actions \subseteq Kinds
  /\ Images \in Nat /\ Images > 0 /\ 1 \in 1..Images
BY SignalsAssumption DEF Kinds

LEMMA BitType == \A n \in Sigs : Bit(n) \in Sigs
<1> SUFFICES ASSUME NEW n \in Sigs PROVE Bit(n) \in Sigs
  OBVIOUS
<1>1. NSig \in Nat /\ NSig > 0 /\ n - 1 \in Int
  BY Constants DEF Sigs
<1>2. (n - 1) % NSig \in 0..(NSig - 1)
  BY <1>1
<1> HIDE DEF Bit
<1> QED
  BY <1>1, <1>2 DEF Bit, Sigs

LEMMA PointTypes ==
  /\ <<"main", 0>> \in Points /\ <<"main", 0>> \notin Handlers
  /\ <<"cancel", 0>> \in Points /\ <<"cancel", 0>> \notin Handlers
  /\ <<"none", 0>> \notin Handlers
  /\ \A k \in {"plain", "siginfo"}, s \in Sigs : <<k, s>> \in Points /\ <<k, s>> \in Handlers
  /\ Handlers \subseteq Points
BY DEF Points, Handlers

\* A context with another a0 or at another point.
LEMMA ContextTypes ==
  ASSUME NEW c \in Contexts, NEW a \in A0s, NEW p \in Points, NEW i \in 1..Images
  PROVE  /\ [c EXCEPT !.a0 = a] \in Contexts /\ [c EXCEPT !.a0 = a].point = c.point
         /\ [c EXCEPT !.point = p] \in Contexts /\ [c EXCEPT !.point = p].point = p
         /\ [image |-> i, point |-> p, a0 |-> a] \in Contexts
         /\ c.a0 \in A0s /\ c.point \in Points /\ c.image \in 1..Images
         /\ c # NoCx
<1>1. c.image # 0
  BY Constants DEF Contexts
<1> QED
  BY <1>1 DEF Contexts, A0s, NoCx

LEMMA A0Types == {0, 1, -1, EINVAL} \subseteq A0s /\ Sigs \subseteq A0s /\ Results \subseteq A0s
BY DEF A0s

\* What is restored is a context, and so is what sys_sigreturn makes of it.
LEMMA RestoredType ==
  ASSUME TypeOK, NEW t \in Threads, saved[t] # NoCx
  PROVE  /\ Restored(t) \in Contexts
         /\ Restored(t).point = IF siginfo[t] THEN ucpc[t] ELSE saved[t].point
         /\ SyscallResult(Restored(t).a0) \in A0s
<1>1. saved[t] \in Contexts /\ ucpc[t] \in Points
  BY DEF TypeOK
<1>2. Restored(t) \in Contexts
      /\ Restored(t).point = IF siginfo[t] THEN ucpc[t] ELSE saved[t].point
  BY <1>1 DEF Restored, Contexts
<1>3. Restored(t).a0 \in A0s
  BY <1>2 DEF Contexts, A0s
<1> QED
  BY <1>2, <1>3, A0Types DEF SyscallResult
-----------------------------------------------------------------------------
(* Types.                                                                  *)

\* One thread gets a new context.
LEMMA NewContext ==
  ASSUME TypeOK, NEW t \in Threads, NEW c \in Contexts, ctx' = [ctx EXCEPT ![t] = c]
  PROVE  ctx' \in [Threads -> Contexts] /\ ctx'[t] = c /\ \A u \in Threads \ {t} : ctx'[u] = ctx[u]
BY DEF TypeOK

\* A trap stores a0 and leaves the point.
LEMMA TrapMoves ==
  ASSUME TypeOK, NEW t \in Threads, NEW a \in A0s, Trap(t, a)
  PROVE  /\ ctx' \in [Threads -> Contexts]
         /\ \A u \in Threads : ctx'[u].point = ctx[u].point
         /\ life' = [life EXCEPT ![t] = "trap"]
<1> DEFINE c == [ctx[t] EXCEPT !.a0 = a]
<1>1. ctx[t] \in Contexts
  BY DEF TypeOK
<1>2. c \in Contexts /\ c.point = ctx[t].point
  BY <1>1, PointTypes, Constants, ContextTypes
<1>3. ctx' = [ctx EXCEPT ![t] = c] /\ life' = [life EXCEPT ![t] = "trap"]
  BY DEF Trap
<1> HIDE DEF c
<1> QED
  BY <1>2, <1>3, NewContext

\* After a clone the parent's context has a0 = 1, the child's a0 = 0.
LEMMA CloneContexts ==
  ASSUME TypeOK, NEW t \in Threads, NEW u \in Threads, Clone(t, u)
  PROVE  /\ ctx' \in [Threads -> Contexts] /\ t # u
         /\ \A v \in Threads \ {u} : ctx'[v].point = ctx[v].point
         /\ ctx'[u].point = ctx[t].point
<1> DEFINE c == [ctx[t] EXCEPT !.a0 = 1]
           d == [ctx[t] EXCEPT !.a0 = 0]
<1>1. ctx[t] \in Contexts /\ t # u
  BY DEF TypeOK, Clone
<1>2. c \in Contexts /\ d \in Contexts /\ c.point = ctx[t].point /\ d.point = ctx[t].point
  BY <1>1, PointTypes, Constants, ContextTypes, A0Types
<1>3. ctx' = [ctx EXCEPT ![t] = c, ![u] = d]
  BY DEF Clone
<1> HIDE DEF c, d
<1> QED
  BY <1>1, <1>2, <1>3 DEF TypeOK

\* A handler's context.
LEMMA HandlerContext ==
  ASSUME TypeOK, NEW t \in Threads, NEW s \in Sigs, CallHandler(t, s)
  PROVE  /\ ctx' \in [Threads -> Contexts]
         /\ ctx'[t].point = <<ActionOf(t, s), s>>
         /\ \A v \in Threads \ {t} : ctx'[v] = ctx[v]
<1> DEFINE p == <<ActionOf(t, s), s>>
           c == [ctx[t] EXCEPT !.point = p, !.a0 = s]
<1>1. ctx[t] \in Contexts /\ p \in Points /\ s \in A0s
  BY PointTypes, A0Types DEF TypeOK, CallHandler
<1>2. ctx' = [ctx EXCEPT ![t] = c]
  BY <1>1 DEF CallHandler, TypeOK, Contexts
<1> HIDE DEF p
<1>3. c \in Contexts /\ c.point = p
  BY <1>1 DEF Contexts, A0s
<1> HIDE DEF c
<1> QED
  BY <1>2, <1>3, NewContext DEF p

\* The context a return from a handler leaves.
LEMMA ReturnContext ==
  ASSUME TypeOK, NEW t \in Threads, Sigreturn(t) \/ ReturnTrap(t)
  PROVE  /\ ctx' \in [Threads -> Contexts]
         /\ saved[t] = NoCx => ctx'[t].point = ctx[t].point
         /\ saved[t] # NoCx => ctx'[t].point = IF siginfo[t] THEN ucpc[t] ELSE saved[t].point
         /\ \A v \in Threads \ {t} : ctx'[v] = ctx[v]
<1>1. ctx[t] \in Contexts
  BY DEF TypeOK
<1>2. CASE saved[t] = NoCx
  <2>1. PICK a \in {-1, EINVAL} : ctx' = [ctx EXCEPT ![t] = [ctx[t] EXCEPT !.a0 = a]]
    BY <1>2 DEF Sigreturn, ReturnTrap
  <2> DEFINE c == [ctx[t] EXCEPT !.a0 = a]
  <2>2. c \in Contexts /\ c.point = ctx[t].point
    BY <1>1 DEF Contexts, A0s
  <2> HIDE DEF c
  <2>3. ctx' = [ctx EXCEPT ![t] = c]
    BY <2>1 DEF c
  <2> QED
    BY <1>2, <2>2, <2>3, NewContext
<1>3. CASE saved[t] # NoCx
  <2> DEFINE r == Restored(t)
             c == [r EXCEPT !.a0 = SyscallResult(r.a0)]
  <2>1. /\ r \in Contexts
        /\ r.point = IF siginfo[t] THEN ucpc[t] ELSE saved[t].point
        /\ SyscallResult(r.a0) \in A0s
    BY <1>3, RestoredType
  <2>2. ctx' = [ctx EXCEPT ![t] = r] \/ ctx' = [ctx EXCEPT ![t] = c]
    BY <1>3 DEF Sigreturn, ReturnTrap
  <2> HIDE DEF r
  <2>3. c \in Contexts /\ c.point = r.point
    BY <2>1, PointTypes, Constants, ContextTypes
  <2> HIDE DEF c
  <2> QED
    BY <1>3, <2>1, <2>2, <2>3, NewContext
<1> QED
  BY <1>2, <1>3

\* exec starts a program at its main flow.
LEMMA ExecContext ==
  ASSUME TypeOK, NEW t \in Threads, Exec(t)
  PROVE  /\ ctx' \in [Threads -> Contexts] /\ ctx'[t].point = <<"main", 0>>
         /\ \A v \in Threads \ {t} : ctx'[v] = ctx[v]
<1> DEFINE c == [image |-> ctx[t].image + 1, point |-> <<"main", 0>>, a0 |-> 0]
<1>1. ctx[t].image + 1 \in 1..Images
  BY Constants DEF TypeOK, Contexts, Exec
<1>2. c \in Contexts /\ c.point = <<"main", 0>>
  BY <1>1, PointTypes DEF Contexts
<1>3. ctx' = [ctx EXCEPT ![t] = c]
  BY DEF Exec
<1> HIDE DEF c
<1> QED
  BY <1>2, <1>3, NewContext

\* What each step does to the contexts: they stay contexts, only one thread
\* moves to another point, and a new one starts where its parent is.
LEMMA StepContexts == ASSUME TypeOK, [Next]_vars PROVE ctx' \in [Threads -> Contexts]
<1>1. ctx \in [Threads -> Contexts]
  BY DEF TypeOK
<1>2. ASSUME NEW t \in Threads, NEW a \in A0s, Trap(t, a) PROVE ctx' \in [Threads -> Contexts]
  BY <1>2, TrapMoves
<1>3. ASSUME NEW t \in Threads,
             OtherTrap(t) \/ SendSignal(t) \/ Fault(t) \/ SigProcMask(t) \/ SigAction(t)
      PROVE  \E a \in A0s : Trap(t, a)
  <2>1. ctx[t].a0 \in A0s
    BY <1>1 DEF Contexts, A0s
  <2> QED
    BY <1>3, <2>1, A0Types DEF OtherTrap, SendSignal, Fault, SigProcMask, SigAction
<1>4. ASSUME NEW t \in Threads, HandleSignals(t), ~ \E s \in Sigs : CallHandler(t, s)
      PROVE  ctx' = ctx
  BY <1>4 DEF HandleSignals, NothingToHandle, DieInHandler, IgnoreByAction, IgnoreByDefault,
       Terminate, DropInHandler
<1>5. ASSUME NEW t \in Threads, ChoosePc(t) \/ Exit(t) PROVE ctx' = ctx
  BY <1>5 DEF ChoosePc, Exit
<1> QED
  BY <1>1, <1>2, <1>3, <1>4, <1>5, CloneContexts, HandlerContext, ReturnContext, ExecContext
  DEF Next, User, vars

\* The part of TypeOK that is not about contexts.
RestOK ==
  /\ life \in [Threads -> {"unborn", "user", "trap", "gone"}]
  /\ mask \in [Threads -> SUBSET Sigs] /\ received \in [Threads -> SUBSET Sigs]
  /\ group \in [Threads -> Threads]
  /\ action \in [Threads -> [Sigs -> {"default", "ignore", "plain", "siginfo"}]]
  /\ saved \in [Threads -> Contexts \cup {NoCx}]
  /\ siginfo \in [Threads -> BOOLEAN]
  /\ ucpc \in [Threads -> Points]
  /\ leaked \in SUBSET Threads

\* The fields a step changes keep their types.
LEMMA StepTypes == TypeOK /\ [Next]_vars => TypeOK'
<1> SUFFICES ASSUME TypeOK, [Next]_vars PROVE TypeOK'
  OBVIOUS
<1>1. ctx' \in [Threads -> Contexts]
  BY StepContexts
<1> USE DEF RestOK
<1>2. ASSUME NEW t \in Threads,
             OtherTrap(t) \/ SendSignal(t) \/ Fault(t) \/ SigProcMask(t) \/ SigAction(t)
      PROVE  RestOK'
  <2> USE <1>2 DEF TypeOK
  <2>1. CASE OtherTrap(t)
    BY <2>1 DEF OtherTrap, Trap
  <2>2. CASE SendSignal(t)
    <3>1. Sent \subseteq Sigs
      BY SignalsAssumption
    <3> QED
      BY <2>2, <3>1, BitType DEF SendSignal, Trap
  <2>3. CASE Fault(t)
    BY <2>3, Constants DEF Fault, Trap
  <2>4. CASE SigProcMask(t)
    <3>1. Masks \subseteq SUBSET Sigs
      BY SignalsAssumption
    <3>2. PICK m \in SUBSET Sigs :
            \/ mask' = [mask EXCEPT ![t] = @ \cup m]
            \/ mask' = [mask EXCEPT ![t] = @ \ m]
            \/ mask' = [mask EXCEPT ![t] = m]
      BY <2>4, <3>1 DEF SigProcMask
    <3>3. PICK new \in SUBSET Sigs : mask' = [mask EXCEPT ![t] = new]
      <4>1. mask[t] \in SUBSET Sigs
        OBVIOUS
      <4>2. mask[t] \cup m \in SUBSET Sigs /\ mask[t] \ m \in SUBSET Sigs
        BY <4>1
      <4> QED
        BY <3>2, <4>2
    <3>4. mask' \in [Threads -> SUBSET Sigs]
      BY <3>3
    <3> QED
      BY <2>4, <3>4 DEF SigProcMask, Trap
  <2>5. CASE SigAction(t)
    <3>1. PICK s \in Sigs, a \in Kinds : action' = [action EXCEPT ![group[t]][s] = a]
      BY <2>5, Constants DEF SigAction
    <3>2. group[t] \in Threads /\ action[group[t]] \in [Sigs -> Kinds]
      BY DEF Kinds
    <3> DEFINE table == [action[group[t]] EXCEPT ![s] = a]
    <3>3. table \in [Sigs -> Kinds] /\ action' = [action EXCEPT ![group[t]] = table]
      BY <3>1, <3>2
    <3> HIDE DEF table
    <3>4. action' \in [Threads -> [Sigs -> Kinds]]
      BY <3>2, <3>3 DEF Kinds
    <3> QED
      BY <2>5, <3>4 DEF SigAction, Trap, Kinds
  <2> QED
    BY <2>1, <2>2, <2>3, <2>4, <2>5
<1>3. ASSUME NEW t \in Threads, NEW u \in Threads, Clone(t, u) PROVE RestOK'
  BY <1>3 DEF TypeOK, Clone
<1>4. ASSUME NEW t \in Threads,
             Exec(t) \/ ChoosePc(t) \/ Exit(t) \/ Sigreturn(t) \/ ReturnTrap(t)
      PROVE  RestOK'
  <2> USE <1>4, PointTypes DEF TypeOK
  <2>1. CASE Exec(t)
    BY <2>1 DEF Exec
  <2>2. CASE ChoosePc(t)
    BY <2>2 DEF ChoosePc
  <2>3. CASE Exit(t)
    BY <2>3 DEF Exit
  <2>4. CASE Sigreturn(t) \/ ReturnTrap(t)
    BY <2>4 DEF Sigreturn, ReturnTrap
  <2> QED
    BY <2>1, <2>2, <2>3, <2>4
<1>5. ASSUME NEW t \in Threads, NothingToHandle(t) \/ DieInHandler(t) PROVE RestOK'
  <2>1. CASE NothingToHandle(t)
    BY <2>1 DEF TypeOK, NothingToHandle
  <2>2. CASE DieInHandler(t)
    BY <2>2, Constants DEF TypeOK, DieInHandler, Take
  <2> QED
    BY <1>5, <2>1, <2>2
<1>6. ASSUME NEW t \in Threads, NEW s \in Sigs, CallHandler(t, s) PROVE RestOK'
  <2>1. ctx[t] \in Contexts /\ ctx[t].point \in Points /\ ucpc[t] \in Points
        /\ <<"cancel", 0>> \in Points
    BY PointTypes DEF TypeOK, Contexts
  <2>2. ucpc' \in [Threads -> Points]
    <3>1. PICK old \in {ctx[t].point, ucpc[t], <<"cancel", 0>>} : ucpc' = [ucpc EXCEPT ![t] = old]
      BY <1>6 DEF CallHandler
    <3> QED
      BY <2>1, <3>1 DEF TypeOK
  <2>3. siginfo' \in [Threads -> BOOLEAN]
    BY <1>6 DEF CallHandler, TypeOK, SiginfoAfterSave
  <2> QED
    BY <1>6, <2>1, <2>2, <2>3 DEF CallHandler, TypeOK, Take
<1>7. ASSUME NEW t \in Threads, NEW s \in Sigs,
             IgnoreByAction(t, s) \/ IgnoreByDefault(t, s) \/ Terminate(t, s) \/ DropInHandler(t, s)
      PROVE  RestOK'
  <2> USE <1>7 DEF TypeOK, Take
  <2>1. CASE IgnoreByAction(t, s)
    BY <2>1 DEF IgnoreByAction, SiginfoAfterSave
  <2>2. CASE IgnoreByDefault(t, s)
    BY <2>2 DEF IgnoreByDefault, SiginfoAfterSave, AfterIgnore
  <2>3. CASE Terminate(t, s)
    BY <2>3 DEF Terminate, GuardsLeft
  <2>4. CASE DropInHandler(t, s)
    BY <2>4 DEF DropInHandler
  <2> QED
    BY <2>1, <2>2, <2>3, <2>4
<1>8. ASSUME UNCHANGED vars PROVE RestOK'
  BY <1>8 DEF vars, TypeOK
<1> HIDE DEF RestOK
<1>9. ASSUME NEW t \in Threads, User(t) PROVE RestOK'
  BY <1>2, <1>3, <1>4, <1>9 DEF User
<1>10. ASSUME NEW t \in Threads, HandleSignals(t) PROVE RestOK'
  BY <1>5, <1>6, <1>7, <1>10 DEF HandleSignals
<1>11. RestOK'
  BY <1>8, <1>9, <1>10 DEF Next
<1> QED
  BY <1>1, <1>11 DEF TypeOK, RestOK

LEMMA InitTypes == Init => TypeOK
<1>1. [image |-> 1, point |-> <<"main", 0>>, a0 |-> 0] \in Contexts
  BY PointTypes, Constants DEF Contexts
<1> QED
  BY <1>1, PointTypes DEF Init, TypeOK

\* Contexts, masks, tables and saved contexts keep their types, whatever
\* programs do.
THEOREM Typing == Spec => []TypeOK
BY InitTypes, StepTypes, PTL DEF Spec
-----------------------------------------------------------------------------
(* Returning from a handler.                                               *)

\* While a handler runs, its context is saved, and the flag says what kind of
\* handler it is; nothing a return goes back to is a handler.
HandlingOf(t) ==
  /\ Exists(t) /\ InHandler(t) => /\ saved[t] # NoCx
                                  /\ siginfo[t] <=> ctx[t].point[1] = "siginfo"
  /\ Exists(t) => saved[t].point \notin Handlers /\ ucpc[t] \notin Handlers
  /\ life[t] = "unborn" => saved[t] = NoCx
Handling == \A t \in Threads : HandlingOf(t)

\* A thread of which nothing has changed that HandlingOf speaks of.
SameHandling(t) ==
  /\ Exists(t)' => Exists(t)
  /\ life'[t] = "unborn" => life[t] = "unborn"
  /\ ctx'[t].point = ctx[t].point
  /\ saved'[t] = saved[t] /\ siginfo'[t] = siginfo[t] /\ ucpc'[t] = ucpc[t]

LEMMA SameKeeps ==
  ASSUME Handling, NEW t \in Threads, SameHandling(t)
  PROVE  HandlingOf(t)'
BY DEF Handling, SameHandling, HandlingOf, InHandler

LEMMA InitHandling == Init => Handling
<1> SUFFICES ASSUME Init, NEW t \in Threads PROVE HandlingOf(t)
  BY DEF Handling
<1>1. ctx[t].point = <<"main", 0>> /\ saved[t] = NoCx /\ ucpc[t] = <<"main", 0>>
  BY DEF Init
<1>2. saved[t].point = <<"none", 0>>
  BY <1>1 DEF NoCx
<1> QED
  BY <1>1, <1>2, PointTypes DEF HandlingOf, InHandler

\* Steps that touch neither contexts nor what is saved.
LEMMA QuietKeeps ==
  ASSUME TypeOK, NEW t \in Threads,
         \/ OtherTrap(t) \/ SendSignal(t) \/ Fault(t) \/ SigProcMask(t) \/ SigAction(t)
         \/ Exit(t) \/ NothingToHandle(t) \/ DieInHandler(t)
         \/ \E s \in Sigs : Terminate(t, s) \/ DropInHandler(t, s)
  PROVE  \A u \in Threads : SameHandling(u)
<1>1. ASSUME NEW a \in A0s, Trap(t, a), UNCHANGED <<saved, siginfo, ucpc>>, life[t] = "user"
      PROVE  \A u \in Threads : SameHandling(u)
  BY <1>1, TrapMoves DEF TypeOK, SameHandling, Exists
<1>2. CASE OtherTrap(t) \/ SendSignal(t) \/ Fault(t) \/ SigProcMask(t) \/ SigAction(t)
  <2>1. ctx[t].a0 \in A0s
    BY DEF TypeOK, Contexts, A0s
  <2>2. \E a \in A0s : Trap(t, a)
    BY <1>2, <2>1, A0Types DEF OtherTrap, SendSignal, Fault, SigProcMask, SigAction
  <2>3. UNCHANGED <<saved, siginfo, ucpc>> /\ life[t] = "user"
    BY <1>2 DEF OtherTrap, SendSignal, Fault, SigProcMask, SigAction
  <2> QED
    BY <1>1, <2>2, <2>3
<1>3. CASE \/ Exit(t) \/ NothingToHandle(t) \/ DieInHandler(t)
           \/ \E s \in Sigs : Terminate(t, s) \/ DropInHandler(t, s)
  <2>1. UNCHANGED <<ctx, saved, siginfo, ucpc>>
    BY <1>3 DEF Exit, NothingToHandle, DieInHandler, Terminate, DropInHandler
  <2>2. life[t] \in {"user", "trap"}
    BY <1>3 DEF Exit, NothingToHandle, DieInHandler, Terminate, DropInHandler, Take, CanLock
  <2>3. \E l \in {"user", "gone"} : life' = [life EXCEPT ![t] = l]
    BY <1>3 DEF Exit, NothingToHandle, DieInHandler, Terminate, DropInHandler
  <2> QED
    BY <2>1, <2>2, <2>3 DEF TypeOK, SameHandling, Exists
<1> QED
  BY <1>2, <1>3

\* What changes for the thread that steps and for the others.
LEMMA OthersKeep ==
  ASSUME Handling, NEW t \in Threads, HandlingOf(t)', \A u \in Threads \ {t} : SameHandling(u)
  PROVE  Handling'
BY SameKeeps DEF Handling

LEMMA CloneHandling ==
  ASSUME TypeOK, Handling, ForkInHandler = FALSE, NEW t \in Threads, NEW u \in Threads, Clone(t, u)
  PROVE  Handling'
<1>1. /\ t # u
      /\ \A v \in Threads \ {u} : ctx'[v].point = ctx[v].point
      /\ ctx'[u].point = ctx[t].point
  BY CloneContexts
<1>2. UNCHANGED <<saved, siginfo>> /\ ucpc' = [ucpc EXCEPT ![u] = ucpc[t]]
      /\ life' = [life EXCEPT ![t] = "trap", ![u] = "user"]
      /\ life[t] = "user" /\ life[u] = "unborn" /\ ~ InHandler(t)
  BY DEF Clone
<1>3. \A v \in Threads \ {u} : SameHandling(v)
  BY <1>1, <1>2 DEF TypeOK, SameHandling, Exists
<1>4. HandlingOf(u)'
  <2>1. ~ InHandler(u)' /\ life'[u] = "user"
    BY <1>1, <1>2 DEF InHandler, TypeOK
  <2>2. saved'[u] = NoCx /\ ucpc'[u] = ucpc[t] /\ ucpc[t] \notin Handlers
    BY <1>2 DEF Handling, HandlingOf, TypeOK, Exists
  <2>3. saved'[u].point \notin Handlers
    BY <2>2, PointTypes DEF NoCx
  <2> QED
    BY <2>1, <2>2, <2>3 DEF HandlingOf
<1> QED
  BY <1>3, <1>4, OthersKeep

LEMMA CallHandling ==
  ASSUME TypeOK, Handling, NEW t \in Threads, NEW s \in Sigs, CallHandler(t, s)
  PROVE  Handling'
<1>1. life[t] = "trap" /\ saved[t] = NoCx /\ ActionOf(t, s) \in {"plain", "siginfo"}
  BY DEF CallHandler, Take, CanLock, NotHandling
<1>2. ~ InHandler(t) /\ ucpc[t] \notin Handlers
  BY <1>1 DEF Handling, HandlingOf, Exists
<1>3. /\ ctx'[t].point = <<ActionOf(t, s), s>>
      /\ \A v \in Threads \ {t} : ctx'[v] = ctx[v]
  BY HandlerContext
<1>4. saved'[t] = ctx[t] /\ saved'[t] # NoCx /\ saved'[t].point \notin Handlers
  <2>1. saved'[t] = ctx[t] /\ ctx[t] \in Contexts
    BY DEF CallHandler, TypeOK
  <2>2. ctx[t] # NoCx
    BY <2>1, Constants DEF Contexts, NoCx
  <2> QED
    BY <1>2, <2>1, <2>2 DEF InHandler
<1>5. siginfo'[t] <=> ctx'[t].point[1] = "siginfo"
  <2>1. siginfo'[t] <=> ActionOf(t, s) = "siginfo"
    BY DEF CallHandler, TypeOK, SiginfoAfterSave
  <2>2. ctx'[t].point[1] = ActionOf(t, s)
    BY <1>3
  <2> QED
    BY <2>1, <2>2
<1>6. ucpc'[t] \notin Handlers
  <2>1. PICK old \in {ctx[t].point, ucpc[t], <<"cancel", 0>>} : ucpc' = [ucpc EXCEPT ![t] = old]
    BY DEF CallHandler
  <2>2. old \notin Handlers
    BY <1>2, PointTypes DEF InHandler
  <2> QED
    BY <2>1, <2>2 DEF TypeOK
<1>7. life'[t] = "user"
  BY DEF CallHandler, TypeOK
<1>8. HandlingOf(t)'
  BY <1>4, <1>5, <1>6, <1>7 DEF HandlingOf
<1>9. \A v \in Threads \ {t} : SameHandling(v)
  <2>1. ASSUME NEW v \in Threads \ {t}
        PROVE  saved'[v] = saved[v] /\ siginfo'[v] = siginfo[v] /\ ucpc'[v] = ucpc[v]
               /\ life'[v] = life[v]
    BY DEF CallHandler, TypeOK
  <2> QED
    BY <1>3, <2>1 DEF SameHandling, Exists
<1> QED
  BY <1>8, <1>9, OthersKeep

LEMMA IgnoreHandling ==
  ASSUME TypeOK, Handling, NEW t \in Threads, NEW s \in Sigs,
         IgnoreByAction(t, s) \/ IgnoreByDefault(t, s)
  PROVE  Handling'
<1>1. life[t] = "trap" /\ saved[t] = NoCx /\ UNCHANGED <<ctx, ucpc>>
      /\ life' = [life EXCEPT ![t] = "user"]
  BY DEF IgnoreByAction, IgnoreByDefault, Take, CanLock, NotHandling
<1>2. ~ InHandler(t) /\ ucpc[t] \notin Handlers
  BY <1>1 DEF Handling, HandlingOf, Exists
<1>3. saved'[t].point \notin Handlers
  <2>1. saved'[t] = ctx[t] \/ saved'[t] = NoCx
    BY DEF IgnoreByAction, IgnoreByDefault, AfterIgnore, TypeOK
  <2> QED
    BY <1>2, <2>1, PointTypes DEF InHandler, NoCx
<1>4. HandlingOf(t)'
  BY <1>1, <1>2, <1>3 DEF HandlingOf, InHandler, TypeOK
<1>5. \A v \in Threads \ {t} : SameHandling(v)
  <2>1. ASSUME NEW v \in Threads \ {t}
        PROVE  saved'[v] = saved[v] /\ siginfo'[v] = siginfo[v]
    BY DEF IgnoreByAction, IgnoreByDefault, TypeOK
  <2> QED
    BY <1>1, <2>1 DEF SameHandling, Exists, TypeOK
<1> QED
  BY <1>4, <1>5, OthersKeep

LEMMA ReturnHandling ==
  ASSUME TypeOK, Handling, NEW t \in Threads, Sigreturn(t) \/ ReturnTrap(t)
  PROVE  Handling' /\ saved[t] # NoCx
         /\ ctx'[t].point = IF ctx[t].point[1] = "siginfo" THEN ucpc[t] ELSE saved[t].point
<1>1. /\ life[t] = "user" /\ InHandler(t)
      /\ saved' = [saved EXCEPT ![t] = NoCx]
      /\ UNCHANGED <<siginfo, ucpc>>
      /\ \E l \in {"user", "trap"} : life' = [life EXCEPT ![t] = l]
  BY DEF Sigreturn, ReturnTrap, TypeOK
<1>2. /\ saved[t] # NoCx
      /\ siginfo[t] <=> ctx[t].point[1] = "siginfo"
      /\ saved[t].point \notin Handlers /\ ucpc[t] \notin Handlers
  BY <1>1 DEF Handling, HandlingOf, Exists
<1>3. /\ ctx'[t].point = IF siginfo[t] THEN ucpc[t] ELSE saved[t].point
      /\ \A v \in Threads \ {t} : ctx'[v] = ctx[v]
  BY <1>2, ReturnContext
<1>4. ctx'[t].point = IF ctx[t].point[1] = "siginfo" THEN ucpc[t] ELSE saved[t].point
  BY <1>2, <1>3
<1>5. ~ InHandler(t)'
  BY <1>2, <1>4 DEF InHandler
<1>6. saved'[t] = NoCx /\ ucpc'[t] \notin Handlers /\ life'[t] # "unborn"
  BY <1>1, <1>2 DEF TypeOK
<1>7. saved'[t].point \notin Handlers
  BY <1>6, PointTypes DEF NoCx
<1>8. HandlingOf(t)'
  BY <1>5, <1>6, <1>7 DEF HandlingOf
<1>9. \A v \in Threads \ {t} : SameHandling(v)
  BY <1>1, <1>3 DEF SameHandling, Exists, TypeOK
<1>10. Handling'
  BY <1>8, <1>9, OthersKeep
<1> QED
  BY <1>2, <1>4, <1>10

\* exec leaves the context of the old program saved, and the new program at
\* its main flow: a handler of the new program is never called.
LEMMA MoveHandling ==
  ASSUME TypeOK, Handling, NEW t \in Threads, Exec(t) \/ ChoosePc(t)
  PROVE  Handling' /\ UNCHANGED saved
<1>1. UNCHANGED <<life, saved, siginfo>> /\ life[t] = "user"
  BY DEF Exec, ChoosePc
<1>2. saved[t].point \notin Handlers /\ ucpc[t] \notin Handlers
  BY <1>1 DEF Handling, HandlingOf, Exists
<1>3. CASE Exec(t)
  <2>1. ~ InHandler(t)' /\ UNCHANGED ucpc
    BY <1>3, ExecContext, PointTypes DEF InHandler, Exec
  <2>2. HandlingOf(t)'
    BY <1>1, <1>2, <2>1 DEF HandlingOf
  <2>3. \A v \in Threads \ {t} : SameHandling(v)
    BY <1>1, <1>3, <2>1, ExecContext DEF SameHandling, Exists
  <2> QED
    BY <1>1, <2>2, <2>3, OthersKeep
<1>4. CASE ChoosePc(t)
  <2>1. UNCHANGED ctx /\ ucpc' = [ucpc EXCEPT ![t] = <<"cancel", 0>>]
    BY <1>4 DEF ChoosePc
  <2>2. HandlingOf(t)'
    BY <1>1, <2>1, PointTypes DEF Handling, HandlingOf, TypeOK, Exists, InHandler
  <2>3. \A v \in Threads \ {t} : SameHandling(v)
    BY <1>1, <2>1 DEF SameHandling, Exists, TypeOK
  <2> QED
    BY <1>1, <2>2, <2>3, OthersKeep
<1> QED
  BY <1>3, <1>4

\* A step of a thread keeps Handling, and frees what was saved only by a
\* return to where that says.
Returned(t) ==
  InHandler(t) /\ saved[t] # NoCx /\ saved'[t] = NoCx =>
    ctx'[t].point = IF ctx[t].point[1] = "siginfo" THEN ucpc[t] ELSE saved[t].point

LEMMA StepHandling ==
  ASSUME ForkInHandler = FALSE, TypeOK, Handling, [Next]_vars
  PROVE  Handling' /\ \A t \in Threads : Returned(t)
<1>1. ASSUME \A u \in Threads : SameHandling(u)
      PROVE  Handling' /\ \A t \in Threads : Returned(t)
  BY <1>1, SameKeeps DEF Handling, SameHandling, Returned
<1>2. ASSUME UNCHANGED saved PROVE \A t \in Threads : Returned(t)
  BY <1>2 DEF Returned
<1>3. ASSUME NEW t \in Threads, NEW u \in Threads, Clone(t, u)
      PROVE  Handling' /\ \A v \in Threads : Returned(v)
  BY <1>2, <1>3, CloneHandling DEF Clone
<1>4. ASSUME NEW t \in Threads, NEW s \in Sigs,
             CallHandler(t, s) \/ IgnoreByAction(t, s) \/ IgnoreByDefault(t, s)
      PROVE  Handling' /\ \A v \in Threads : Returned(v)
  <2>1. saved[t] = NoCx /\ \A v \in Threads \ {t} : saved'[v] = saved[v]
    BY <1>4 DEF CallHandler, IgnoreByAction, IgnoreByDefault, NotHandling, TypeOK
  <2> QED
    BY <1>4, <2>1, CallHandling, IgnoreHandling DEF Returned
<1>5. ASSUME NEW t \in Threads, Sigreturn(t) \/ ReturnTrap(t)
      PROVE  Handling' /\ \A v \in Threads : Returned(v)
  <2>1. \A v \in Threads \ {t} : saved'[v] = saved[v]
    BY <1>5 DEF Sigreturn, ReturnTrap, TypeOK
  <2>2. Handling' /\ Returned(t)
    BY <1>5, ReturnHandling DEF Returned
  <2> QED
    BY <2>1, <2>2 DEF Returned
<1>6. ASSUME NEW t \in Threads, Exec(t) \/ ChoosePc(t)
      PROVE  Handling' /\ \A v \in Threads : Returned(v)
  BY <1>2, <1>6, MoveHandling
<1>7. ASSUME UNCHANGED vars PROVE \A u \in Threads : SameHandling(u)
  BY <1>7 DEF vars, SameHandling, Exists
<1>8. ASSUME NEW t \in Threads, User(t) PROVE Handling' /\ \A v \in Threads : Returned(v)
  BY <1>1, <1>3, <1>5, <1>6, <1>8, QuietKeeps DEF User
<1>9. ASSUME NEW t \in Threads, HandleSignals(t)
      PROVE  Handling' /\ \A v \in Threads : Returned(v)
  BY <1>1, <1>4, <1>9, QuietKeeps DEF HandleSignals
<1> QED
  BY <1>1, <1>7, <1>8, <1>9 DEF Next

\* A handler can always return: its thread has the context it interrupted,
\* through whatever traps, signals, execs and clones of other threads.
THEOREM HandlersCanReturn ==
  ASSUME ForkInHandler = FALSE
  PROVE  Spec => []HandlerCanReturn
<1>1. Handling => HandlerCanReturn
  BY DEF Handling, HandlingOf, HandlerCanReturn
<1> QED
  BY Typing, InitHandling, StepHandling, <1>1, PTL DEF Spec

\* And a return goes to where the signal interrupted the program, or to the
\* point a siginfo handler chose.
THEOREM ReturnsGoBack ==
  ASSUME ForkInHandler = FALSE
  PROVE  Spec => ReturnsWhereInterrupted
<1>1. (\A t \in Threads : Returned(t))
        => [\A t \in Threads :
              InHandler(t) /\ saved[t] # NoCx /\ saved'[t] = NoCx =>
                ctx'[t].point = IF ctx[t].point[1] = "siginfo" THEN ucpc[t]
                                                               ELSE saved[t].point]_vars
  BY DEF Returned
<1> QED
  BY Typing, InitHandling, StepHandling, <1>1, PTL DEF Spec, ReturnsWhereInterrupted
-----------------------------------------------------------------------------
(* Signals outside handlers, without SIG_IGN and exec.                     *)

\* What is saved is saved for a handler that runs.
Tidy == /\ SavedOnlyInHandler
        /\ \A t \in Threads, s \in Sigs : action[t][s] # "ignore"
        /\ \A t \in Threads : life[t] = "unborn" => saved[t] = NoCx

LEMMA InitTidy == Init => Tidy
BY DEF Init, Tidy, SavedOnlyInHandler

LEMMA StepNoIgnore ==
  ASSUME "ignore" \notin Actions, TypeOK, [Next]_vars,
         \A t \in Threads, s \in Sigs : action[t][s] # "ignore"
  PROVE  \A t \in Threads, s \in Sigs : action'[t][s] # "ignore"
<1>1. ASSUME NEW t \in Threads, SigAction(t)
      PROVE  \A v \in Threads, s \in Sigs : action'[v][s] # "ignore"
  <2>1. PICK r \in Sigs, a \in Actions : action' = [action EXCEPT ![group[t]][r] = a]
    BY <1>1 DEF SigAction
  <2>2. group[t] \in Threads /\ a # "ignore"
    BY DEF TypeOK
  <2> DEFINE table == [action[group[t]] EXCEPT ![r] = a]
  <2>3. \A s \in Sigs : table[s] # "ignore"
    BY <2>2 DEF TypeOK
  <2>4. action' = [action EXCEPT ![group[t]] = table]
    BY <2>1
  <2> HIDE DEF table
  <2> QED
    BY <2>2, <2>3, <2>4 DEF TypeOK
<1>2. ASSUME NEW t \in Threads, NEW u \in Threads, Clone(t, u)
      PROVE  \A v \in Threads, s \in Sigs : action'[v][s] # "ignore"
  <2>1. group[t] \in Threads
    BY DEF TypeOK
  <2> QED
    BY <1>2, <2>1 DEF Clone, TypeOK
<1>3. ASSUME NEW t \in Threads, Exec(t)
      PROVE  \A v \in Threads, s \in Sigs : action'[v][s] # "ignore"
  BY <1>3 DEF Exec, TypeOK
<1>4. CASE UNCHANGED action
  BY <1>4
<1>5. ASSUME NEW t \in Threads, HandleSignals(t) PROVE UNCHANGED action
  BY <1>5 DEF HandleSignals, NothingToHandle, DieInHandler, CallHandler, IgnoreByAction,
       IgnoreByDefault, Terminate, DropInHandler
<1>6. ASSUME NEW t \in Threads,
             \/ OtherTrap(t) \/ SendSignal(t) \/ Fault(t) \/ SigProcMask(t)
             \/ ChoosePc(t) \/ Exit(t) \/ Sigreturn(t) \/ ReturnTrap(t)
      PROVE  UNCHANGED action
  BY <1>6 DEF OtherTrap, SendSignal, Fault, SigProcMask, ChoosePc, Exit, Sigreturn, ReturnTrap
<1> QED
  BY <1>1, <1>2, <1>3, <1>4, <1>5, <1>6 DEF Next, User, vars

LEMMA StepTidy ==
  ASSUME "ignore" \notin Actions, Images = 1, TypeOK, Tidy, [Next]_vars
  PROVE  Tidy'
<1> DEFINE Neat(t) == /\ Exists(t)' /\ saved'[t] # NoCx => InHandler(t)'
                      /\ life'[t] = "unborn" => saved'[t] = NoCx
<1>1. \A t \in Threads : ~ Exec(t)
  BY Constants DEF TypeOK, Contexts, Exec
<1>2. \A t \in Threads, s \in Sigs : ~ IgnoreByAction(t, s)
  BY DEF TypeOK, Tidy, IgnoreByAction, ActionOf
<1>3. ASSUME NEW t \in Threads, SameHandling(t) PROVE Neat(t)
  BY <1>3 DEF Tidy, SavedOnlyInHandler, SameHandling, InHandler
<1>4. ASSUME NEW t \in Threads,
             saved'[t] = saved[t], ctx'[t].point = ctx[t].point,
             Exists(t) <=> Exists(t)', life'[t] = "unborn" <=> life[t] = "unborn"
      PROVE  Neat(t)
  BY <1>4 DEF Tidy, SavedOnlyInHandler, InHandler
<1>5. ASSUME NEW t \in Threads, NEW u \in Threads, Clone(t, u) PROVE \A v \in Threads : Neat(v)
  <2>1. /\ t # u /\ \A v \in Threads \ {u} : ctx'[v].point = ctx[v].point
        /\ UNCHANGED saved /\ life[t] = "user" /\ life[u] = "unborn"
        /\ life' = [life EXCEPT ![t] = "trap", ![u] = "user"]
    BY <1>5, CloneContexts DEF Clone
  <2>2. Neat(u)
    BY <2>1 DEF Tidy, TypeOK
  <2>3. ASSUME NEW v \in Threads \ {u} PROVE Neat(v)
    BY <1>4, <2>1 DEF TypeOK, Exists
  <2> QED
    BY <2>2, <2>3
<1>6. ASSUME NEW t \in Threads, life[t] \in {"user", "trap"}, NEW l \in {"user", "trap"},
             life' = [life EXCEPT ![t] = l],
             saved'[t] = NoCx \/ InHandler(t)',
             \A v \in Threads \ {t} : ctx'[v] = ctx[v] /\ saved'[v] = saved[v]
      PROVE  \A v \in Threads : Neat(v)
  <2>1. Neat(t)
    BY <1>6 DEF TypeOK
  <2>2. ASSUME NEW v \in Threads \ {t} PROVE Neat(v)
    BY <1>4, <1>6 DEF TypeOK, Exists
  <2> QED
    BY <2>1, <2>2
<1>7. ASSUME NEW t \in Threads, NEW s \in Sigs, CallHandler(t, s) PROVE \A v \in Threads : Neat(v)
  <2>1. InHandler(t)' /\ \A v \in Threads \ {t} : ctx'[v] = ctx[v] /\ saved'[v] = saved[v]
    <3>1. ctx'[t].point = <<ActionOf(t, s), s>> /\ ActionOf(t, s) \in {"plain", "siginfo"}
      BY <1>7, HandlerContext DEF CallHandler
    <3>2. ctx'[t].point \in Handlers
      BY <3>1, PointTypes
    <3>3. \A v \in Threads \ {t} : ctx'[v] = ctx[v]
      BY <1>7, HandlerContext
    <3>4. \A v \in Threads \ {t} : saved'[v] = saved[v]
      BY <1>7 DEF CallHandler, TypeOK
    <3> QED
      BY <3>2, <3>3, <3>4 DEF InHandler
  <2>2. life[t] = "trap" /\ life' = [life EXCEPT ![t] = "user"]
    BY <1>7 DEF CallHandler, Take, CanLock
  <2> QED
    BY <1>6, <2>1, <2>2
<1>8. ASSUME NEW t \in Threads, NEW s \in Sigs, IgnoreByDefault(t, s)
      PROVE  \A v \in Threads : Neat(v)
  <2>1. saved'[t] = NoCx /\ \A v \in Threads \ {t} : ctx'[v] = ctx[v] /\ saved'[v] = saved[v]
    BY <1>8 DEF IgnoreByDefault, AfterIgnore, TypeOK
  <2>2. life[t] = "trap" /\ life' = [life EXCEPT ![t] = "user"]
    BY <1>8 DEF IgnoreByDefault, Take, CanLock
  <2> QED
    BY <1>6, <2>1, <2>2
<1>9. ASSUME NEW t \in Threads, Sigreturn(t) \/ ReturnTrap(t) PROVE \A v \in Threads : Neat(v)
  <2>1. saved'[t] = NoCx /\ \A v \in Threads \ {t} : ctx'[v] = ctx[v] /\ saved'[v] = saved[v]
    BY <1>9, ReturnContext DEF Sigreturn, ReturnTrap, TypeOK
  <2>2. life[t] = "user" /\ \E l \in {"user", "trap"} : life' = [life EXCEPT ![t] = l]
    BY <1>9 DEF Sigreturn, ReturnTrap, TypeOK
  <2> QED
    BY <1>6, <2>1, <2>2
<1>10. ASSUME NEW t \in Threads, ChoosePc(t) PROVE \A v \in Threads : Neat(v)
  BY <1>4, <1>10 DEF ChoosePc, Exists
<1>11. ASSUME UNCHANGED vars PROVE \A v \in Threads : Neat(v)
  BY <1>4, <1>11 DEF vars, Exists
<1> HIDE DEF Neat
<1>12. ASSUME NEW t \in Threads, User(t) PROVE \A v \in Threads : Neat(v)
  BY <1>1, <1>3, <1>5, <1>9, <1>10, <1>12, QuietKeeps DEF User
<1>13. ASSUME NEW t \in Threads, HandleSignals(t) PROVE \A v \in Threads : Neat(v)
  BY <1>2, <1>3, <1>7, <1>8, <1>13, QuietKeeps DEF HandleSignals
<1>14. \A v \in Threads : Neat(v)
  BY <1>11, <1>12, <1>13 DEF Next
<1> QED
  BY <1>14, StepNoIgnore DEF Tidy, SavedOnlyInHandler, Neat

\* No context stays saved once its handler is left.
THEOREM SavedForHandlers ==
  ASSUME "ignore" \notin Actions, Images = 1
  PROVE  Spec => []SavedOnlyInHandler
<1>1. Tidy => SavedOnlyInHandler
  BY DEF Tidy
<1> QED
  BY Typing, InitTidy, StepTidy, <1>1, PTL DEF Spec

\* A step takes a signal from a thread outside handlers only unmasked, and
\* gives it its action.
LEMMA StepHonours ==
  ASSUME Images = 1, TypeOK, Tidy, [Next]_vars,
         NEW t \in Threads, life[t] = "trap", ~ InHandler(t),
         NEW s \in received[t] \ received'[t]
  PROVE  s \notin mask[t] /\ Honoured(t, s)
<1>1. s \in Sigs /\ saved[t] = NoCx
  BY DEF TypeOK, Tidy, SavedOnlyInHandler, Exists
<1>2. HandleSignals(t)
  <2>1. ASSUME NEW u \in Threads, User(u) PROVE FALSE
    <3>1. u # t
      BY <2>1 DEF User, OtherTrap, SendSignal, Fault, SigProcMask, SigAction, Exec, ChoosePc, Exit,
           Sigreturn, ReturnTrap, Clone
    <3>2. received[t] \subseteq received'[t]
      <4>1. CASE SendSignal(u)
        BY <4>1 DEF TypeOK, SendSignal
      <4>2. CASE Fault(u) \/ Exec(u)
        BY <3>1, <4>2 DEF TypeOK, Fault, Exec
      <4>3. CASE \E v \in Threads : Clone(u, v)
        BY <4>3 DEF Clone
      <4> QED
        BY <2>1, <4>1, <4>2, <4>3 DEF User, OtherTrap, SigProcMask, SigAction, ChoosePc, Exit,
             Sigreturn, ReturnTrap
    <3> QED
      BY <3>2
  <2>2. ASSUME NEW u \in Threads, HandleSignals(u), u # t PROVE FALSE
    <3>1. received'[t] = received[t]
      BY <2>2 DEF TypeOK, HandleSignals, NothingToHandle, DieInHandler, CallHandler, IgnoreByAction,
           IgnoreByDefault, Terminate, DropInHandler, Take
    <3> QED
      BY <3>1
  <2> QED
    BY <2>1, <2>2 DEF Next, vars
<1>3. PICK r \in Sigs : CallHandler(t, r) \/ IgnoreByAction(t, r) \/ IgnoreByDefault(t, r)
                          \/ Terminate(t, r)
  BY <1>1, <1>2 DEF HandleSignals, NothingToHandle, DieInHandler, DropInHandler, NotHandling
<1>4. Take(t, r)
  BY <1>3 DEF CallHandler, IgnoreByAction, IgnoreByDefault, Terminate
<1>5. s = r /\ s \notin mask[t]
  BY <1>4 DEF Take, Takes, TypeOK
<1>6. Honoured(t, r)
  <2>1. CASE CallHandler(t, r)
    BY <2>1, HandlerContext DEF CallHandler, Honoured
  <2>2. CASE IgnoreByAction(t, r) \/ IgnoreByDefault(t, r)
    BY <2>2 DEF IgnoreByAction, IgnoreByDefault, Honoured
  <2>3. CASE Terminate(t, r)
    BY <2>3 DEF Terminate, Honoured, TypeOK
  <2> QED
    BY <1>3, <2>1, <2>2, <2>3
<1> QED
  BY <1>5, <1>6

\* Outside handlers a signal is consumed only unmasked and with its action,
\* whatever other threads send, mask, share or clone.
THEOREM ActionsHappen ==
  ASSUME "ignore" \notin Actions, Images = 1
  PROVE  Spec => SignalsHonoured
<1>1. TypeOK /\ Tidy /\ [Next]_vars
        => [\A t \in Threads : life[t] = "trap" /\ ~InHandler(t) =>
              \A s \in received[t] \ received'[t] : s \notin mask[t] /\ Honoured(t, s)]_vars
  BY StepHonours
<1> QED
  BY Typing, InitTidy, StepTidy, <1>1, PTL DEF Spec, SignalsHonoured
-----------------------------------------------------------------------------
(* Coming back from a trap.                                                *)

\* handle_signals can go on: it gets the two locks, and finds nothing to do
\* or a lowest signal to take.
CanHandle(t) == CanLock(t) /\ (received[t] \subseteq mask[t] \/ \E s \in Sigs : Takes(t, s))

\* A thread died of SIGSEGV while it handled a signal: its context is saved
\* for ever, and so is the lock of the table it used.
DiedHandling(u) == life[u] = "gone" /\ saved[u] # NoCx

\* Whoever left a table locked is known.
Guilty == \A g \in leaked : \E u \in Threads : group[u] = g /\ DiedHandling(u)

Less == {ss \in Nat \X Nat : ss[1] < ss[2]}

\* A set of signals that is not empty has a lowest one.
LEMMA HasLowest ==
  ASSUME NEW S \in SUBSET Sigs, S # {}
  PROVE  \E s \in S : \A r \in S : s <= r
<1>1. Sigs \subseteq Nat
  BY Constants DEF Sigs
<1>2. IsWellFoundedOn(Less, Nat)
  BY NatLessThanWellFounded DEF OpToRel, Less
<1>3. PICK s \in S : \A r \in S : ~ (<<r, s>> \in Less)
  BY <1>1, <1>2, WFMin
<1>4. s \in Nat /\ \A r \in S : r \in Nat /\ ~ (r < s)
  BY <1>1, <1>3 DEF Less
<1> QED
  BY <1>4

\* What a dead thread leaves stays as it is.
LEMMA DeadStay ==
  ASSUME TypeOK, [Next]_vars, NEW u \in Threads, life[u] = "gone"
  PROVE  life'[u] = "gone" /\ saved'[u] = saved[u] /\ group'[u] = group[u]
<1>1. ASSUME NEW t \in Threads,
             \/ OtherTrap(t) \/ SendSignal(t) \/ Fault(t) \/ SigProcMask(t) \/ SigAction(t)
      PROVE  life'[u] = "gone" /\ saved'[u] = saved[u] /\ group'[u] = group[u]
  BY <1>1 DEF OtherTrap, SendSignal, Fault, SigProcMask, SigAction, Trap, TypeOK
<1>2. ASSUME NEW t \in Threads, Exec(t) \/ ChoosePc(t) \/ Exit(t) \/ Sigreturn(t) \/ ReturnTrap(t)
      PROVE  life'[u] = "gone" /\ saved'[u] = saved[u] /\ group'[u] = group[u]
  BY <1>2 DEF Exec, ChoosePc, Exit, Sigreturn, ReturnTrap, TypeOK
<1>3. ASSUME NEW t \in Threads, NEW v \in Threads, Clone(t, v)
      PROVE  life'[u] = "gone" /\ saved'[u] = saved[u] /\ group'[u] = group[u]
  BY <1>3 DEF Clone, TypeOK
<1>4. ASSUME NEW t \in Threads, HandleSignals(t)
      PROVE  life'[u] = "gone" /\ saved'[u] = saved[u] /\ group'[u] = group[u]
  <2>1. life[t] = "trap"
    BY <1>4 DEF HandleSignals, NothingToHandle, DieInHandler, CallHandler, IgnoreByAction,
                IgnoreByDefault, Terminate, DropInHandler, Take, CanLock
  <2> QED
    BY <1>4, <2>1 DEF HandleSignals, NothingToHandle, DieInHandler, CallHandler, IgnoreByAction,
                      IgnoreByDefault, Terminate, DropInHandler, TypeOK
<1> QED
  BY <1>1, <1>2, <1>3, <1>4 DEF Next, User, vars

LEMMA StepGuilty == TypeOK /\ Guilty /\ [Next]_vars => Guilty'
<1> SUFFICES ASSUME TypeOK, Guilty, [Next]_vars, NEW g \in leaked'
             PROVE  \E u \in Threads : group'[u] = g /\ DiedHandling(u)'
  BY DEF Guilty
<1>1. CASE g \in leaked
  BY <1>1, DeadStay DEF Guilty, DiedHandling
<1>2. CASE g \notin leaked
  <2>1. ASSUME NEW t \in Threads, User(t) PROVE FALSE
    <3>1. leaked' = leaked
      BY <2>1 DEF User, OtherTrap, SendSignal, Fault, SigProcMask, SigAction, Exec, ChoosePc,
                  Exit, Sigreturn, ReturnTrap, Clone
    <3> QED
      BY <3>1, <1>2
  <2>2. ASSUME NEW t \in Threads, HandleSignals(t), ~ DieInHandler(t) PROVE FALSE
    <3>1. leaked' = leaked
      BY <2>2 DEF HandleSignals, NothingToHandle, CallHandler, IgnoreByAction, IgnoreByDefault,
                  Terminate, DropInHandler, GuardsLeft
    <3> QED
      BY <3>1, <1>2
  <2>3. [Next]_vars => Next \/ leaked' = leaked
    BY DEF vars
  <2>4. PICK t \in Threads : DieInHandler(t)
    BY <1>2, <2>1, <2>2, <2>3 DEF Next
  <2>5. group[t] = g
    BY <1>2, <2>4 DEF DieInHandler
  <2> QED
    BY <2>4, <2>5 DEF DieInHandler, NotHandling, DiedHandling, TypeOK
<1> QED
  BY <1>1, <1>2

\* A trap comes back to user mode or ends its thread, as nothing but this can
\* stop it: another thread that shared its handler table has died of SIGSEGV
\* in a handler, with the table's guard in its hands.
THEOREM TrapsCanReturn ==
  Spec => [](\A t \in Threads : life[t] = "trap" =>
               \/ CanHandle(t)
               \/ \E u \in Threads \ {t} : group[u] = group[t] /\ DiedHandling(u))
<1>1. Init => Guilty
  BY DEF Init, Guilty
<1>2. TypeOK /\ Guilty =>
        \A t \in Threads : life[t] = "trap" =>
          \/ CanHandle(t)
          \/ \E u \in Threads \ {t} : group[u] = group[t] /\ DiedHandling(u)
  <2> SUFFICES ASSUME TypeOK, Guilty, NEW t \in Threads, life[t] = "trap", group[t] \notin leaked
               PROVE  CanHandle(t)
    BY DEF Guilty, DiedHandling
  <2>1. received[t] \ mask[t] \subseteq Sigs
    BY DEF TypeOK
  <2>2. received[t] \ mask[t] # {} => \E s \in Sigs : Takes(t, s)
    BY <2>1, HasLowest DEF Takes
  <2> QED
    BY <2>2 DEF CanHandle, CanLock
<1> QED
  BY <1>1, <1>2, StepGuilty, Typing, PTL DEF Spec
=============================================================================
