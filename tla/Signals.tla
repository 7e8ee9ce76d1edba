------------------------------ MODULE Signals ------------------------------
(***************************************************************************)
(* Signals of the Maturin kernel: sending, masks, the handler a trap jumps *)
(* to on its way back to user mode, and sigreturn.                         *)
(*                                                                         *)
(* A signal is never handled when it is sent: the target takes it at the   *)
(* end of its own next trap.  One step is one system call or fault up to   *)
(* that point, or handle_signals itself, which waits for nothing while it  *)
(* owns its two locks; a guard it leaves behind is kept in leaked.         *)
(***************************************************************************)
EXTENDS Integers

CONSTANTS
  Threads,    \* tasks, each with its own SignalReceivers
  First,      \* the thread that exists at the start
  NSig,       \* SIGSET_SIZE_IN_BIT, 64 in the code; signals are 1 .. NSig
  Kill, Segv, Chld, \* SIGKILL, SIGSEGV and SIGCHLD
  Actions,    \* what programs pass to sigaction
  Masks,      \* the sets programs pass to sigprocmask
  Results,    \* what system calls leave in a0
  Restorers,  \* how handlers return: TRUE by the sigreturn call of a
              \* restorer, FALSE by running into SIGNAL_RETURN_TRAP
  ForkInHandler,  \* whether handlers may clone (a program's choice)
  Sent,       \* the signals programs send to threads
  MayFault,   \* whether programs make faults the kernel cannot repair
  Images      \* how many programs a thread may exec (a bound)

Sigs == 1 .. NSig

ASSUME SignalsAssumption ==
  /\ First \in Threads
  /\ NSig \in Nat \ {0} /\ {Kill, Segv, Chld} \subseteq Sigs
  /\ Kill # Segv /\ Kill # Chld /\ Segv # Chld
  /\ Actions \subseteq {"default", "ignore", "plain", "siginfo"}
  /\ Masks \subseteq SUBSET Sigs
  /\ Results \subseteq Int
  /\ Restorers \subseteq BOOLEAN
  /\ Sent \subseteq Sigs
  /\ ForkInHandler \in BOOLEAN /\ MayFault \in BOOLEAN
  /\ Images \in Nat \ {0}

EINVAL == -22

VARIABLES
  life,      \* "unborn", "user", "trap" (before handle_signals) or "gone"
  mask,      \* SignalReceivers::mask
  received,  \* SignalReceivers::sig_received
  group,     \* whose SignalHandlers the thread uses
  action,    \* SignalHandlers::actions; None and SIG_DFL act alike
  ctx,       \* the user context at the bottom of the kernel stack
  saved,     \* trap_cx_before_signal
  siginfo,   \* signal_set_siginfo
  ucpc,      \* the pc of the SignalUserContext the user's sp points at
  leaked     \* handler tables whose lock was never released

vars == <<life, mask, received, group, action, ctx, saved, siginfo, ucpc, leaked>>

-----------------------------------------------------------------------------
(* User contexts: the program image, the point it is at and a0.  A point   *)
(* is the main flow, the cancellation point a siginfo handler may choose,  *)
(* or a handler: <<kind, signal>>.                                         *)
Handlers == {"plain", "siginfo"} \X Sigs
Points   == {<<"main", 0>>, <<"cancel", 0>>} \cup Handlers
Contexts == [image : 1 .. Images, point : Points,
             a0 : Results \cup Sigs \cup {0, 1, -1, EINVAL}]
NoCx     == [image |-> 0, point |-> <<"none", 0>>, a0 |-> 0]

InHandler(t) == ctx[t].point \in Handlers
Exists(t)    == life[t] \in {"user", "trap"}

Init ==
  /\ life = [t \in Threads |-> IF t = First THEN "user" ELSE "unborn"]
  /\ mask = [t \in Threads |-> {}]
  /\ received = [t \in Threads |-> {}]
  /\ group = [t \in Threads |-> t]
  /\ action = [t \in Threads |-> [s \in Sigs |-> "default"]]
  /\ ctx = [t \in Threads |-> [image |-> 1, point |-> <<"main", 0>>, a0 |-> 0]]
  /\ saved = [t \in Threads |-> NoCx]
  /\ siginfo = [t \in Threads |-> FALSE]
  /\ ucpc = [t \in Threads |-> <<"main", 0>>]
  /\ leaked = {}

(* user_trap_handler stores the result of the call before handle_signals.  *)
Trap(t, a0) ==
  /\ life' = [life EXCEPT ![t] = "trap"]
  /\ ctx' = [ctx EXCEPT ![t].a0 = a0]

-----------------------------------------------------------------------------
(* System calls and faults of a thread in user mode.                       *)

(* Any other system call, or a page fault the kernel repairs.              *)
OtherTrap(t) ==
  /\ life[t] = "user"
  /\ \E r \in Results \cup {ctx[t].a0} : Trap(t, r)
  /\ UNCHANGED <<mask, received, group, action, saved, siginfo, ucpc, leaked>>

(* try_add_bit: signum - 1 wraps and the shift takes it modulo NSig.       *)
Bit_OneBased(n) == n % NSig
Bit(n) == ((n - 1) % NSig) + 1

(* sys_tkill, and sys_kill, which reaches only the thread with tid = pid;  *)
(* a tid the table does not know is no error.                              *)
SendSignal(t) ==
  /\ life[t] = "user"
  /\ \E u \in Threads, n \in Sent :
       received' = IF Exists(u) THEN [received EXCEPT ![u] = @ \cup {Bit(n)}]
                                ELSE received
  /\ Trap(t, 0)
  /\ UNCHANGED <<mask, group, action, saved, siginfo, ucpc, leaked>>

(* A fault handle_page_fault cannot repair sends SIGSEGV to its own thread *)
Fault(t) ==
  /\ life[t] = "user" /\ MayFault
  /\ received' = [received EXCEPT ![t] = @ \cup {Segv}]
  /\ Trap(t, ctx[t].a0)
  /\ UNCHANGED <<mask, group, action, saved, siginfo, ucpc, leaked>>

(* sys_sigprocmask with SIG_BLOCK, SIG_UNBLOCK and SIG_SETMASK.            *)
SigProcMask(t) ==
  /\ life[t] = "user"
  /\ \E m \in Masks :
       mask' \in {[mask EXCEPT ![t] = @ \cup m], [mask EXCEPT ![t] = @ \ m],
                  [mask EXCEPT ![t] = m]}
  /\ Trap(t, 0)
  /\ UNCHANGED <<received, group, action, saved, siginfo, ucpc, leaked>>

(* sys_sigaction; SIGKILL is refused, which changes nothing.               *)
SigAction(t) ==
  /\ life[t] = "user" /\ group[t] \notin leaked
  /\ \E s \in Sigs \ {Kill}, a \in Actions :
       action' = [action EXCEPT ![group[t]][s] = a]
  /\ Trap(t, 0)
  /\ UNCHANGED <<mask, received, group, saved, siginfo, ucpc, leaked>>

(* from_clone: fresh receivers, a shared or copied handler table, and the  *)
(* caller's context with a0 = 0.  The child does not start in a trap.      *)
Clone(t, u) ==
  /\ life[t] = "user" /\ life[u] = "unborn"
  /\ InHandler(t) => ForkInHandler
  /\ \/ /\ group' = [group EXCEPT ![u] = group[t]]
        /\ UNCHANGED action
     \/ /\ group[t] \notin leaked
        /\ action' = [action EXCEPT ![u] = action[group[t]]]
        /\ UNCHANGED group
  /\ life' = [life EXCEPT ![t] = "trap", ![u] = "user"]
  /\ ctx' = [ctx EXCEPT ![t].a0 = 1, ![u] = [ctx[t] EXCEPT !.a0 = 0]]
  /\ ucpc' = [ucpc EXCEPT ![u] = ucpc[t]]
  /\ UNCHANGED <<mask, received, saved, siginfo, leaked>>

(* exec resets handlers and receivers and starts the new image without     *)
(* passing handle_signals; the saved context is not one of the resets.     *)
Exec(t) ==
  /\ life[t] = "user" /\ group[t] \notin leaked
  /\ ctx[t].image < Images
  /\ action' = [action EXCEPT ![group[t]] = [s \in Sigs |-> "default"]]
  /\ mask' = [mask EXCEPT ![t] = {}]
  /\ received' = [received EXCEPT ![t] = {}]
  /\ ctx' = [ctx EXCEPT ![t] = [image |-> ctx[t].image + 1,
                                point |-> <<"main", 0>>, a0 |-> 0]]
  /\ UNCHANGED <<life, group, saved, siginfo, ucpc, leaked>>

(* A siginfo handler moves the pc of the user context it was given.        *)
ChoosePc(t) ==
  /\ life[t] = "user" /\ ctx[t].point[1] = "siginfo"
  /\ ucpc' = [ucpc EXCEPT ![t] = <<"cancel", 0>>]
  /\ UNCHANGED <<life, mask, received, group, action, ctx, saved, siginfo, leaked>>

Exit(t) ==
  /\ life[t] = "user"
  /\ life' = [life EXCEPT ![t] = "gone"]
  /\ UNCHANGED <<mask, received, group, action, ctx, saved, siginfo, ucpc, leaked>>

-----------------------------------------------------------------------------
(* Returning from a handler.                                               *)

(* load_trap_cx_if_handling_signals: the old context, with the pc the user *)
(* context names if the handler was given one.                             *)
Restored(t) == IF siginfo[t] THEN [saved[t] EXCEPT !.point = ucpc[t]] ELSE saved[t]

(* signal_return and what sys_sigreturn makes of it: -1 reads as failure.  *)
SyscallResult(r) == IF r = -1 THEN EINVAL ELSE r

(* sigreturn as a system call, followed by handle_signals.                 *)
Sigreturn(t) ==
  /\ life[t] = "user" /\ InHandler(t) /\ TRUE \in Restorers
  /\ life' = [life EXCEPT ![t] = "trap"]
  /\ ctx' = IF saved[t] = NoCx
            THEN [ctx EXCEPT ![t].a0 = EINVAL]
            ELSE [ctx EXCEPT ![t] = [Restored(t) EXCEPT !.a0 = SyscallResult(@)]]
  /\ saved' = [saved EXCEPT ![t] = NoCx]
  /\ UNCHANGED <<mask, received, group, action, siginfo, ucpc, leaked>>

(* The fault at SIGNAL_RETURN_TRAP goes straight back to user mode.        *)
ReturnTrap(t) ==
  /\ life[t] = "user" /\ InHandler(t) /\ FALSE \in Restorers
  /\ ctx' = IF saved[t] = NoCx THEN [ctx EXCEPT ![t].a0 = -1]
                               ELSE [ctx EXCEPT ![t] = Restored(t)]
  /\ saved' = [saved EXCEPT ![t] = NoCx]
  /\ UNCHANGED <<life, mask, received, group, action, siginfo, ucpc, leaked>>

-----------------------------------------------------------------------------
(* handle_signals.                                                         *)

(* get_one_signal: the lowest received signal outside the mask.  The _name *)
(* operators, here and below, are faulty variants the properties catch.    *)
Takes_Masked(t, s) == s \in received[t] /\ \A r \in received[t] : s <= r
Takes(t, s) ==
  /\ s \in received[t] \ mask[t]
  /\ \A r \in received[t] \ mask[t] : s <= r

ActionOf(t, s) == action[group[t]][s]

(* SigActionDefault::of_signal                                             *)
Terminates(s) == s # Chld

CanLock(t) == life[t] = "trap" /\ group[t] \notin leaked

NothingToHandle(t) ==
  /\ CanLock(t) /\ received[t] \subseteq mask[t]
  /\ life' = [life EXCEPT ![t] = "user"]
  /\ UNCHANGED <<mask, received, group, action, ctx, saved, siginfo, ucpc, leaked>>

(* trap_cx_before_signal is empty: no other signal is being handled.       *)
NotHandling_Always(t) == TRUE
NotHandling(t)        == saved[t] = NoCx

(* The bit is gone whatever happens to the signal afterwards.              *)
Take(t, s) ==
  /\ CanLock(t) /\ Takes(t, s)
  /\ received' = [received EXCEPT ![t] = @ \ {s}]

(* save_trap_cx_if_not_handling_signals forgets an earlier SA_SIGINFO.     *)
SiginfoAfterSave_Kept(t)  == siginfo[t]
SiginfoAfterSave(t)       == FALSE

(* A user handler: the context is saved, then pointed at the handler.  The *)
(* user stack holds a SignalUserContext only for SA_SIGINFO; otherwise     *)
(* what sp points at is any leftover.                                      *)
CallHandler(t, s) ==
  /\ Take(t, s) /\ NotHandling(t)
  /\ ActionOf(t, s) \in {"plain", "siginfo"}
  /\ LET info == ActionOf(t, s) = "siginfo"
     IN /\ siginfo' = [siginfo EXCEPT ![t] = info \/ SiginfoAfterSave(t)]
        /\ \E old \in IF info THEN {ctx[t].point} ELSE {ucpc[t], <<"cancel", 0>>} :
             ucpc' = [ucpc EXCEPT ![t] = old]
  /\ saved' = [saved EXCEPT ![t] = ctx[t]]
  /\ ctx' = [ctx EXCEPT ![t].point = <<ActionOf(t, s), s>>, ![t].a0 = s]
  /\ life' = [life EXCEPT ![t] = "user"]
  /\ UNCHANGED <<mask, group, action, leaked>>

(* SIG_IGN returns after the context was saved.                            *)
IgnoreByAction(t, s) ==
  /\ Take(t, s) /\ NotHandling(t) /\ ActionOf(t, s) = "ignore"
  /\ saved' = [saved EXCEPT ![t] = ctx[t]]
  /\ siginfo' = [siginfo EXCEPT ![t] = SiginfoAfterSave(t)]
  /\ life' = [life EXCEPT ![t] = "user"]
  /\ UNCHANGED <<mask, group, action, ctx, ucpc, leaked>>

(* A default of Ignore takes the saved context back.                       *)
AfterIgnore_Kept(t) == ctx[t]
AfterIgnore(t)      == NoCx

IgnoreByDefault(t, s) ==
  /\ Take(t, s) /\ NotHandling(t)
  /\ ActionOf(t, s) = "default" /\ ~Terminates(s)
  /\ saved' = [saved EXCEPT ![t] = AfterIgnore(t)]
  /\ siginfo' = [siginfo EXCEPT ![t] = SiginfoAfterSave(t)]
  /\ life' = [life EXCEPT ![t] = "user"]
  /\ UNCHANGED <<mask, group, action, ctx, ucpc, leaked>>

(* A default of Terminate drops both guards before it exits.               *)
GuardsLeft_NotDropped(t) == {group[t]}
GuardsLeft(t)            == {}

Terminate(t, s) ==
  /\ Take(t, s) /\ NotHandling(t)
  /\ ActionOf(t, s) = "default" /\ Terminates(s)
  /\ life' = [life EXCEPT ![t] = "gone"]
  /\ leaked' = leaked \cup GuardsLeft(t)
  /\ UNCHANGED <<mask, group, action, ctx, saved, siginfo, ucpc>>

(* SIGSEGV while a context is saved: the exit does not return, and its     *)
(* guards are never dropped.                                               *)
DieInHandler(t) ==
  /\ Take(t, Segv) /\ ~NotHandling(t)
  /\ life' = [life EXCEPT ![t] = "gone"]
  /\ leaked' = leaked \cup {group[t]}
  /\ UNCHANGED <<mask, group, action, ctx, saved, siginfo, ucpc>>

(* Any other signal while a context is saved was taken for nothing.        *)
DropInHandler(t, s) ==
  /\ s # Segv /\ Take(t, s) /\ ~NotHandling(t)
  /\ life' = [life EXCEPT ![t] = "user"]
  /\ UNCHANGED <<mask, group, action, ctx, saved, siginfo, ucpc, leaked>>

HandleSignals(t) ==
  \/ NothingToHandle(t) \/ DieInHandler(t)
  \/ \E s \in Sigs : \/ CallHandler(t, s) \/ IgnoreByAction(t, s)
                     \/ IgnoreByDefault(t, s) \/ Terminate(t, s)
                     \/ DropInHandler(t, s)

-----------------------------------------------------------------------------
User(t) ==
  \/ OtherTrap(t) \/ SendSignal(t) \/ Fault(t) \/ SigProcMask(t) \/ SigAction(t)
  \/ Exec(t) \/ ChoosePc(t) \/ Exit(t) \/ Sigreturn(t) \/ ReturnTrap(t)
  \/ \E u \in Threads : Clone(t, u)

Next == \E t \in Threads : User(t) \/ HandleSignals(t)

Spec == Init /\ [][Next]_vars

(* The kernel does not stop between a trap and the return from it.         *)
FairSpec == Spec /\ \A t \in Threads : WF_vars(HandleSignals(t))

-----------------------------------------------------------------------------
TypeOK ==
  /\ life \in [Threads -> {"unborn", "user", "trap", "gone"}]
  /\ mask \in [Threads -> SUBSET Sigs] /\ received \in [Threads -> SUBSET Sigs]
  /\ group \in [Threads -> Threads]
  /\ action \in [Threads -> [Sigs -> {"default", "ignore", "plain", "siginfo"}]]
  /\ ctx \in [Threads -> Contexts]
  /\ saved \in [Threads -> Contexts \cup {NoCx}]
  /\ siginfo \in [Threads -> BOOLEAN]
  /\ ucpc \in [Threads -> Points]
  /\ leaked \in SUBSET Threads

(* A handler can always return: the context it interrupted is kept for as  *)
(* long as it runs, through nested traps, signals and system calls.        *)
HandlerCanReturn == \A t \in Threads : Exists(t) /\ InHandler(t) => saved[t] # NoCx

(* "When a signal is ignored, the saved context must be deleted": outside  *)
(* handlers nothing is saved, or every later signal would be dropped.      *)
SavedOnlyInHandler ==
  \A t \in Threads : Exists(t) /\ saved[t] # NoCx => InHandler(t)

(* A return from a handler ends where the signal interrupted the program,  *)
(* or where the handler chose to, if it was given a user context.          *)
ReturnsWhereInterrupted ==
  [][\A t \in Threads :
       InHandler(t) /\ saved[t] # NoCx /\ saved'[t] = NoCx =>
         ctx'[t].point = IF ctx[t].point[1] = "siginfo" THEN ucpc[t]
                                                        ELSE saved[t].point]_vars

(* The action the program asked for happens: s reaches its handler, ends   *)
(* the thread, or is one that is ignored.                                  *)
Honoured(t, s) ==
  \/ ActionOf(t, s) \in {"plain", "siginfo"} /\ ctx'[t].point = <<ActionOf(t, s), s>>
  \/ ActionOf(t, s) = "default" /\ Terminates(s) /\ life'[t] = "gone"
  \/ ActionOf(t, s) = "default" /\ ~Terminates(s)
  \/ ActionOf(t, s) = "ignore"

(* Outside handlers a signal is consumed only unmasked, one per trap, and  *)
(* with its action: a mask set earlier and an action set since both hold.  *)
SignalsHonoured ==
  [][\A t \in Threads : life[t] = "trap" /\ ~InHandler(t) =>
       \A s \in received[t] \ received'[t] :
         s \notin mask[t] /\ Honoured(t, s)]_vars

(* Every trap returns to user mode or ends the thread: no lock of the      *)
(* signal module is held for ever.                                         *)
TrapsReturn == \A t \in Threads : life[t] = "trap" ~> life[t] # "trap"
=============================================================================
