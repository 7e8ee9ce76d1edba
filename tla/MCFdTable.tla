----------------------------- MODULE MCFdTable -----------------------------
(* Instances of FdTable for TLC: files of every kind, every call.          *)
EXTENDS FdTable
CONSTANTS f1, d1, s1, r1, w1
Some == {f1, d1, s1, r1, w1}
SomeKinds == [f \in Some |-> CASE f = f1 -> "fat" [] f = d1 -> "dir" [] f = s1 -> "socket"
                               [] OTHER -> "pipe"]
AllCalls == {"open", "pipe", "close", "dup", "dup3", "setfd", "setfl", "dupcloexec",
             "setlimit", "fork", "exec"}
=============================================================================
