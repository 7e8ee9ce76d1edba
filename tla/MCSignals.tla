----------------------------- MODULE MCSignals -----------------------------
(* Instances of Signals for TLC: four signals stand for the sixty-four.    *)
EXTENDS Signals

\* SIGCHLD = 1, SIGSEGV = 2, then SIGKILL, or a signal with handlers and
\* SIGKILL: the order in which get_one_signal finds them.
AllActions   == {"default", "ignore", "plain", "siginfo"}
OnlyHandlers == {"plain"}
SomeMasks    == {{3}, {1, 3}}
OneMask      == {{3}}
TwoResults   == {0, -1}
OneResult    == {0}
BothReturns  == {TRUE, FALSE}
AnySignal    == {1, 2, 3, 4}
ChldKill     == {1, 3}
MaskChld     == {{1}}
BySyscall    == {TRUE}
=============================================================================
