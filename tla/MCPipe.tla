------------------------------- MODULE MCPipe -------------------------------
(* Instances of Pipe for TLC: a buffer of two bytes, all alike, because    *)
(* what a pipe does depends on how many there are only.                    *)
EXTENDS Pipe
OneByte == {0}
MayShare == BOOLEAN
TwoFds == {0, 1}
=============================================================================
