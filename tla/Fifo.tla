-------------------------------- MODULE Fifo --------------------------------
(***************************************************************************)
(* What a pipe's buffer promises: a bounded first-in first-out queue of    *)
(* bytes that accepts as much of what is offered as it has room for and    *)
(* hands out as much of what is asked for as it holds.  RingBuffer         *)
(* implements it.                                                          *)
(***************************************************************************)
EXTENDS Integers, Sequences

CONSTANTS Byte,      \* the values a byte of the buffer may have
          Limit,     \* how many bytes the buffer holds
          MaxIO      \* bound: the longest buffer a caller offers

VARIABLES content,   \* the bytes written and not yet read, oldest first
          reply      \* the last call: its kind, and the bytes it moved

vars == <<content, reply>>

Least(a, b) == IF a < b THEN a ELSE b

Init == /\ content = <<>>
        /\ reply = [call |-> "new", bytes |-> <<>>]

\* Accept the longest prefix of bytes that there is room for.
Put(bytes) ==
  LET fits == SubSeq(bytes, 1, Least(Len(bytes), Limit - Len(content)))
  IN  /\ content' = content \o fits
      /\ reply' = [call |-> "write", bytes |-> fits]

\* Hand out the n oldest bytes, or all of them.
Take(n) ==
  LET k == Least(n, Len(content))
  IN  /\ content' = SubSeq(content, k + 1, Len(content))
      /\ reply' = [call |-> "read", bytes |-> SubSeq(content, 1, k)]

Next == \E n \in 0..MaxIO : Take(n) \/ \E bytes \in [1..n -> Byte] : Put(bytes)

Spec == Init /\ [][Next]_vars
=============================================================================
