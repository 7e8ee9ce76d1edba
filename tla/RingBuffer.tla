----------------------------- MODULE RingBuffer -----------------------------
(***************************************************************************)
(* The circular buffer inside a pipe (file/pipe.rs).  Its bytes live in a  *)
(* memory file that grows to at most Limit bytes; head and end are         *)
(* positions in that file that wrap lazily: a transfer that ends exactly   *)
(* at Limit leaves the position at Limit, and only a later transfer that   *)
(* crosses the limit starts again at 0.                                    *)
(***************************************************************************)
EXTENDS Integers, Sequences

CONSTANTS Byte,      \* the values a byte of the buffer may have
          Stale,     \* what a caller's buffer holds where nothing was copied
          Limit,     \* size_limit
          MaxIO      \* bound: the longest buffer a caller offers

ASSUME LimitIsPositive == Limit \in Nat \ {0}
ASSUME MaxIOIsNatural  == MaxIO \in Nat
ASSUME StaleIsNoByte   == Stale \notin Byte

VARIABLES data,      \* the memory file: one value for each position
          size,      \* how far the memory file has been written
          head,      \* where the next byte is read
          end,       \* where the next byte is written
          len,       \* how many bytes are in the buffer
          reply      \* what the last call moved (see Fifo)

vars == <<data, size, head, end, len, reply>>

Cells == 0..(Limit - 1)

Least(a, b) == IF a < b THEN a ELSE b
Most(a, b)  == IF a > b THEN a ELSE b
-----------------------------------------------------------------------------
(* The memory file.                                                        *)

\* A mutant: the buffer forgets to set the file's position before it reads.
FileRead_NotSet(pos, n) ==
  [i \in 1..n |-> IF i <= size THEN data[i - 1] ELSE Stale]

\* read_inner at pos into the caller's n bytes: those beyond the end of the
\* file are not copied.
FileRead(pos, n) ==
  [i \in 1..n |-> IF pos + i - 1 < size THEN data[pos + i - 1] ELSE Stale]

\* write_inner at pos: the file's bytes after it, as a function of the cell.
FileWrite(file, pos, bytes) ==
  [c \in Cells |-> IF pos <= c /\ c < pos + Len(bytes)
                   THEN bytes[c - pos + 1] ELSE file[c]]

\* Does a transfer of n bytes at pos stay before the limit?
Straight(pos, n) == pos + n <= Limit

\* A mutant: the position wraps one byte early.
Advance_Early(pos, n) == IF Straight(pos, n) THEN pos + n ELSE pos + n - Limit + 1

\* The position after n bytes at pos.
Advance(pos, n) == IF Straight(pos, n) THEN pos + n ELSE pos + n - Limit
-----------------------------------------------------------------------------
Init == /\ data = [c \in Cells |-> Stale]
        /\ size = 0
        /\ head = 0
        /\ end = 0
        /\ len = 0
        /\ reply = [call |-> "new", bytes |-> <<>>]

\* RingBuffer::read into a buffer of n bytes: in one piece, or the piece
\* before the limit and the piece from the start.
Read(n) ==
  LET k    == Least(n, len)
      till == Limit - head
  IN  /\ reply' = [call |-> "read",
                   bytes |-> IF Straight(head, k)
                             THEN FileRead(head, k)
                             ELSE FileRead(head, till) \o FileRead(0, k - till)]
      /\ head' = Advance(head, k)
      /\ len' = len - k
      /\ UNCHANGED <<data, size, end>>

\* RingBuffer::write of as much of the caller's bytes as there is room for.
Write(bytes) ==
  LET k    == Least(Len(bytes), Limit - len)
      till == Limit - end
  IN  /\ IF Straight(end, k)
         THEN /\ data' = FileWrite(data, end, SubSeq(bytes, 1, k))
              /\ size' = IF k = 0 THEN size ELSE Most(size, end + k)
         ELSE /\ data' = FileWrite(FileWrite(data, end, SubSeq(bytes, 1, till)),
                                   0, SubSeq(bytes, till + 1, k))
              /\ size' = IF till = 0 THEN Most(size, k) ELSE Limit
      /\ end' = Advance(end, k)
      /\ len' = len + k
      /\ reply' = [call |-> "write", bytes |-> SubSeq(bytes, 1, k)]
      /\ UNCHANGED head

Next == \E n \in 0..MaxIO : Read(n) \/ \E bytes \in [1..n -> Byte] : Write(bytes)

Spec == Init /\ [][Next]_vars
-----------------------------------------------------------------------------
(* Properties.                                                             *)

TypeOK ==
  /\ data \in [Cells -> Byte \cup {Stale}]
  /\ size \in 0..Limit
  /\ head \in 0..Limit
  /\ end \in 0..Limit
  /\ len \in 0..Limit
  /\ reply \in [call : {"new", "read", "write"}, bytes : Seq(Byte)]

\* The cell of a position that may lie one lap ahead.
Cell(p) == IF p < Limit THEN p ELSE p - Limit

\* The positions and the counter agree, whichever of the two positions sits
\* at the limit without having wrapped, and the part of the file between them
\* has been written: the three fields that pipe.rs updates separately never
\* drift apart, and a read copies no byte nobody wrote.
Consistent ==
  /\ end = head + len \/ end = head + len - Limit
  /\ end = head + len => size >= end
  /\ end # head + len => size = Limit
  /\ \A c \in Cells : c < size => data[c] \in Byte

\* The buffer's contents, oldest byte first.
Contents == [i \in 1..len |-> data[Cell(head + i - 1)]]

\* The ring buffer behaves as a bounded first-in first-out queue: bytes come
\* out in the order they went in, none lost, none doubled, none invented, and
\* as many are moved as the limit and the contents allow.
Abstract == INSTANCE Fifo WITH content <- Contents
IsFifo == Abstract!Spec
=============================================================================
