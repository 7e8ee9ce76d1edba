------------------------------- MODULE Bitmap -------------------------------
(***************************************************************************)
(* What the trait BitAlloc promises: a set of free numbers below Cap from  *)
(* which the lowest is taken, or the lowest aligned run of a given size.   *)
(***************************************************************************)
EXTENDS Integers

CONSTANTS Cap,      \* the numbers are 0 .. Cap - 1
          Sizes,    \* the lengths of the runs callers ask for
          Aligns    \* the alignments they ask for

VARIABLES free,     \* the free numbers
          reply     \* what the last allocation answered, or Nothing

vars == <<free, reply>>

Nothing == -1
Numbers == 0..Cap - 1
IsLowest(k, S) == k \in S /\ \A j \in S : k <= j

\* No alignment above the capacity fits, not even at 0.
Fits(start, size, align) ==
  start % align = 0 /\ start..start + size - 1 \subseteq free /\ align <= Cap

Init == free = {} /\ reply = Nothing

Alloc == \/ free = {} /\ reply' = Nothing /\ UNCHANGED free
         \/ \E k \in free : IsLowest(k, free) /\ free' = free \ {k} /\ reply' = k

Dealloc(k) == k \notin free /\ free' = free \cup {k} /\ UNCHANGED reply

Insert(start, end) == free' = free \cup (start..end - 1) /\ UNCHANGED reply
Remove(start, end) == free' = free \ (start..end - 1) /\ UNCHANGED reply

AllocContiguous(size, align) ==
  \/ /\ \A start \in Numbers : ~ Fits(start, size, align)
     /\ reply' = Nothing /\ UNCHANGED free
  \/ \E start \in Numbers :
       /\ Fits(start, size, align)
       /\ \A lower \in 0..start - 1 : ~ Fits(lower, size, align)
       /\ free' = free \ (start..start + size - 1) /\ reply' = start

Next == \/ Alloc
        \/ \E k \in Numbers : Dealloc(k)
        \/ \E start \in Numbers : \E end \in start + 1..Cap : Insert(start, end) \/ Remove(start, end)
        \/ \E size \in Sizes, align \in Aligns : AllocContiguous(size, align)

Spec == Init /\ [][Next]_vars
=============================================================================
