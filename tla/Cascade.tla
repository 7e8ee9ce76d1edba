------------------------------- MODULE Cascade -------------------------------
(***************************************************************************)
(* One level of the bitmap that hands out page frames, tids and file       *)
(* descriptors (dependencies/bitmap-allocator): Width allocators of SubCap *)
(* numbers each, and a summary with a bit for every one of them that has   *)
(* something free.  A sub-allocator is the set of its free numbers: so is  *)
(* a leaf's word of bits, and so, by what is shown here, is a lower level. *)
(*                                                                         *)
(* A call runs with the allocator's mutex held.  Each is one step, but the *)
(* search for a contiguous run has a step for each turn of its loop.       *)
(***************************************************************************)
EXTENDS Integers

CONSTANTS
  Width,   \* sub-allocators: 16 in the code
  SubCap,  \* T::CAP
  Sizes,   \* the lengths callers ask for
  Aligns   \* 1 << align_log2 of the alignments they ask for

ASSUME WidthAssumption  == Width \in Nat \ {0}
ASSUME SubCapAssumption == SubCap \in Nat \ {0}
ASSUME SizesAssumption  == Sizes \subseteq Nat \ {0}
ASSUME AlignsAssumption == Aligns \subseteq Nat \ {0}

VARIABLES
  bitset,  \* the summary: the sub-allocators whose bit is 1
  sub,     \* the free numbers of each sub-allocator
  pc,      \* "ready", or "search" in the loop of find_contiguous
  want,    \* the size and alignment it searches for
  base,    \* its two local variables
  offset,
  reply    \* what the last allocation answered, or Nothing

search == <<pc, want, base, offset>>
vars == <<bitset, sub, search, reply>>

Cap == Width * SubCap
Numbers == 0..Cap - 1
Subs == 0..Width - 1
Bits == 0..SubCap - 1
Nothing == -1
NoWant == [size |-> 1, align |-> 1]

IsLowest(k, S) == k \in S /\ \A j \in S : k <= j
Home(k) == k \div SubCap
Place(k) == k % SubCap
Number(i, b) == b + i * SubCap

\* BitAlloc::test
Test(k) == Place(k) \in sub[Home(k)]
Free == {k \in Numbers : Test(k)}
-----------------------------------------------------------------------------
Init ==
  /\ bitset = {}
  /\ sub = [i \in Subs |-> {}]
  /\ pc = "ready" /\ want = NoWant /\ base = 0 /\ offset = 0
  /\ reply = Nothing

\* bitset.set_bit(i, ! sub[i].is_empty()); a mutant sets it only.
Marked_SetOnly(i, S) == IF S # {} THEN bitset \cup {i} ELSE bitset
Marked(i, S) == IF S # {} THEN bitset \cup {i} ELSE bitset \ {i}

\* The summary names a sub-allocator, and its alloc is unwrapped.
Alloc ==
  /\ pc = "ready"
  /\ \/ bitset = {} /\ reply' = Nothing /\ UNCHANGED <<bitset, sub>>
     \/ \E i \in bitset : \E b \in sub[i] :
          /\ IsLowest(i, bitset) /\ IsLowest(b, sub[i])
          /\ sub' = [sub EXCEPT ![i] = @ \ {b}]
          /\ bitset' = Marked(i, sub[i] \ {b})
          /\ reply' = Number(i, b)
  /\ UNCHANGED search

\* Callers give back what they were given; a leaf asserts it.
Dealloc(k) ==
  /\ pc = "ready" /\ ~ Test(k)
  /\ sub' = [sub EXCEPT ![Home(k)] = @ \cup {Place(k)}]
  /\ bitset' = bitset \cup {Home(k)}
  /\ UNCHANGED <<search, reply>>

\* for_range of start..end, which must not be empty: the sub-allocators it
\* visits, and the part of the range in each.
Visited(start, end) == Home(start)..Home(end - 1)
PartBegin(i, start) == IF Home(start) = i THEN Place(start) ELSE 0
\* A mutant: one too many.
PartEnd_Over(i, end) == IF Home(end) = i THEN Place(end) ELSE SubCap + 1
PartEnd(i, end) == IF Home(end) = i THEN Place(end) ELSE SubCap
Part(i, start, end) == PartBegin(i, start)..PartEnd(i, end) - 1

Inserted(i, start, end) == sub[i] \cup Part(i, start, end)
Removed(i, start, end) == sub[i] \ Part(i, start, end)
Replace(new, visited) ==
  /\ sub' = [i \in Subs |-> IF i \in visited THEN new[i] ELSE sub[i]]
  /\ bitset' = {i \in Subs : IF i \in visited THEN new[i] # {} ELSE i \in bitset}

InsertRange(start, end) ==
  Replace([i \in Subs |-> Inserted(i, start, end)], Visited(start, end))
RemoveRange(start, end) ==
  Replace([i \in Subs |-> Removed(i, start, end)], Visited(start, end))

Insert(start, end) == pc = "ready" /\ InsertRange(start, end) /\ UNCHANGED <<search, reply>>
Remove(start, end) == pc = "ready" /\ RemoveRange(start, end) /\ UNCHANGED <<search, reply>>
-----------------------------------------------------------------------------
(* next, and find_contiguous of alloc_contiguous.                          *)

\* Where the sub-allocator i starts to look for a number not below key, what
\* it can find, and the sub-allocators that find something.
\* A mutant: the offset within the first one is kept for the others.
StartAt_Kept(i, key) == key - SubCap * Home(key)
StartAt(i, key) == IF i = Home(key) THEN key - SubCap * Home(key) ELSE 0
Found(i, key) == {b \in sub[i] : b >= StartAt(i, key)}
Hits(key) == {i \in bitset : i >= Home(key) /\ Found(i, key) # {}}
IsNext(key, k) ==
  \E i \in Hits(key) : \E b \in Found(i, key) :
    IsLowest(i, Hits(key)) /\ IsLowest(b, Found(i, key)) /\ k = Number(i, b)

\* The next aligned position from k on; a mutant skips one that is aligned.
AlignUp_Skips(k, align) == (k \div align + 1) * align
AlignUp(k, align) == ((k - 1) \div align + 1) * align

AllocContiguous(size, align) ==
  /\ pc = "ready"
  /\ IF Cap < align \/ bitset = {}
     THEN reply' = Nothing /\ UNCHANGED search
     ELSE /\ pc' = "search"
          /\ want' = [size |-> size, align |-> align]
          /\ base' = 0 /\ offset' = 0
          /\ UNCHANGED reply
  /\ UNCHANGED <<bitset, sub>>

\* The answer, and the local variables go out of scope.
Answer(r) == /\ reply' = r
             /\ pc' = "ready" /\ want' = NoWant /\ base' = 0 /\ offset' = 0

\* Nothing is free from here on, or the end is reached.
GiveUp ==
  /\ pc = "search"
  /\ offset >= Cap \/ Hits(offset) = {}
  /\ Answer(Nothing)
  /\ UNCHANGED <<bitset, sub>>

\* offset = base; a mutant forgets it.
Resumed_Stuck(b) == offset
Resumed(b) == b

\* The number at offset is taken: begin again behind the gap.
Skip ==
  /\ pc = "search" /\ offset < Cap
  /\ \E k \in Numbers : /\ IsNext(offset, k) /\ k # offset
                        /\ base' = AlignUp(k, want.align)
  /\ offset' = Resumed(base')
  /\ UNCHANGED <<bitset, sub, pc, want, reply>>

\* It is free, and the run long enough or not yet.
Extend ==
  /\ pc = "search" /\ offset < Cap /\ IsNext(offset, offset)
  /\ IF offset + 1 - base = want.size
     THEN RemoveRange(base, base + want.size) /\ Answer(base)
     ELSE offset' = offset + 1 /\ UNCHANGED <<bitset, sub, pc, want, base, reply>>

Search == GiveUp \/ Skip \/ Extend

Next == \/ Alloc
        \/ \E k \in Numbers : Dealloc(k)
        \/ \E start \in Numbers : \E end \in start + 1..Cap : Insert(start, end) \/ Remove(start, end)
        \/ \E size \in Sizes, align \in Aligns : AllocContiguous(size, align)
        \/ Search

Spec == Init /\ [][Next]_vars
FairSpec == Spec /\ WF_vars(Search)   \* a loop goes on
-----------------------------------------------------------------------------
(* Properties.                                                             *)

TypeOK ==
  /\ bitset \subseteq Subs
  /\ sub \in [Subs -> SUBSET Bits]
  /\ pc \in {"ready", "search"}
  /\ want \in [size : Nat \ {0}, align : Nat \ {0}]
  /\ base \in Nat /\ offset \in Nat
  /\ reply \in Numbers \cup {Nothing}

\* The summary is exact: no sub-allocator is passed over while it has free
\* numbers, and the unwrap of lib.rs:76 never meets an empty one.
SummaryExact == \A i \in Subs : i \in bitset <=> sub[i] # {}

\* What find_contiguous has found out when it tests offset: base is aligned,
\* the numbers from there to offset are free and too few, and no run that is
\* long enough starts below base.
Run(start) == start..start + want.size - 1
SearchExact ==
  pc = "search" =>
    /\ want \in [size : Sizes, align : Aligns]
    /\ base % want.align = 0 /\ want.align <= Cap
    /\ base <= offset /\ offset < base + want.size
    /\ base..offset - 1 \subseteq Free
    /\ \A start \in Numbers : start < base /\ start % want.align = 0 => ~ (Run(start) \subseteq Free)

\* The cascade is a set of numbers that hands out the lowest, or the lowest
\* aligned run, and nothing that is not free.
Abstract == INSTANCE Bitmap WITH free <- Free
IsBitmap == Abstract!Spec

\* find_contiguous comes back.
SearchEnds == pc = "search" ~> pc = "ready"
=============================================================================
