------------------------------ MODULE PageMap ------------------------------
(***************************************************************************)
(* What an address space promises, page by page: which rights a page has,  *)
(* which page of a file it shows, and what it holds once it was touched.   *)
(* Where one mapping ends and the next begins is not visible here, and     *)
(* neither are frames and page tables.  Areas is shown to implement this.  *)
(***************************************************************************)
EXTENDS Integers

CONSTANTS Spaces,     \* address spaces
          LastPage,   \* pages are 1..LastPage; page 0 is never given out
          Rights,     \* what an access may ask for
          Data, Zero, \* what a page may hold
          FileLen,    \* pages of the file that may be mapped
          Unmapped, NoFile, Untouched

VARIABLES view,       \* view[s][p]: what page p of space s is
          disk        \* disk[o]: page o of the file

vars == <<view, disk>>

Pages == 1..LastPage
Behind == [page : Nat, sync : SUBSET {"r", "w"}]
Page == [flags : SUBSET Rights, back : Behind \cup {NoFile},
         held : Data \cup {Untouched}]

TypeOK ==
  /\ view \in [Spaces -> [Pages -> Page \cup {Unmapped}]]
  /\ disk \in [0..(FileLen - 1) -> Data]

Init ==
  /\ view = [s \in Spaces |-> [p \in Pages |-> Unmapped]]
  /\ disk \in [0..(FileLen - 1) -> Data]

-----------------------------------------------------------------------------

\* The pages of P whose content belongs into page o of the file.
Dirty(s, P, o) ==
  {p \in P : /\ view[s][p] # Unmapped
             /\ view[s][p].held # Untouched
             /\ view[s][p].back # NoFile
             /\ view[s][p].back.page = o
             /\ "w" \in view[s][p].back.sync}

\* Pages are written back from the lowest to the highest: the last one stays.
WrittenBack(s, P) ==
  [o \in DOMAIN disk |->
     IF Dirty(s, P, o) = {} THEN disk[o]
     ELSE view[s][CHOOSE p \in Dirty(s, P, o) :
                    \A q \in Dirty(s, P, o) : q <= p].held]

\* The pages of P in s become what New says, the others stay.
Becomes(s, P, New(_)) ==
  view' = [view EXCEPT ![s] = [p \in Pages |->
             IF p \in P THEN New(p) ELSE view[s][p]]]

\* Pages i..j show new memory, or consecutive pages of the file.
Map(s, i, j) ==
  LET new == view'[s][i]
      Link(p) == IF new.back = NoFile THEN NoFile
                 ELSE [new.back EXCEPT !.page = @ + (p - i)]
  IN /\ new # Unmapped /\ new.held = Untouched
     /\ Becomes(s, i..j, LAMBDA p : [new EXCEPT !.back = Link(p)])
     /\ disk' = WrittenBack(s, i..j)

Unmap(s, i, j) ==
  /\ Becomes(s, i..j, LAMBDA p : Unmapped)
  /\ disk' = WrittenBack(s, i..j)

Protect(s, i, j, flags) ==
  /\ Becomes(s, i..j, LAMBDA p :
       IF view[s][p] = Unmapped THEN Unmapped ELSE [view[s][p] EXCEPT !.flags = flags])
  /\ UNCHANGED disk

\* The first touch shows what the file holds at that time.
Touch(s, p) ==
  /\ view[s][p] # Unmapped
  /\ view[s][p].held = Untouched
  /\ Becomes(s, {p}, LAMBDA q : [view[s][p] EXCEPT !.held =
       IF view[s][p].back # NoFile /\ "r" \in view[s][p].back.sync
         THEN disk[view[s][p].back.page] ELSE Zero])
  /\ UNCHANGED disk

Store(s, p, d) ==
  /\ view[s][p] # Unmapped
  /\ view[s][p].held # Untouched
  /\ "W" \in view[s][p].flags
  /\ Becomes(s, {p}, LAMBDA q : [view[s][p] EXCEPT !.held = d])
  /\ UNCHANGED disk

Sync ==
  /\ UNCHANGED view
  /\ \E s \in Spaces, i, j \in Pages : disk' = WrittenBack(s, i..j)

Fork(s, t) ==
  /\ \A p \in Pages : view[t][p] = Unmapped
  /\ Becomes(t, Pages, LAMBDA p : view[s][p])
  /\ UNCHANGED disk

Next ==
  \/ Sync
  \/ \E s \in Spaces :
    \/ \E p \in Pages :
         \/ Touch(s, p)
         \/ \E d \in Data : Store(s, p, d)
    \/ \E i \in Pages : \E j \in i..LastPage :
         \/ Unmap(s, i, j)
         \/ Map(s, i, j)
         \/ \E flags \in SUBSET Rights : Protect(s, i, j, flags)
    \/ \E t \in Spaces : Fork(s, t)

Spec == Init /\ [][Next]_vars
=============================================================================
