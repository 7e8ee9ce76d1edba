------------------------------- MODULE Areas -------------------------------
(***************************************************************************)
(* The memory of processes: areas (VmArea over PmAreaLazy), the page table *)
(* kept beside them, frames given out at the first touch, and the file     *)
(* behind a mapping.  MemorySet holds the areas in a map ordered by their  *)
(* starts; here they are a set.                                            *)
(*                                                                         *)
(* Addresses count half pages, so that an address can miss a page border.  *)
(***************************************************************************)
EXTENDS Integers, Sequences

CONSTANTS Spaces, Frames, Data, Zero,
          Limit,      \* USER_VIRT_ADDR_LIMIT: odd, as 0xFFFF_FFFF is
          FileLen,    \* pages of the file
          Contents,   \* what the file may hold at first
          Starts,     \* page addresses passed to the calls; 0: anywhere
          MapLens, CutLens, ProtLens, \* lengths given to mmap, munmap, mprotect
          Prots,      \* what mmap and mprotect ask for
          Offsets,    \* offsets of the file given to mmap
          NoFrame, NoEntry, NoFile, Unmapped, Untouched

PageSize == 2
Rights == {"R", "W"}

ASSUME SizesAssumption ==
  /\ Limit \in Nat /\ FileLen \in Nat
  /\ Starts \subseteq Nat /\ \A v \in Starts : v % PageSize = 0
  /\ MapLens \subseteq Nat /\ CutLens \subseteq Nat /\ ProtLens \subseteq Nat
  /\ Prots \subseteq SUBSET Rights
  /\ Offsets \subseteq Nat /\ \A o \in Offsets : o % PageSize = 0
  /\ Contents \subseteq [0..(FileLen - 1) -> Data]
  /\ Zero \in Data

ASSUME NamesAssumption ==
  /\ NoFrame \notin Frames
  /\ NoFile \notin [offset : Nat, sync : SUBSET {"r", "w"}]
  /\ NoFile \notin [page : Nat, sync : SUBSET {"r", "w"}]
  /\ NoEntry \notin [frame : Frames, flags : SUBSET Rights]
  /\ Untouched \notin Data
  /\ Unmapped \notin [flags : SUBSET Rights,
                      back : [page : Nat, sync : SUBSET {"r", "w"}] \cup {NoFile},
                      held : Data \cup {Untouched}]

VARIABLES live,   \* the memory sets that exist
          areas,  \* areas[s]: a set of areas
          pt,     \* pt[s][p]: the entry of page p, if it is valid
          mem,    \* mem[f]: content of a frame
          disk    \* disk[o]: content of page o of the file

vars == <<live, areas, pt, mem, disk>>

-----------------------------------------------------------------------------
\* Addresses and pages

AlignDown(v) == v - (v % PageSize)
AlignUp(v) == AlignDown(v + PageSize - 1)
PageId(v) == v \div PageSize
PageAddr(p) == p * PageSize

Pages == 1..(PageId(Limit) - 1)
NoEntries == [p \in Pages |-> NoEntry]

-----------------------------------------------------------------------------
\* Areas

PagesOf(a) == PageId(a.start)..(PageId(a.end) - 1)
FrameAt(a, p) == a.frames[p - PageId(a.start) + 1]
Touched(a) == {p \in PagesOf(a) : FrameAt(a, p) # NoFrame}
Contains(a, v) == a.start <= v /\ v < a.end
Overlaps(a, start, end) == a.end > AlignDown(start) /\ a.start < AlignUp(end)

\* VmArea::new refuses what is empty or has not one frame for each page.
Fits(a) == a.start < a.end /\ a.end - a.start = Len(a.frames) * PageSize

\* The page of the file behind page p of an area, if the policy allows k.
Linked(a, k) == a.back # NoFile /\ k \in a.back.sync
FilePage(a, p) == PageId(a.back.offset) + p - PageId(a.start)

\* Mutants (the _name operators, here and below, are faulty variants that the
\* properties catch): the offset stays.
Shifted_Stays(back, delta) == back
\* shrink_left and split move the offset with the start.
Shifted(back, delta) ==
  IF back = NoFile THEN NoFile ELSE [back EXCEPT !.offset = @ + delta]

\* A mutant: the frames behind a cut are not drained.
Kept_Rest(a, start, end) ==
  SubSeq(a.frames, PageId(start - a.start) + 1, Len(a.frames))
\* What split and the two shrinks leave of the frames.
Kept(a, start, end) ==
  SubSeq(a.frames, PageId(start - a.start) + 1, PageId(end - a.start))

\* The part [start, end) as an area of its own: PmAreaLazy::split, VmArea::new.
Piece(a, start, end, flags) ==
  [start  |-> AlignDown(start), end |-> AlignUp(end), flags |-> flags,
   frames |-> Kept(a, start, end),
   back   |-> Shifted(a.back, start - a.start)]

AreaOf(s, p) == CHOOSE a \in areas[s] : p \in PagesOf(a)
Resident(s) == UNION {Touched(a) : a \in areas[s]}
FrameOf(s, p) == FrameAt(AreaOf(s, p), p)
Free == Frames \ UNION {{FrameOf(s, p) : p \in Resident(s)} : s \in Spaces}

\* Content of pages P of space s is written into the file, where the policy
\* says so; areas and their pages come in ascending order.
Written(s, P) ==
  LET Sources(o) == {p \in P \cap Resident(s) :
                       LET a == AreaOf(s, p)
                       IN Linked(a, "w") /\ FilePage(a, p) = o}
      Last(o) == CHOOSE p \in Sources(o) : \A q \in Sources(o) : q <= p
  IN [o \in DOMAIN disk |->
        IF Sources(o) = {} THEN disk[o] ELSE mem[FrameOf(s, Last(o))]]

-----------------------------------------------------------------------------
\* munmap, and what a mapping at a fixed place does first

\* The pages a walk over [start, end) in steps of a page comes to.
Walk(start, end) == {p \in Pages : start <= PageAddr(p) /\ PageAddr(p) < end}

Emptied(a, P) ==
  [a EXCEPT !.frames = [i \in DOMAIN @ |->
     IF i + PageId(a.start) - 1 \in P THEN NoFrame ELSE @[i]]]

\* shrink_or_split_if_overlap: only a split aligns the new borders.
AfterCut(a, start, end) ==
  LET b == Emptied(a, Walk(start, end))
      left == Piece(b, a.start, start, a.flags)
      right == Piece(b, end, a.end, a.flags)
  IN IF a.start < start /\ end < a.end THEN {left, right}
     ELSE IF end < a.end THEN {[right EXCEPT !.start = end]}
     ELSE IF a.start < start THEN {left}
     ELSE {}

Cut(s, start, end) ==
  UNION {IF Overlaps(a, start, end) THEN AfterCut(a, start, end) ELSE {a} :
         a \in areas[s]}

\* A mutant: entries of the pages that go stay valid.
CutTable_Left(s, start, end) == pt[s]
\* unmap_area_partial
CutTable(s, start, end) ==
  [p \in Pages |->
     IF p \in Walk(start, end) \cap Resident(s)
       THEN NoEntry ELSE pt[s][p]]

Munmap(s, start, len) ==
  /\ s \in live
  /\ areas' = [areas EXCEPT ![s] = Cut(s, start, start + len)]
  /\ pt' = [pt EXCEPT ![s] = CutTable(s, start, start + len)]
  /\ disk' = Written(s, Walk(start, start + len))
  /\ UNCHANGED <<live, mem>>

-----------------------------------------------------------------------------
\* mmap

\* A mutant: the end is forgotten.
Vacant_AtStart(as, start, end) == \A a \in as : ~Contains(a, start)
\* test_free_area looks at the neighbours only: the areas are disjoint.
Vacant(as, start, end) == \A a \in as : ~Overlaps(a, start, end)

\* find_free_area: the hint, else the first end of an area with room behind,
\* be it below the hint.
Places(as, hint, len) ==
  LET first == IF hint = 0 THEN PageSize ELSE AlignUp(hint)
      ends == {e \in {a.end : a \in as} : Vacant(as, e, e + len)}
  IN IF Vacant(as, first, first + len) THEN {first}
     ELSE {e \in ends : \A d \in ends : e <= d}

\* The policy comes from the rights asked for at the start and stays.
Policy(prot) ==
  IF prot = {"R", "W"} THEN {"r", "w"} ELSE IF "W" \in prot THEN {"w"} ELSE {"r"}

Backing(prot, file) ==
  IF file = NoFile THEN NoFile ELSE [offset |-> file, sync |-> Policy(prot)]

NewArea(start, end, prot, file) ==
  [start |-> start, end |-> end, flags |-> prot,
   frames |-> [i \in 1..PageId(end - start) |-> NoFrame],
   back |-> Backing(prot, file)]

\* Only pages the file has are mapped.
InFile(file, len) == file # NoFile => PageId(file + len) <= FileLen

\* push: map_area refuses a page that is still valid in the table, and
\* PmAreaLazy::new a length of 0.
Pushed(as, table, start, len, prot, file) ==
  IF len = 0 \/ \E p \in Walk(start, start + len) : table[p] # NoEntry THEN as
  ELSE as \cup {NewArea(start, start + len, prot, file)}

MmapAnywhere(s, hint, len, prot, file) ==
  /\ s \in live
  /\ InFile(file, len)
  /\ \E start \in Places(areas[s], hint, len) :
       /\ start + len < Limit
       /\ areas' = [areas EXCEPT ![s] = Pushed(@, pt[s], start, len, prot, file)]
  /\ UNCHANGED <<live, pt, mem, disk>>

\* MAP_FIXED: what is there is cut away first, and gone if the push fails.
MmapFixed(s, start, len, prot, file) ==
  LET table == CutTable(s, start, start + len)
  IN /\ s \in live
     /\ start > 0 /\ start + len < Limit /\ InFile(file, len)
     /\ areas' = [areas EXCEPT ![s] =
          Pushed(Cut(s, start, start + len), table, start, len, prot, file)]
     /\ pt' = [pt EXCEPT ![s] = table]
     /\ disk' = Written(s, Walk(start, start + len))
     /\ UNCHANGED <<live, mem>>

\* sys_mmap moves both ends to page borders.
Mmap(s, start, len, prot, fixed, file) ==
  LET from == AlignDown(start)
      size == AlignUp(start + len) - from
  IN IF fixed THEN MmapFixed(s, from, size, prot, file)
     ELSE MmapAnywhere(s, from, size, prot, file)

-----------------------------------------------------------------------------
\* mprotect

\* split_and_modify_if_overlap
Parts(a, start, end, prot) ==
  LET from == IF a.start < start THEN start ELSE a.start
      to == IF end < a.end THEN end ELSE a.end
  IN {Piece(a, from, to, prot)}
     \cup (IF a.start < from THEN {Piece(a, a.start, from, a.flags)} ELSE {})
     \cup (IF to < a.end THEN {Piece(a, to, a.end, a.flags)} ELSE {})

Fails(a, start, end, prot) == \E b \in Parts(a, start, end, prot) : ~Fits(b)

\* The areas that meet the range are taken out first; at an error the one at
\* hand and those after it are dropped, and the table stays as it is.
Mprotect(s, start, len, prot) ==
  LET end == start + len
      hit == {a \in areas[s] : Overlaps(a, start, end)}
      lost == {a \in hit : \E b \in hit :
                 b.start <= a.start /\ Fails(b, start, end, prot)}
  IN /\ s \in live
     /\ areas' = [areas EXCEPT ![s] =
          (@ \ hit) \cup UNION {Parts(a, start, end, prot) : a \in hit \ lost}]
     /\ pt' = [pt EXCEPT ![s] = [p \in Pages |->
          IF p \in Walk(start, end) /\ \E a \in hit \ lost : p \in Touched(a)
            THEN [@[p] EXCEPT !.flags = prot] ELSE @[p]]]
     /\ UNCHANGED <<live, mem, disk>>

-----------------------------------------------------------------------------
\* Accesses and faults

\* What the core lets through.  An entry to write but not to read is reserved.
Permits(e, k) == e # NoEntry /\ k \in e.flags /\ "R" \in e.flags

Store(s, p, d) ==
  /\ s \in live
  /\ Permits(pt[s][p], "W")
  /\ mem' = [mem EXCEPT ![pt[s][p].frame] = d]
  /\ UNCHANGED <<live, areas, pt, disk>>

\* get_frame(idx, true) and set_all: a frame for a page that has none.
Bring(s, a, p) ==
  /\ FrameAt(a, p) = NoFrame
  /\ pt[s][p] = NoEntry
  /\ \E f \in Free :
       /\ areas' = [areas EXCEPT ![s] = (@ \ {a}) \cup
            {[a EXCEPT !.frames[p - PageId(a.start) + 1] = f]}]
       /\ mem' = [mem EXCEPT ![f] =
            IF Linked(a, "r") THEN disk[FilePage(a, p)] ELSE Zero]
       /\ pt' = [pt EXCEPT ![s][p] = [frame |-> f, flags |-> a.flags]]
  /\ UNCHANGED <<live, disk>>

\* An access of kind k that the core refuses and the handler makes good.
\* Otherwise the task is sent SIGSEGV, and nothing changes here.
PageFault(s, p, k) ==
  /\ s \in live
  /\ ~Permits(pt[s][p], k)
  /\ \E a \in areas[s] : Contains(a, PageAddr(p)) /\ k \in a.flags /\ Bring(s, a, p)

\* The kernel makes sure of what a call points to, whatever its rights.
ManuallyAllocPage(s, p) ==
  /\ s \in live
  /\ \E a \in areas[s] : Contains(a, PageAddr(p)) /\ Bring(s, a, p)

-----------------------------------------------------------------------------
\* msync, fork and exit

\* The kernel panics at a page of a file that was not touched yet.
Msync(s, start, len) ==
  LET end == start + len
      meant == Walk(start, end)
  IN /\ s \in live
     /\ len % PageSize = 0
     /\ \A a \in areas[s] : a.back # NoFile => PagesOf(a) \cap meant \subseteq Touched(a)
     /\ disk' = Written(s, meant)
     /\ UNCHANGED <<live, areas, pt, mem>>

\* copy_as_fork: a new frame for each one in use, or else the kernel panics.
Fork(s, t) ==
  /\ s \in live /\ t \notin live
  /\ live' = live \cup {t}
  /\ LET mine == {FrameOf(s, p) : p \in Resident(s)}
     IN \E copy \in {c \in [mine -> Free] : \A f, g \in mine : c[f] = c[g] => f = g} :
          LET Copied(f) == IF f = NoFrame THEN NoFrame ELSE copy[f]
          IN /\ areas' = [areas EXCEPT ![t] =
                  {[a EXCEPT !.frames = [i \in DOMAIN @ |-> Copied(@[i])]] : a \in areas[s]}]
             /\ pt' = [pt EXCEPT ![t] = [p \in Pages |->
                  IF p \in Resident(s)
                    THEN [frame |-> copy[FrameOf(s, p)], flags |-> AreaOf(s, p).flags]
                    ELSE NoEntry]]
             /\ mem' = [f \in Frames |->
                  IF \E g \in mine : copy[g] = f
                    THEN mem[CHOOSE g \in mine : copy[g] = f] ELSE mem[f]]
  /\ UNCHANGED disk

\* The last reference to a memory set is dropped: clear_user.
Exit(s) ==
  /\ s \in live
  /\ live' = live \ {s}
  /\ areas' = [areas EXCEPT ![s] = {}]
  /\ pt' = [pt EXCEPT ![s] = CutTable(s, 0, Limit)]
  /\ disk' = Written(s, Pages)
  /\ UNCHANGED mem

-----------------------------------------------------------------------------

Init ==
  /\ \E s \in Spaces : live = {s}
  /\ areas = [s \in Spaces |-> {}]
  /\ pt = [s \in Spaces |-> NoEntries]
  /\ mem = [f \in Frames |-> Zero]
  /\ disk \in Contents

Next ==
  \E s \in Spaces :
    \/ \E start \in Starts :
         \/ \E len \in CutLens : Munmap(s, start, len)
         \/ \E len \in ProtLens, prot \in Prots : Mprotect(s, start, len, prot)
         \/ \E len \in CutLens : Msync(s, start, len)
         \/ \E len \in MapLens, prot \in Prots, fixed \in BOOLEAN,
               file \in Offsets \cup {NoFile} :
              Mmap(s, start, len, prot, fixed, file)
    \/ \E p \in Pages :
         \/ \E d \in Data : Store(s, p, d)
         \/ \E k \in Rights : PageFault(s, p, k)
         \/ ManuallyAllocPage(s, p)
    \/ \E t \in Spaces : Fork(s, t)
    \/ Exit(s)

Spec == Init /\ [][Next]_vars

\* What munmap and mprotect expect of their callers, and do not ask for
\* (areas/mod.rs:120): whole pages, and for mprotect at least one.
WholePages ==
  /\ \A len \in CutLens : len % PageSize = 0
  /\ \A len \in ProtLens : len % PageSize = 0 /\ len > 0

-----------------------------------------------------------------------------
\* Properties

Area ==
  [start : Nat, end : Nat, flags : SUBSET Rights,
   frames : Seq(Frames \cup {NoFrame}),
   back : [offset : Nat, sync : SUBSET {"r", "w"}] \cup {NoFile}]
Entry == [frame : Frames, flags : SUBSET Rights]

\* The variables have their types.
TypeOK ==
  /\ live \subseteq Spaces
  /\ areas \in [Spaces -> SUBSET Area]
  /\ pt \in [Spaces -> [Pages -> Entry \cup {NoEntry}]]
  /\ mem \in [Frames -> Data]
  /\ disk \in [0..(FileLen - 1) -> Data]

\* Areas begin and end on page borders and have a frame slot for each page
\* (areas/mod.rs:57-60 and 83), whatever was cut off them.
AreasWhole ==
  \A s \in Spaces : \A a \in areas[s] :
    /\ a.start % PageSize = 0 /\ a.end % PageSize = 0
    /\ 0 < a.start /\ a.end < Limit
    /\ Fits(a)
    /\ a.back # NoFile => a.back.offset % PageSize = 0

\* No page is in two areas of a space, and no frame is behind two pages: not in
\* one space, and not in two after a fork.
OneOwner ==
  \A s, t \in Spaces : \A a \in areas[s], b \in areas[t] :
    /\ s = t /\ a # b => PagesOf(a) \cap PagesOf(b) = {}
    /\ \A p \in Touched(a), q \in Touched(b) :
         FrameAt(a, p) = FrameAt(b, q) => s = t /\ a = b /\ p = q

\* The page table has exactly what the areas say: the frame and the rights of
\* each touched page, and no page that is not in an area any more.
TablesAgree ==
  \A s \in Spaces, p \in Pages :
    pt[s][p] = IF p \in Resident(s)
                 THEN [frame |-> FrameOf(s, p), flags |-> AreaOf(s, p).flags]
                 ELSE NoEntry

\* Page by page, the areas are a PageMap: cutting, splitting and forking them
\* moves neither rights nor contents nor offsets to another page.
PageView(s, p) ==
  LET here == {a \in areas[s] : p \in PagesOf(a)}
  IN IF here = {} THEN Unmapped
     ELSE LET a == CHOOSE a \in here : TRUE
          IN [flags |-> a.flags,
              back |-> IF a.back = NoFile THEN NoFile
                       ELSE [page |-> FilePage(a, p), sync |-> a.back.sync],
              held |-> IF FrameAt(a, p) = NoFrame THEN Untouched
                       ELSE mem[FrameAt(a, p)]]

Map == INSTANCE PageMap WITH
  LastPage <- PageId(Limit) - 1,
  view <- [s \in Spaces |-> [p \in Pages |-> PageView(s, p)]]

IsPageMap == Map!Spec

\* A fault at a page that is valid in the table comes only from an access the
\* area forbids: error.rs:30-33 says no user program is known to cause another.
NeverTrapsAtValid ==
  \A s \in live, p \in Pages, k \in Rights : \A a \in areas[s] :
    Contains(a, PageAddr(p)) /\ k \in a.flags /\ pt[s][p] # NoEntry
      => Permits(pt[s][p], k)
=============================================================================
