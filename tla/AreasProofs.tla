---------------------------- MODULE AreasProofs ----------------------------
(***************************************************************************)
(* Theorems about Areas, for any number of spaces, frames and pages, any   *)
(* file and any lengths of whole pages: areas stay whole and disjoint, no  *)
(* frame is behind two pages, the page table says what the areas say, and  *)
(* the areas implement PageMap.                                            *)
(***************************************************************************)
EXTENDS Areas, FiniteSetTheorems, TLAPS

\* One area: on page borders, a frame slot for each page, inside the file.
Whole(a) ==
  /\ a \in Area
  /\ a.start % PageSize = 0 /\ a.end % PageSize = 0
  /\ 0 < a.start /\ a.end < Limit
  /\ Fits(a)
  /\ a.back # NoFile =>
       a.back.offset % PageSize = 0 /\ PageId(a.back.offset) + Len(a.frames) <= FileLen

AllWhole == \A s \in Spaces : \A a \in areas[s] : Whole(a)

\* What is left of a space that is gone.
DeadEmpty == \A s \in Spaces : s \notin live => areas[s] = {}

\* b shows of its pages what a shows of them, apart from the rights.
PartOf(b, a) ==
  /\ PagesOf(b) \subseteq PagesOf(a)
  /\ \A p \in PagesOf(b) : FrameAt(b, p) = FrameAt(a, p)
  /\ b.back = NoFile <=> a.back = NoFile
  /\ a.back # NoFile =>
       b.back.sync = a.back.sync /\ \A p \in PagesOf(b) : FilePage(b, p) = FilePage(a, p)

IInv == TypeOK /\ AllWhole /\ OneOwner /\ TablesAgree /\ DeadEmpty
-----------------------------------------------------------------------------
(* Addresses.                                                              *)

\* A page address is found by halving.
LEMMA Halved ==
  ASSUME NEW v \in Nat, v % PageSize = 0
  PROVE  /\ PageId(v) \in Nat /\ v = 2 * PageId(v)
         /\ AlignDown(v) = v /\ AlignUp(v) = v
BY DEF PageSize, PageId, AlignDown, AlignUp

\* Sums and differences of page addresses.
LEMMA Summed ==
  ASSUME NEW u \in Nat, NEW v \in Nat, u % PageSize = 0, v % PageSize = 0
  PROVE  /\ (u + v) % PageSize = 0 /\ PageId(u + v) = PageId(u) + PageId(v)
         /\ v <= u => u - v \in Nat /\ (u - v) % PageSize = 0
                      /\ PageId(u - v) = PageId(u) - PageId(v)
BY DEF PageSize, PageId

\* Aligning gives a page address.
LEMMA Aligned ==
  ASSUME NEW v \in Nat
  PROVE  /\ AlignDown(v) \in Nat /\ AlignDown(v) % PageSize = 0 /\ AlignDown(v) <= v
         /\ AlignUp(v) \in Nat /\ AlignUp(v) % PageSize = 0 /\ v <= AlignUp(v)
BY DEF PageSize, AlignDown, AlignUp

\* The address of a page, and the page of an address.
LEMMA Addressed ==
  ASSUME NEW p \in Nat
  PROVE  PageAddr(p) \in Nat /\ PageAddr(p) = 2 * p
BY DEF PageAddr, PageSize

\* An area as a range of pages.
LEMMA Extent ==
  ASSUME NEW a, Whole(a)
  PROVE  /\ a.start \in Nat /\ a.end \in Nat
         /\ PageId(a.start) \in Nat /\ PageId(a.end) \in Nat
         /\ a.start = 2 * PageId(a.start) /\ a.end = 2 * PageId(a.end)
         /\ 0 < PageId(a.start) /\ PageId(a.start) < PageId(a.end)
         /\ a.frames \in Seq(Frames \cup {NoFrame})
         /\ Len(a.frames) = PageId(a.end) - PageId(a.start)
         /\ PagesOf(a) \subseteq Pages
<1>1. a.start \in Nat /\ a.end \in Nat /\ a.frames \in Seq(Frames \cup {NoFrame})
  BY DEF Whole, Area
<1>2. /\ PageId(a.start) \in Nat /\ PageId(a.end) \in Nat
      /\ a.start = 2 * PageId(a.start) /\ a.end = 2 * PageId(a.end)
  BY <1>1, Halved DEF Whole
<1>3. a.start < a.end /\ a.end - a.start = Len(a.frames) * 2 /\ 0 < a.start /\ a.end < Limit
  BY DEF Whole, Fits, PageSize
<1>4. Len(a.frames) \in Nat
  BY <1>1
<1>5. PageId(Limit) \in Nat /\ PageId(a.end) <= PageId(Limit)
  BY <1>1, <1>3, SizesAssumption DEF PageId, PageSize
<1>6. PagesOf(a) \subseteq Pages
  BY <1>2, <1>3, <1>5 DEF PagesOf, Pages
<1> QED BY <1>1, <1>2, <1>3, <1>4, <1>6

\* Each page of an area has a slot.
LEMMA Slot ==
  ASSUME NEW a, Whole(a), NEW p \in PagesOf(a)
  PROVE  /\ p \in Pages /\ p \in Nat
         /\ p - PageId(a.start) + 1 \in 1..Len(a.frames)
         /\ FrameAt(a, p) \in Frames \cup {NoFrame}
<1>1. /\ PageId(a.start) \in Nat /\ PageId(a.end) \in Nat
      /\ Len(a.frames) = PageId(a.end) - PageId(a.start)
      /\ PagesOf(a) \subseteq Pages /\ a.frames \in Seq(Frames \cup {NoFrame})
  BY Extent
<1>2. p \in PageId(a.start)..(PageId(a.end) - 1)
  BY DEF PagesOf
<1>3. p - PageId(a.start) + 1 \in 1..Len(a.frames)
  BY <1>1, <1>2
<1>4. FrameAt(a, p) \in Frames \cup {NoFrame}
  BY <1>1, <1>3 DEF FrameAt
<1> QED BY <1>1, <1>2, <1>3, <1>4

\* What an area shows of its file is in the file.
LEMMA Shows ==
  ASSUME NEW a, Whole(a), NEW p \in PagesOf(a), a.back # NoFile
  PROVE  /\ a.back \in [offset : Nat, sync : SUBSET {"r", "w"}]
         /\ FilePage(a, p) \in Nat /\ FilePage(a, p) \in 0..(FileLen - 1)
<1>1. a.back \in [offset : Nat, sync : SUBSET {"r", "w"}]
  BY DEF Whole, Area
<1>2. PageId(a.back.offset) \in Nat
  BY <1>1, Halved DEF Whole
<1>3. p \in Nat /\ PageId(a.start) \in Nat /\ p - PageId(a.start) + 1 \in 1..Len(a.frames)
  BY Slot, Extent
<1>4. PageId(a.back.offset) + Len(a.frames) <= FileLen /\ FileLen \in Nat
  BY SizesAssumption DEF Whole
<1>5. Len(a.frames) \in Nat
  BY Extent
<1> DEFINE o == PageId(a.back.offset)  i == PageId(a.start)  n == Len(a.frames)
<1>6. FilePage(a, p) = o + p - i
  BY DEF FilePage
<1> HIDE DEF o, i, n
<1>7. /\ o \in Nat /\ p \in Nat /\ i \in Nat /\ n \in Nat /\ FileLen \in Nat
      /\ p - i + 1 >= 1 /\ p - i + 1 <= n /\ o + n <= FileLen
  BY <1>2, <1>3, <1>4, <1>5 DEF o, i, n
<1>8. o + p - i \in Nat /\ o + p - i \in 0..(FileLen - 1)
  BY ONLY <1>7
<1> QED BY <1>1, <1>6, <1>8
-----------------------------------------------------------------------------
(* Parts of areas.                                                         *)

\* A part that begins and ends on page borders shows what the whole showed.
LEMMA PieceShows ==
  ASSUME NEW a, Whole(a), NEW from \in Nat, NEW to \in Nat, NEW flags \in SUBSET Rights,
         from % PageSize = 0, to % PageSize = 0,
         a.start <= from, from < to, to <= a.end
  PROVE  LET b == Piece(a, from, to, flags)
         IN /\ Whole(b) /\ b.start = from /\ b.end = to /\ b.flags = flags
            /\ PagesOf(b) = PageId(from)..(PageId(to) - 1)
            /\ PartOf(b, a)
<1> DEFINE b == Piece(a, from, to, flags)
           f == PageId(from)  t == PageId(to)  s == PageId(a.start)  e == PageId(a.end)
<1>1. /\ a.start \in Nat /\ a.end \in Nat /\ s \in Nat /\ e \in Nat
      /\ a.start = 2 * s /\ a.end = 2 * e
      /\ a.frames \in Seq(Frames \cup {NoFrame}) /\ Len(a.frames) = e - s
  BY Extent
<1>2. /\ f \in Nat /\ t \in Nat /\ from = 2 * f /\ to = 2 * t
      /\ AlignDown(from) = from /\ AlignUp(to) = to
  BY Halved
<1>3. s <= f /\ f < t /\ t <= e
  <2> HIDE DEF b, f, t, s, e
  <2>1. /\ f \in Int /\ t \in Int /\ s \in Int /\ e \in Int
        /\ 2 * s <= 2 * f /\ 2 * f < 2 * t /\ 2 * t <= 2 * e
    BY <1>1, <1>2
  <2> QED BY ONLY <2>1
<1>4. /\ from - a.start \in Nat /\ (from - a.start) % PageSize = 0
      /\ PageId(from - a.start) = f - s /\ PageId(to - a.start) = t - s
  <2>1. a.start % PageSize = 0 /\ a.start <= from /\ a.start <= to
    BY <1>1, <1>2, <1>3 DEF Whole
  <2> QED BY <1>1, <2>1, Summed
<1>5. b.start = from /\ b.end = to /\ b.flags = flags
      /\ b.frames = SubSeq(a.frames, f - s + 1, t - s)
      /\ b.back = Shifted(a.back, from - a.start)
  BY <1>2, <1>4 DEF Piece, Kept
<1> HIDE DEF b, f, t, s, e
<1>6. /\ b.frames \in Seq(Frames \cup {NoFrame}) /\ Len(b.frames) = t - f
      /\ \A i \in 1..(t - f) : b.frames[i] = a.frames[f - s + i]
  <2>1. f - s + 1 \in 1..(e - s) /\ t - s \in 1..(e - s) /\ f - s + 1 <= t - s
    BY <1>1, <1>2, <1>3
  <2>2. SubSeq(a.frames, f - s + 1, t - s) \in Seq(Frames \cup {NoFrame})
    BY <1>1, <2>1
  <2>3. Len(SubSeq(a.frames, f - s + 1, t - s)) = t - f
    BY <1>1, <1>2, <1>3, <2>1
  <2>4. \A i \in 1..(t - f) : SubSeq(a.frames, f - s + 1, t - s)[i] = a.frames[f - s + i]
    BY <1>1, <1>2, <1>3, <2>1
  <2> QED BY <1>5, <2>2, <2>3, <2>4
<1>7. PagesOf(b) = f..(t - 1) /\ PagesOf(a) = s..(e - 1) /\ PagesOf(b) \subseteq PagesOf(a)
  <2>1. PagesOf(b) = f..(t - 1) /\ PagesOf(a) = s..(e - 1)
    BY <1>5 DEF PagesOf, f, t, s, e
  <2> QED BY <2>1, <1>1, <1>2, <1>3 DEF PageSize
<1>8. \A p \in PagesOf(b) : FrameAt(b, p) = FrameAt(a, p)
  <2> TAKE p \in PagesOf(b)
  <2>1. p \in Nat /\ p - f + 1 \in 1..(t - f)
    BY <1>7, <1>2, <1>3
  <2>2. f - s + (p - f + 1) = p - s + 1
    BY <2>1, <1>1, <1>2
  <2> QED BY <2>1, <2>2, <1>5, <1>6 DEF FrameAt, f, s
<1>9. a.back # NoFile =>
        /\ b.back = [offset |-> a.back.offset + (from - a.start), sync |-> a.back.sync]
        /\ a.back \in [offset : Nat, sync : SUBSET {"r", "w"}]
  BY <1>5 DEF Shifted, Whole, Area
<1>10. a.back = NoFile => b.back = NoFile
  BY <1>5 DEF Shifted
<1>11. a.back # NoFile =>
         /\ b.back \in [offset : Nat, sync : SUBSET {"r", "w"}]
         /\ b.back.offset % PageSize = 0
         /\ PageId(a.back.offset) \in Nat
         /\ PageId(b.back.offset) = PageId(a.back.offset) + (f - s)
  <2> SUFFICES ASSUME a.back # NoFile
               PROVE  /\ b.back \in [offset : Nat, sync : SUBSET {"r", "w"}]
                      /\ b.back.offset % PageSize = 0
                      /\ PageId(a.back.offset) \in Nat
                      /\ PageId(b.back.offset) = PageId(a.back.offset) + (f - s)
    OBVIOUS
  <2> DEFINE o == a.back.offset  d == from - a.start
  <2>1. o \in Nat /\ o % PageSize = 0 /\ a.back.sync \in SUBSET {"r", "w"}
    BY <1>9 DEF Whole
  <2>2. d \in Nat /\ d % PageSize = 0 /\ PageId(d) = f - s
    BY <1>4
  <2>3. b.back = [offset |-> o + d, sync |-> a.back.sync]
    BY <1>9
  <2> HIDE DEF o, d
  <2>4. (o + d) % PageSize = 0 /\ PageId(o + d) = PageId(o) + PageId(d) /\ PageId(o) \in Nat
    BY <2>1, <2>2, Summed, Halved
  <2> QED BY <2>1, <2>2, <2>3, <2>4 DEF o
<1>12. b.back = NoFile <=> a.back = NoFile
  BY <1>10, <1>11, NamesAssumption
<1>13. b.back \in [offset : Nat, sync : SUBSET {"r", "w"}] \cup {NoFile}
  BY <1>10, <1>11
<1>14. b = [start |-> b.start, end |-> b.end, flags |-> b.flags,
            frames |-> b.frames, back |-> b.back]
  BY DEF b, Piece
<1>15. b \in Area
  BY <1>14, <1>13, <1>6, <1>5 DEF Area
<1>16. Fits(b)
  BY <1>5, <1>6, <1>2, <1>3 DEF Fits, PageSize
<1>17. a.back # NoFile => PageId(b.back.offset) + Len(b.frames) <= FileLen
  <2>1. a.back # NoFile => PageId(a.back.offset) + (e - s) <= FileLen
    BY <1>1 DEF Whole
  <2> QED BY <2>1, <1>11, <1>6, <1>1, <1>2, <1>3, SizesAssumption
<1>18. Whole(b)
  <2>1. 0 < b.start /\ b.end < Limit /\ b.start % PageSize = 0 /\ b.end % PageSize = 0
    BY <1>5, <1>1, SizesAssumption DEF Whole
  <2> QED BY <2>1, <1>15, <1>16, <1>11, <1>12, <1>17 DEF Whole
<1>19. \A p \in PagesOf(b) : a.back # NoFile => FilePage(b, p) = FilePage(a, p)
  <2> SUFFICES ASSUME NEW p \in PagesOf(b), a.back # NoFile
               PROVE  FilePage(b, p) = FilePage(a, p)
    OBVIOUS
  <2>1. p \in Nat
    BY <1>7, <1>2
  <2>2. FilePage(b, p) = PageId(b.back.offset) + p - f
    BY <1>5 DEF FilePage, f
  <2>3. FilePage(a, p) = PageId(a.back.offset) + p - s
    BY DEF FilePage, s
  <2> QED BY <2>1, <2>2, <2>3, <1>1, <1>2, <1>11
<1>20. a.back # NoFile => b.back.sync = a.back.sync
  BY <1>9
<1>21. PartOf(b, a)
  BY <1>7, <1>8, <1>12, <1>19, <1>20 DEF PartOf
<1> QED BY <1>5, <1>7, <1>18, <1>21 DEF b, f, t

\* A part of a part is a part.
LEMMA PartOfPart ==
  ASSUME NEW a, NEW b, NEW c, PartOf(b, a), PartOf(c, b)
  PROVE  PartOf(c, a)
BY DEF PartOf

\* The pages a walk between page borders comes to.
LEMMA Walked ==
  ASSUME NEW start \in Nat, NEW end \in Nat, start % PageSize = 0, end % PageSize = 0
  PROVE  Walk(start, end) = {p \in Pages : PageId(start) <= p /\ p < PageId(end)}
<1>1. /\ PageId(start) \in Nat /\ start = 2 * PageId(start)
      /\ PageId(end) \in Nat /\ end = 2 * PageId(end)
  BY Halved
<1>2. \A p \in Pages : p \in Nat /\ PageAddr(p) = 2 * p
  BY Addressed DEF Pages
<1> DEFINE i == PageId(start)  j == PageId(end)
<1> HIDE DEF i, j
<1>3. \A p \in Pages : (start <= PageAddr(p) <=> i <= p) /\ (PageAddr(p) < end <=> p < j)
  <2> TAKE p \in Pages
  <2>1. p \in Nat /\ i \in Nat /\ j \in Nat /\ start = 2 * i /\ end = 2 * j
        /\ PageAddr(p) = 2 * p
    BY <1>1, <1>2 DEF i, j
  <2> QED BY ONLY <2>1
<1> QED BY <1>3 DEF Walk, i, j

\* Taking frames out of an area leaves the rest of it.
LEMMA EmptiedShows ==
  ASSUME NEW a, Whole(a), NEW P
  PROVE  LET b == Emptied(a, P)
         IN /\ Whole(b) /\ b.start = a.start /\ b.end = a.end /\ b.flags = a.flags
            /\ b.back = a.back /\ PagesOf(b) = PagesOf(a)
            /\ \A p \in PagesOf(a) :
                 FrameAt(b, p) = IF p \in P THEN NoFrame ELSE FrameAt(a, p)
            /\ \A p \in PagesOf(a) : FilePage(b, p) = FilePage(a, p)
<1> DEFINE b == Emptied(a, P)  n == Len(a.frames)  s == PageId(a.start)
<1>1. a \in Area /\ n \in Nat /\ DOMAIN a.frames = 1..n /\ s \in Nat
      /\ a.frames \in Seq(Frames \cup {NoFrame})
  BY Extent DEF Whole
<1>2. b = [a EXCEPT !.frames = [i \in 1..n |->
             IF i + s - 1 \in P THEN NoFrame ELSE a.frames[i]]]
  BY <1>1 DEF Emptied
<1> HIDE DEF b, n, s
<1>3. /\ b.start = a.start /\ b.end = a.end /\ b.flags = a.flags /\ b.back = a.back
      /\ b.frames = [i \in 1..n |-> IF i + s - 1 \in P THEN NoFrame ELSE a.frames[i]]
  BY <1>1, <1>2 DEF Area
<1>4. \A i \in 1..n : a.frames[i] \in Frames \cup {NoFrame}
  BY <1>1 DEF n
<1>5. b.frames \in Seq(Frames \cup {NoFrame}) /\ Len(b.frames) = n
  BY <1>1, <1>3, <1>4
<1>6. b \in Area
  BY <1>1, <1>2, <1>5, <1>3 DEF Area
<1>7. Whole(b)
  BY <1>3, <1>5, <1>6 DEF Whole, Fits, n
<1>8. PagesOf(b) = PagesOf(a)
  BY <1>3 DEF PagesOf
<1>9. \A p \in PagesOf(a) :
        FrameAt(b, p) = IF p \in P THEN NoFrame ELSE FrameAt(a, p)
  <2> TAKE p \in PagesOf(a)
  <2>1. p \in Nat /\ p - s + 1 \in 1..n /\ (p - s + 1) + s - 1 = p
    BY Slot, <1>1 DEF n, s
  <2>2. FrameAt(b, p) = b.frames[p - s + 1] /\ FrameAt(a, p) = a.frames[p - s + 1]
    BY <1>3 DEF FrameAt, s
  <2> QED BY <2>1, <2>2, <1>3
<1>10. \A p \in PagesOf(a) : FilePage(b, p) = FilePage(a, p)
  BY <1>3 DEF FilePage
<1> QED BY <1>3, <1>7, <1>8, <1>9, <1>10 DEF b

\* Sets of areas without a common page.
Disjoint(A) == \A a, b \in A : a # b => PagesOf(a) \cap PagesOf(b) = {}

\* A range of addresses meets an area, in pages.
LEMMA Meets ==
  ASSUME NEW a, Whole(a), NEW start \in Nat, NEW end \in Nat,
         start % PageSize = 0, end % PageSize = 0
  PROVE  Overlaps(a, start, end) <=>
           PageId(start) < PageId(a.end) /\ PageId(a.start) < PageId(end)
<1> DEFINE i == PageId(start)  j == PageId(end)  s == PageId(a.start)  e == PageId(a.end)
<1>1. /\ a.start = 2 * s /\ a.end = 2 * e /\ s \in Nat /\ e \in Nat
      /\ start = 2 * i /\ end = 2 * j /\ i \in Nat /\ j \in Nat
      /\ AlignDown(start) = start /\ AlignUp(end) = end
  BY Extent, Halved
<1> HIDE DEF i, j, s, e
<1>2. Overlaps(a, start, end) <=> 2 * e > 2 * i /\ 2 * s < 2 * j
  BY <1>1 DEF Overlaps
<1> QED BY <1>1, <1>2 DEF i, j, s, e

\* What a cut leaves of an area: its pages outside the range, each once and as
\* it was.
LEMMA CutShows ==
  ASSUME NEW a, Whole(a), NEW start \in Nat, NEW end \in Nat,
         start % PageSize = 0, end % PageSize = 0, start <= end,
         Overlaps(a, start, end)
  PROVE  LET rest == AfterCut(a, start, end)
             W == Walk(start, end)
         IN /\ \A b \in rest : /\ Whole(b) /\ PartOf(b, a) /\ b.flags = a.flags
                               /\ PagesOf(b) \cap W = {}
            /\ Disjoint(rest)
            /\ \A p \in PagesOf(a) \ W : \E b \in rest : p \in PagesOf(b)
<1> DEFINE W == Walk(start, end)
           b == Emptied(a, W)
           left == Piece(b, a.start, start, a.flags)
           right == Piece(b, end, a.end, a.flags)
           i == PageId(start)  j == PageId(end)  s == PageId(a.start)  e == PageId(a.end)
<1>1. /\ a.start \in Nat /\ a.end \in Nat /\ a.start = 2 * s /\ a.end = 2 * e
      /\ s \in Nat /\ e \in Nat /\ s < e /\ PagesOf(a) \subseteq Pages
      /\ a.start % PageSize = 0 /\ a.end % PageSize = 0 /\ a.flags \in SUBSET Rights
  BY Extent DEF Whole, Area
<1>2. /\ start = 2 * i /\ end = 2 * j /\ i \in Nat /\ j \in Nat
      /\ AlignDown(end) = end
  BY Halved
<1>3. i < e /\ s < j
  BY Meets
<1>4. W = {p \in Pages : i <= p /\ p < j}
  BY Walked
<1>5. /\ Whole(b) /\ b.start = a.start /\ b.end = a.end /\ b.back = a.back
      /\ PagesOf(b) = PagesOf(a)
      /\ \A p \in PagesOf(a) \ W : FrameAt(b, p) = FrameAt(a, p)
      /\ \A p \in PagesOf(a) : FilePage(b, p) = FilePage(a, p)
  BY EmptiedShows
<1>6. PagesOf(a) = s..(e - 1)
  BY DEF PagesOf
<1>7. AfterCut(a, start, end) =
        IF a.start < start /\ end < a.end THEN {left, right}
        ELSE IF end < a.end THEN {[right EXCEPT !.start = end]}
        ELSE IF a.start < start THEN {left}
        ELSE {}
  BY DEF AfterCut
<1>8. [right EXCEPT !.start = end] = right
  BY <1>2 DEF Piece
<1> HIDE DEF W, b, left, right, i, j, s, e
<1>9. (a.start < start <=> s < i) /\ (end < a.end <=> j < e) /\ i <= j
  BY <1>1, <1>2
<1>10. a.start < start =>
         /\ Whole(left) /\ left.flags = a.flags /\ PagesOf(left) = s..(i - 1)
         /\ PartOf(left, b)
  <2> SUFFICES ASSUME a.start < start
               PROVE  /\ Whole(left) /\ left.flags = a.flags /\ PagesOf(left) = s..(i - 1)
                      /\ PartOf(left, b)
    OBVIOUS
  <2>1. start <= a.end
    BY <1>1, <1>2, <1>3
  <2> QED BY <2>1, <1>1, <1>5, PieceShows DEF left, s, i
<1>11. end < a.end =>
         /\ Whole(right) /\ right.flags = a.flags /\ PagesOf(right) = j..(e - 1)
         /\ PartOf(right, b)
  <2> SUFFICES ASSUME end < a.end
               PROVE  /\ Whole(right) /\ right.flags = a.flags
                      /\ PagesOf(right) = j..(e - 1) /\ PartOf(right, b)
    OBVIOUS
  <2>1. a.start <= end
    BY <1>1, <1>2, <1>3
  <2> QED BY <2>1, <1>1, <1>5, PieceShows DEF right, j, e
<1>12. ASSUME NEW c, PartOf(c, b), PagesOf(c) \cap W = {}
       PROVE  PartOf(c, a)
  BY <1>5, <1>12 DEF PartOf
<1>13. a.start < start => PagesOf(left) \cap W = {} /\ PartOf(left, a)
  <2>1. a.start < start => PagesOf(left) \cap W = {}
    BY <1>1, <1>2, <1>4, <1>10
  <2> QED BY <2>1, <1>10, <1>12
<1>14. end < a.end => PagesOf(right) \cap W = {} /\ PartOf(right, a)
  <2>1. end < a.end => PagesOf(right) \cap W = {}
    BY <1>1, <1>2, <1>4, <1>11
  <2> QED BY <2>1, <1>11, <1>12
<1>15. \A c \in AfterCut(a, start, end) :
         /\ Whole(c) /\ PartOf(c, a) /\ c.flags = a.flags /\ PagesOf(c) \cap W = {}
         /\ (c = left /\ a.start < start) \/ (c = right /\ end < a.end)
  <2>1. \A c \in AfterCut(a, start, end) :
          (c = left /\ a.start < start) \/ (c = right /\ end < a.end)
    <3>1. CASE a.start < start /\ end < a.end
      BY <3>1, <1>7
    <3>2. CASE ~ (a.start < start) /\ end < a.end
      BY <3>2, <1>7, <1>8
    <3>3. CASE a.start < start /\ ~ (end < a.end)
      BY <3>3, <1>7
    <3>4. CASE ~ (a.start < start) /\ ~ (end < a.end)
      BY <3>4, <1>7
    <3> QED BY <3>1, <3>2, <3>3, <3>4
  <2> QED BY <2>1, <1>10, <1>11, <1>13, <1>14
<1>16. Disjoint(AfterCut(a, start, end))
  <2>1. a.start < start /\ end < a.end => PagesOf(left) \cap PagesOf(right) = {}
    BY <1>1, <1>2, <1>9, <1>10, <1>11
  <2> QED BY <2>1, <1>15 DEF Disjoint
<1>17. ASSUME NEW p \in PagesOf(a) \ W
       PROVE  \E c \in AfterCut(a, start, end) : p \in PagesOf(c)
  <2>1. p \in Nat /\ s <= p /\ p < e /\ (p < i \/ j <= p)
    BY <1>1, <1>2, <1>4, <1>6
  <2>2. CASE p < i
    <3>1. a.start < start /\ p \in PagesOf(left)
      BY <2>1, <2>2, <1>1, <1>2, <1>9, <1>10
    <3> QED BY <3>1, <1>7
  <2>3. CASE j <= p
    <3>1. end < a.end /\ p \in PagesOf(right)
      BY <2>1, <2>3, <1>1, <1>2, <1>9, <1>11
    <3> QED BY <3>1, <1>7, <1>8
  <2> QED BY <2>1, <2>2, <2>3
<1> QED BY <1>15, <1>16, <1>17 DEF W

\* What mprotect makes of an area: parts with all its pages, each once and
\* apart from the rights as it was.
LEMMA PartsShow ==
  ASSUME NEW a, Whole(a), NEW start \in Nat, NEW end \in Nat, NEW prot \in SUBSET Rights,
         start % PageSize = 0, end % PageSize = 0, start < end,
         Overlaps(a, start, end)
  PROVE  LET parts == Parts(a, start, end, prot)
             W == Walk(start, end)
         IN /\ \A b \in parts :
                 /\ Whole(b) /\ PartOf(b, a)
                 /\ \A p \in PagesOf(b) : b.flags = IF p \in W THEN prot ELSE a.flags
            /\ Disjoint(parts)
            /\ \A p \in PagesOf(a) : \E b \in parts : p \in PagesOf(b)
            /\ ~ Fails(a, start, end, prot)
<1> DEFINE W == Walk(start, end)
           from == IF a.start < start THEN start ELSE a.start
           to == IF end < a.end THEN end ELSE a.end
           mid == Piece(a, from, to, prot)
           left == Piece(a, a.start, from, a.flags)
           right == Piece(a, to, a.end, a.flags)
           i == PageId(start)  j == PageId(end)  s == PageId(a.start)  e == PageId(a.end)
           f == PageId(from)  t == PageId(to)
<1>1. /\ a.start \in Nat /\ a.end \in Nat /\ a.start = 2 * s /\ a.end = 2 * e
      /\ s \in Nat /\ e \in Nat /\ s < e /\ PagesOf(a) \subseteq Pages
      /\ a.start % PageSize = 0 /\ a.end % PageSize = 0 /\ a.flags \in SUBSET Rights
  BY Extent DEF Whole, Area
<1>2. start = 2 * i /\ end = 2 * j /\ i \in Nat /\ j \in Nat
  BY Halved
<1>3. i < e /\ s < j
  BY Meets
<1>4. W = {p \in Pages : i <= p /\ p < j}
  BY Walked
<1>5. PagesOf(a) = s..(e - 1)
  BY DEF PagesOf
<1>6. Parts(a, start, end, prot) =
        {mid} \cup (IF a.start < from THEN {left} ELSE {})
              \cup (IF to < a.end THEN {right} ELSE {})
  BY DEF Parts
<1>7. /\ f = IF a.start < start THEN i ELSE s
      /\ t = IF end < a.end THEN j ELSE e
      /\ from \in Nat /\ to \in Nat /\ from % PageSize = 0 /\ to % PageSize = 0
      /\ from = (IF a.start < start THEN start ELSE a.start)
      /\ to = (IF end < a.end THEN end ELSE a.end)
  BY <1>1
<1> HIDE DEF W, from, to, mid, left, right, i, j, s, e, f, t
<1>8. /\ a.start <= from /\ from < to /\ to <= a.end
      /\ f \in Nat /\ t \in Nat /\ s <= f /\ f < t /\ t <= e
      /\ (a.start < from <=> s < f) /\ (to < a.end <=> t < e)
      /\ i <= f /\ t <= j /\ (s < f => i = f) /\ (t < e => t = j)
  <2>1. /\ s \in Nat /\ e \in Nat /\ i \in Nat /\ j \in Nat
        /\ i < j /\ i < e /\ s < j /\ s < e
        /\ f = (IF s < i THEN i ELSE s) /\ t = (IF j < e THEN j ELSE e)
        /\ from = 2 * f /\ to = 2 * t /\ a.start = 2 * s /\ a.end = 2 * e
    BY <1>1, <1>2, <1>3, <1>7
  <2> QED BY ONLY <2>1
<1>9. Whole(mid) /\ mid.flags = prot /\ PagesOf(mid) = f..(t - 1) /\ PartOf(mid, a)
  BY <1>1, <1>7, <1>8, PieceShows DEF mid, f, t
<1>10. a.start < from => /\ Whole(left) /\ left.flags = a.flags
                         /\ PagesOf(left) = s..(f - 1) /\ PartOf(left, a)
  BY <1>1, <1>7, <1>8, PieceShows DEF left, f, s
<1>11. to < a.end => /\ Whole(right) /\ right.flags = a.flags
                     /\ PagesOf(right) = t..(e - 1) /\ PartOf(right, a)
  BY <1>1, <1>7, <1>8, PieceShows DEF right, e, t
<1>12. \A b \in Parts(a, start, end, prot) :
         b = mid \/ (b = left /\ a.start < from) \/ (b = right /\ to < a.end)
  <2> TAKE b \in Parts(a, start, end, prot)
  <2>1. \/ b = mid
        \/ b \in (IF a.start < from THEN {left} ELSE {})
        \/ b \in (IF to < a.end THEN {right} ELSE {})
    BY <1>6
  <2> QED BY <2>1
<1>13. PagesOf(mid) \subseteq W
  BY <1>1, <1>2, <1>4, <1>5, <1>8, <1>9
<1>14. a.start < from => PagesOf(left) \cap W = {}
  BY <1>1, <1>2, <1>4, <1>8, <1>10
<1>15. to < a.end => PagesOf(right) \cap W = {}
  BY <1>1, <1>2, <1>4, <1>8, <1>11
<1>16. \A b \in Parts(a, start, end, prot) :
         /\ Whole(b) /\ PartOf(b, a)
         /\ \A p \in PagesOf(b) : b.flags = IF p \in W THEN prot ELSE a.flags
  BY <1>9, <1>10, <1>11, <1>12, <1>13, <1>14, <1>15
<1>17. Disjoint(Parts(a, start, end, prot))
  <2>1. /\ a.start < from => PagesOf(left) \cap PagesOf(mid) = {}
        /\ to < a.end => PagesOf(right) \cap PagesOf(mid) = {}
        /\ a.start < from /\ to < a.end => PagesOf(left) \cap PagesOf(right) = {}
    BY <1>1, <1>8, <1>9, <1>10, <1>11
  <2> QED BY <2>1, <1>12 DEF Disjoint
<1>18. ASSUME NEW p \in PagesOf(a)
       PROVE  \E b \in Parts(a, start, end, prot) : p \in PagesOf(b)
  <2>1. p \in Nat /\ s <= p /\ p < e
    BY <1>1, <1>5
  <2>2. CASE p < f
    <3>1. a.start < from /\ p \in PagesOf(left)
      BY <2>1, <2>2, <1>1, <1>8, <1>10
    <3> QED BY <3>1, <1>6
  <2>3. CASE f <= p /\ p < t
    <3>1. p \in PagesOf(mid)
      BY <2>1, <2>3, <1>8, <1>9
    <3> QED BY <3>1, <1>6
  <2>4. CASE t <= p
    <3>1. to < a.end /\ p \in PagesOf(right)
      BY <2>1, <2>4, <1>1, <1>8, <1>11
    <3> QED BY <3>1, <1>6
  <2> QED BY <2>1, <2>2, <2>3, <2>4, <1>8
<1>19. ~ Fails(a, start, end, prot)
  BY <1>16 DEF Fails, Whole
<1> QED BY <1>16, <1>17, <1>18, <1>19 DEF W
-----------------------------------------------------------------------------
(* The areas of one space, and a change of some of them.                   *)

\* What Areas says of the areas of a space, for any set A of areas.
At(A, p) == CHOOSE a \in A : p \in PagesOf(a)
Used(A) == UNION {Touched(a) : a \in A}
EntryOf(A, p) ==
  IF p \in Used(A) THEN [frame |-> FrameAt(At(A, p), p), flags |-> At(A, p).flags]
  ELSE NoEntry

\* B is A with what was in the pages G taken out or replaced by untouched
\* areas, and the rights of the pages R changed to prot.
Recut(A, B, G, R, prot) ==
  /\ \A b \in B : Whole(b)
  /\ Disjoint(B)
  /\ \A b \in B :
       \/ \E a \in A : /\ PartOf(b, a) /\ PagesOf(b) \cap G = {}
                       /\ \A p \in PagesOf(b) : b.flags = IF p \in R THEN prot ELSE a.flags
       \/ PagesOf(b) \subseteq G /\ Touched(b) = {}
  /\ \A a \in A : \A p \in PagesOf(a) \ G : \E b \in B : p \in PagesOf(b)

\* The area of a page is the only one it is in.
LEMMA Found ==
  ASSUME NEW A, Disjoint(A), NEW a \in A, NEW p \in PagesOf(a)
  PROVE  /\ At(A, p) = a
         /\ p \in Used(A) <=> FrameAt(a, p) # NoFrame
         /\ EntryOf(A, p) = IF FrameAt(a, p) = NoFrame THEN NoEntry
                            ELSE [frame |-> FrameAt(a, p), flags |-> a.flags]
<1>1. \A b \in A : p \in PagesOf(b) => b = a
  BY DEF Disjoint
<1>2. At(A, p) = a
  BY <1>1 DEF At
<1>3. p \in Used(A) <=> FrameAt(a, p) # NoFrame
  BY <1>1 DEF Used, Touched
<1> QED BY <1>2, <1>3 DEF EntryOf

\* A page that is in use is in an area.
LEMMA InUse ==
  ASSUME NEW A, NEW p \in Used(A)
  PROVE  \E a \in A : p \in PagesOf(a) /\ FrameAt(a, p) # NoFrame
BY DEF Used, Touched

\* Of areas that do not meet the range, nothing is cut.
LEMMA Apart ==
  ASSUME NEW a, Whole(a), NEW start \in Nat, NEW end \in Nat,
         start % PageSize = 0, end % PageSize = 0, ~ Overlaps(a, start, end)
  PROVE  PartOf(a, a) /\ PagesOf(a) \cap Walk(start, end) = {}
<1> DEFINE i == PageId(start)  j == PageId(end)  s == PageId(a.start)  e == PageId(a.end)
<1>1. ~ (i < e /\ s < j) /\ i \in Nat /\ j \in Nat /\ s \in Nat /\ e \in Nat
  BY Meets, Halved, Extent
<1>2. PagesOf(a) = s..(e - 1)
  BY DEF PagesOf
<1>3. Walk(start, end) = {p \in Pages : i <= p /\ p < j}
  BY Walked
<1> HIDE DEF i, j, s, e
<1>4. PagesOf(a) \cap Walk(start, end) = {}
  BY <1>1, <1>2, <1>3 DEF Pages
<1> QED BY <1>4 DEF PartOf

\* munmap cuts all areas of a space.
LEMMA CutRecuts ==
  ASSUME NEW A, \A a \in A : Whole(a), Disjoint(A),
         NEW start \in Nat, NEW end \in Nat,
         start % PageSize = 0, end % PageSize = 0, start <= end
  PROVE  LET B == UNION {IF Overlaps(a, start, end) THEN AfterCut(a, start, end) ELSE {a} :
                         a \in A}
         IN /\ Recut(A, B, Walk(start, end), {}, {})
            /\ \A b \in B : PagesOf(b) \cap Walk(start, end) = {}
<1> DEFINE W == Walk(start, end)
           F(a) == IF Overlaps(a, start, end) THEN AfterCut(a, start, end) ELSE {a}
           B == UNION {F(a) : a \in A}
<1> HIDE DEF W
<1>1. ASSUME NEW a \in A
      PROVE  /\ \A b \in F(a) : /\ Whole(b) /\ PartOf(b, a) /\ b.flags = a.flags
                                /\ PagesOf(b) \cap W = {}
             /\ Disjoint(F(a))
             /\ \A p \in PagesOf(a) \ W : \E b \in F(a) : p \in PagesOf(b)
  <2>1. CASE Overlaps(a, start, end)
    BY <2>1, CutShows DEF W
  <2>2. CASE ~ Overlaps(a, start, end)
    <3>1. PartOf(a, a) /\ PagesOf(a) \cap W = {}
      BY <2>2, Apart DEF W
    <3> QED BY <2>2, <3>1 DEF Disjoint
  <2> QED BY <2>1, <2>2
<1> HIDE DEF F
<1>2. \A b \in B : \E a \in A : b \in F(a)
  OBVIOUS
<1>3. \A a \in A : F(a) \subseteq B
  OBVIOUS
<1> HIDE DEF B
<1>4. \A b \in B : Whole(b)
  BY <1>1, <1>2
<1>5. Disjoint(B)
  <2> SUFFICES ASSUME NEW b \in B, NEW c \in B, b # c
               PROVE  PagesOf(b) \cap PagesOf(c) = {}
    BY DEF Disjoint
  <2>1. PICK x \in A : b \in F(x)
    BY <1>2
  <2>2. PICK y \in A : c \in F(y)
    BY <1>2
  <2>3. PagesOf(b) \subseteq PagesOf(x) /\ PagesOf(c) \subseteq PagesOf(y)
    BY <2>1, <2>2, <1>1 DEF PartOf
  <2>4. CASE x = y
    BY <2>1, <2>2, <2>4, <1>1 DEF Disjoint
  <2>5. CASE x # y
    BY <2>3, <2>5 DEF Disjoint
  <2> QED BY <2>4, <2>5
<1>6. \A b \in B : \E a \in A :
        /\ PartOf(b, a) /\ PagesOf(b) \cap W = {}
        /\ \A p \in PagesOf(b) : b.flags = IF p \in {} THEN {} ELSE a.flags
  BY <1>1, <1>2
<1>7. \A a \in A : \A p \in PagesOf(a) \ W : \E b \in B : p \in PagesOf(b)
  BY <1>1, <1>3
<1> QED BY <1>4, <1>5, <1>6, <1>7 DEF Recut, B, F, W

\* mprotect cuts all areas of a space and puts the parts back.
LEMMA PartsRecut ==
  ASSUME NEW A, \A a \in A : Whole(a), Disjoint(A),
         NEW start \in Nat, NEW end \in Nat, NEW prot \in SUBSET Rights,
         start % PageSize = 0, end % PageSize = 0, start < end
  PROVE  LET hit == {a \in A : Overlaps(a, start, end)}
             B == (A \ hit) \cup UNION {Parts(a, start, end, prot) : a \in hit}
         IN Recut(A, B, {}, Walk(start, end), prot)
<1> DEFINE W == Walk(start, end)
           hit == {a \in A : Overlaps(a, start, end)}
           F(a) == IF Overlaps(a, start, end) THEN Parts(a, start, end, prot) ELSE {a}
           B == (A \ hit) \cup UNION {Parts(a, start, end, prot) : a \in hit}
<1> HIDE DEF W
<1>1. ASSUME NEW a \in A
      PROVE  /\ \A b \in F(a) :
                  /\ Whole(b) /\ PartOf(b, a)
                  /\ \A p \in PagesOf(b) : b.flags = IF p \in W THEN prot ELSE a.flags
             /\ Disjoint(F(a))
             /\ \A p \in PagesOf(a) : \E b \in F(a) : p \in PagesOf(b)
  <2>1. CASE Overlaps(a, start, end)
    BY <2>1, PartsShow DEF W
  <2>2. CASE ~ Overlaps(a, start, end)
    <3>1. PartOf(a, a) /\ PagesOf(a) \cap W = {}
      BY <2>2, Apart DEF W
    <3> QED BY <2>2, <3>1 DEF Disjoint
  <2> QED BY <2>1, <2>2
<1>2. \A b \in B : \E a \in A : b \in F(a)
  OBVIOUS
<1>3. \A a \in A : F(a) \subseteq B
  OBVIOUS
<1> HIDE DEF F, B
<1>4. \A b \in B : Whole(b)
  BY <1>1, <1>2
<1>5. Disjoint(B)
  <2> SUFFICES ASSUME NEW b \in B, NEW c \in B, b # c
               PROVE  PagesOf(b) \cap PagesOf(c) = {}
    BY DEF Disjoint
  <2>1. PICK x \in A : b \in F(x)
    BY <1>2
  <2>2. PICK y \in A : c \in F(y)
    BY <1>2
  <2>3. PagesOf(b) \subseteq PagesOf(x) /\ PagesOf(c) \subseteq PagesOf(y)
    BY <2>1, <2>2, <1>1 DEF PartOf
  <2>4. CASE x = y
    BY <2>1, <2>2, <2>4, <1>1 DEF Disjoint
  <2>5. CASE x # y
    BY <2>3, <2>5 DEF Disjoint
  <2> QED BY <2>4, <2>5
<1>6. \A b \in B : \E a \in A :
        /\ PartOf(b, a) /\ PagesOf(b) \cap {} = {}
        /\ \A p \in PagesOf(b) : b.flags = IF p \in W THEN prot ELSE a.flags
  BY <1>1, <1>2
<1>7. \A a \in A : \A p \in PagesOf(a) \ {} : \E b \in B : p \in PagesOf(b)
  BY <1>1, <1>3
<1> QED BY <1>4, <1>5, <1>6, <1>7 DEF Recut, B, F, W

\* What was shown outside G is shown after the change, and nothing else.
LEMMA RecutKeeps ==
  ASSUME NEW A, NEW B, NEW G, NEW R, NEW prot, Recut(A, B, G, R, prot), Disjoint(A),
         NEW a \in A, NEW p \in PagesOf(a), p \notin G
  PROVE  \E b \in B : /\ p \in PagesOf(b) /\ PartOf(b, a)
                      /\ b.flags = IF p \in R THEN prot ELSE a.flags
<1>1. PICK b \in B : p \in PagesOf(b)
  BY DEF Recut
<1>2. PICK x \in A : PartOf(b, x) /\ b.flags = IF p \in R THEN prot ELSE x.flags
  BY <1>1 DEF Recut
<1>3. x = a
  BY <1>1, <1>2 DEF PartOf, Disjoint
<1> QED BY <1>1, <1>2, <1>3

\* An area after the change is a part of one before it, or new.
LEMMA RecutStems ==
  ASSUME NEW A, NEW B, NEW G, NEW R, NEW prot, Recut(A, B, G, R, prot),
         NEW b \in B, NEW p \in Touched(b)
  PROVE  /\ p \notin G
         /\ \E a \in A : /\ PartOf(b, a) /\ p \in Touched(a)
                        /\ FrameAt(b, p) = FrameAt(a, p)
<1>1. p \in PagesOf(b) /\ FrameAt(b, p) # NoFrame
  BY DEF Touched
<1>2. PICK a \in A : PartOf(b, a) /\ PagesOf(b) \cap G = {}
  BY <1>1 DEF Recut
<1>3. p \in Touched(a) /\ FrameAt(b, p) = FrameAt(a, p)
  BY <1>1, <1>2 DEF PartOf, Touched
<1> QED BY <1>1, <1>2, <1>3

\* The table entries that go with the areas after the change.
LEMMA RecutEntries ==
  ASSUME NEW A, NEW B, NEW G, NEW R, NEW prot, Recut(A, B, G, R, prot), Disjoint(A),
         NEW p
  PROVE  EntryOf(B, p) =
           IF p \in G \/ p \notin Used(A) THEN NoEntry
           ELSE IF p \in R THEN [EntryOf(A, p) EXCEPT !.flags = prot]
           ELSE EntryOf(A, p)
<1>1. Disjoint(B)
  BY DEF Recut
<1>2. p \in Used(B) => p \in Used(A) /\ p \notin G
  <2> SUFFICES ASSUME p \in Used(B) PROVE p \in Used(A) /\ p \notin G
    OBVIOUS
  <2>1. PICK b \in B : p \in Touched(b)
    BY DEF Used
  <2> QED BY <2>1, RecutStems DEF Used
<1>3. CASE p \in G \/ p \notin Used(A)
  BY <1>2, <1>3 DEF EntryOf
<1>4. CASE p \notin G /\ p \in Used(A)
  <2>1. PICK a \in A : p \in PagesOf(a) /\ FrameAt(a, p) # NoFrame
    BY <1>4, InUse
  <2>2. PICK b \in B : /\ p \in PagesOf(b) /\ PartOf(b, a)
                       /\ b.flags = IF p \in R THEN prot ELSE a.flags
    BY <2>1, <1>4, RecutKeeps
  <2>3. FrameAt(b, p) = FrameAt(a, p)
    BY <2>2 DEF PartOf
  <2>4. EntryOf(A, p) = [frame |-> FrameAt(a, p), flags |-> a.flags]
    BY <2>1, Found
  <2>5. EntryOf(B, p) = [frame |-> FrameAt(a, p), flags |-> b.flags]
    BY <2>1, <2>2, <2>3, <1>1, Found
  <2> QED BY <1>4, <2>2, <2>4, <2>5
<1> QED BY <1>3, <1>4
-----------------------------------------------------------------------------
(* Numbers and entries.                                                    *)

\* A set of pages has a last one.
LEMMA Greatest ==
  ASSUME NEW n \in Nat, NEW T \in SUBSET (1..n), T # {}
  PROVE  \E x \in T : \A y \in T : y <= x
<1> DEFINE D == {x..n : x \in T}
<1>1. \A x \in T : IsFiniteSet(x..n) /\ x..n \in FiniteSubsetsOf(Nat)
  BY FS_Interval DEF FiniteSubsetsOf
<1>2. PICK d \in D : \A e \in D : <<e, d>> \notin StrictSubsetOrdering(Nat)
  <2>1. IsWellFoundedOn(StrictSubsetOrdering(Nat), FiniteSubsetsOf(Nat))
    BY FS_StrictSubsetOrderingWellFounded
  <2>2. D \subseteq FiniteSubsetsOf(Nat) /\ D # {}
    BY <1>1
  <2> HIDE DEF D
  <2> QED BY <2>1, <2>2, WFMin, Zenon
<1>3. PICK x \in T : d = x..n
  BY <1>2
<1>4. ASSUME NEW y \in T, x < y
      PROVE  <<y..n, x..n>> \in StrictSubsetOrdering(Nat)
  <2>1. x \in x..n /\ x \notin y..n /\ y..n \subseteq x..n /\ x..n \subseteq Nat
    BY <1>4
  <2> QED BY <2>1 DEF StrictSubsetOrdering
<1>5. \A y \in T : ~ (x < y)
  BY <1>2, <1>3, <1>4
<1> QED BY <1>5

\* Page p of the areas A is in frame f.
Has(A, p, f) == \E a \in A : p \in Touched(a) /\ FrameAt(a, p) = f

\* OneOwner and TablesAgree, for any areas and table.
Owned(spaces) ==
  /\ \A s \in Spaces : Disjoint(spaces[s])
  /\ \A s, t \in Spaces : \A p, q, f :
       Has(spaces[s], p, f) /\ Has(spaces[t], q, f) => s = t /\ p = q
Agree(spaces, table) ==
  \A s \in Spaces, p \in Pages : table[s][p] = EntryOf(spaces[s], p)

\* Ownership in terms of pages.
LEMMA OwnedIs == OneOwner <=> Owned(areas)
<1>1. ASSUME OneOwner PROVE Owned(areas)
  BY <1>1 DEF OneOwner, Owned, Disjoint, Has
<1>2. ASSUME Owned(areas) PROVE OneOwner
  <2> SUFFICES ASSUME NEW s \in Spaces, NEW t \in Spaces,
                      NEW a \in areas[s], NEW b \in areas[t]
               PROVE  /\ s = t /\ a # b => PagesOf(a) \cap PagesOf(b) = {}
                      /\ \A p \in Touched(a), q \in Touched(b) :
                           FrameAt(a, p) = FrameAt(b, q) => s = t /\ a = b /\ p = q
    BY DEF OneOwner
  <2>1. s = t /\ a # b => PagesOf(a) \cap PagesOf(b) = {}
    BY <1>2 DEF Owned, Disjoint
  <2>2. ASSUME NEW p \in Touched(a), NEW q \in Touched(b), FrameAt(a, p) = FrameAt(b, q)
        PROVE  s = t /\ a = b /\ p = q
    <3>1. Has(areas[s], p, FrameAt(a, p)) /\ Has(areas[t], q, FrameAt(a, p))
      BY <2>2 DEF Has
    <3>2. s = t /\ p = q
      BY <3>1, <1>2 DEF Owned
    <3> QED BY <2>1, <3>2 DEF Touched
  <2> QED BY <2>1, <2>2
<1> QED BY <1>1, <1>2

\* The table in terms of entries.
LEMMA AgreeIs == TablesAgree <=> Agree(areas, pt)
BY DEF TablesAgree, Agree, EntryOf, Used, At, Resident, FrameOf, AreaOf

\* An entry of whole areas has its type.
LEMMA EntryTyped ==
  ASSUME NEW A, Disjoint(A), \A a \in A : Whole(a), NEW p
  PROVE  /\ EntryOf(A, p) \in Entry \cup {NoEntry}
         /\ p \in Used(A) => EntryOf(A, p) \in Entry /\ Has(A, p, EntryOf(A, p).frame)
         /\ \A f : Has(A, p, f) => p \in Used(A) /\ f \in Frames /\ EntryOf(A, p).frame = f
<1>1. ASSUME NEW a \in A, p \in PagesOf(a), FrameAt(a, p) # NoFrame
      PROVE  /\ EntryOf(A, p) = [frame |-> FrameAt(a, p), flags |-> a.flags]
             /\ EntryOf(A, p) \in Entry /\ FrameAt(a, p) \in Frames
  <2>1. EntryOf(A, p) = [frame |-> FrameAt(a, p), flags |-> a.flags]
    BY <1>1, Found
  <2>2. FrameAt(a, p) \in Frames /\ a.flags \in SUBSET Rights
    BY <1>1, Slot DEF Whole, Area
  <2> QED BY <2>1, <2>2 DEF Entry
<1>2. ASSUME p \in Used(A)
      PROVE  EntryOf(A, p) \in Entry /\ Has(A, p, EntryOf(A, p).frame)
  <2>1. PICK a \in A : p \in PagesOf(a) /\ FrameAt(a, p) # NoFrame
    BY <1>2, InUse
  <2>2. p \in Touched(a)
    BY <2>1 DEF Touched
  <2> QED BY <2>1, <2>2, <1>1 DEF Has
<1>3. p \notin Used(A) => EntryOf(A, p) = NoEntry
  BY DEF EntryOf
<1>4. ASSUME NEW f, Has(A, p, f)
      PROVE  p \in Used(A) /\ f \in Frames /\ EntryOf(A, p).frame = f
  <2>1. PICK a \in A : p \in Touched(a) /\ FrameAt(a, p) = f
    BY <1>4 DEF Has
  <2>2. p \in Used(A) /\ p \in PagesOf(a) /\ FrameAt(a, p) # NoFrame
    BY <2>1 DEF Used, Touched
  <2> QED BY <2>1, <2>2, <1>1
<1> QED BY <1>2, <1>3, <1>4
-----------------------------------------------------------------------------
(* Steps that recut one space.                                             *)

\* Recutting one space keeps the areas whole and every page and frame with its
\* only owner.
LEMMA RecutStep ==
  ASSUME IInv, NEW s \in Spaces, NEW B, NEW G, NEW R, NEW prot,
         Recut(areas[s], B, G, R, prot), areas' = [areas EXCEPT ![s] = B]
  PROVE  areas' \in [Spaces -> SUBSET Area] /\ AllWhole' /\ OneOwner'
<1>1. areas \in [Spaces -> SUBSET Area] /\ AllWhole /\ Owned(areas)
  BY OwnedIs DEF IInv, TypeOK
<1>2. areas'[s] = B /\ \A t \in Spaces : t # s => areas'[t] = areas[t]
  BY <1>1
<1>3. AllWhole'
  BY <1>1, <1>2 DEF AllWhole, Recut
<1>4. areas' \in [Spaces -> SUBSET Area]
  BY <1>1 DEF Recut, Whole
<1>5. \A t \in Spaces : Disjoint(areas'[t])
  BY <1>1, <1>2 DEF Owned, Recut
<1>6. ASSUME NEW t \in Spaces, NEW p, NEW f, Has(areas'[t], p, f)
      PROVE  Has(areas[t], p, f)
  <2>1. CASE t # s
    BY <2>1, <1>2, <1>6
  <2>2. CASE t = s
    <3>1. PICK b \in B : p \in Touched(b) /\ FrameAt(b, p) = f
      BY <2>2, <1>2, <1>6 DEF Has
    <3> QED BY <2>2, <3>1, RecutStems DEF Has
  <2> QED BY <2>1, <2>2
<1>7. Owned(areas')
  BY <1>1, <1>5, <1>6 DEF Owned
<1>8. OneOwner' <=> Owned(areas')
  BY <1>7, <1>5 DEF OneOwner, Owned, Disjoint, Has, Touched
<1> QED BY <1>3, <1>4, <1>7, <1>8
\* The entries of pages that go are cleared, and those are the entries of what
\* is left.
LEMMA CutEntries ==
  ASSUME IInv, NEW s \in Spaces, NEW B, NEW start \in Nat, NEW end \in Nat,
         Recut(areas[s], B, Walk(start, end), {}, {})
  PROVE  \A p \in Pages : CutTable(s, start, end)[p] = EntryOf(B, p)
<1>1. Agree(areas, pt) /\ Disjoint(areas[s])
  BY OwnedIs, AgreeIs DEF IInv, Owned
<1> TAKE p \in Pages
<1>2. CutTable(s, start, end)[p] =
        IF p \in Walk(start, end) \cap Used(areas[s]) THEN NoEntry ELSE EntryOf(areas[s], p)
  BY <1>1 DEF CutTable, Agree, Resident, Used
<1>3. p \notin Used(areas[s]) => EntryOf(areas[s], p) = NoEntry
  BY DEF EntryOf
<1>4. EntryOf(B, p) =
        IF p \in Walk(start, end) \/ p \notin Used(areas[s]) THEN NoEntry
        ELSE EntryOf(areas[s], p)
  <2>1. EntryOf(B, p) =
          IF p \in Walk(start, end) \/ p \notin Used(areas[s]) THEN NoEntry
          ELSE IF p \in {} THEN [EntryOf(areas[s], p) EXCEPT !.flags = {}]
          ELSE EntryOf(areas[s], p)
    BY <1>1, RecutEntries
  <2> QED BY <2>1
<1> QED BY <1>2, <1>3, <1>4

\* A table that gets the entries of the areas agrees with them.
LEMMA TableStep ==
  ASSUME IInv, NEW s \in Spaces, NEW B, NEW T,
         areas' = [areas EXCEPT ![s] = B],
         pt' = [pt EXCEPT ![s] = T], T = [p \in Pages |-> T[p]],
         \A p \in Pages : T[p] = EntryOf(B, p),
         AllWhole', OneOwner'
  PROVE  TablesAgree' /\ pt' \in [Spaces -> [Pages -> Entry \cup {NoEntry}]]
<1>1. /\ areas \in [Spaces -> SUBSET Area]
      /\ pt \in [Spaces -> [Pages -> Entry \cup {NoEntry}]] /\ Agree(areas, pt)
  BY AgreeIs DEF IInv, TypeOK
<1>2. areas'[s] = B /\ pt'[s] = T
  BY <1>1
<1>3. Agree(areas', pt')
  BY <1>1, <1>2 DEF Agree
<1>4. TablesAgree'
  BY <1>3 DEF TablesAgree, Agree, EntryOf, Used, At, Resident, FrameOf, AreaOf
<1>5. Disjoint(B) /\ \A b \in B : Whole(b)
  BY <1>2 DEF OneOwner, Disjoint, AllWhole
<1>6. \A p \in Pages : T[p] \in Entry \cup {NoEntry}
  BY <1>5, EntryTyped
<1> QED BY <1>1, <1>4, <1>6

\* What a new mapping is.
NewIs(start, end, prot, file) ==
  LET a == NewArea(start, end, prot, file)
  IN /\ Whole(a) /\ a.start = start /\ a.end = end
     /\ PagesOf(a) = Walk(start, end) /\ Touched(a) = {}
     /\ a.flags = prot /\ a.back = Backing(prot, file)

LEMMA NewShows ==
  ASSUME NEW start \in Nat, NEW len \in Nat, NEW end, end = start + len, NEW prot \in SUBSET Rights,
         NEW file \in Nat \cup {NoFile},
         start % PageSize = 0, len % PageSize = 0, start > 0, len > 0,
         end < Limit, file # NoFile => file \in Nat /\ file % PageSize = 0,
         InFile(file, len)
  PROVE  NewIs(start, end, prot, file)
<1> DEFINE a == NewArea(start, end, prot, file)
           n == PageId(len)  i == PageId(start)
<1>1. /\ i \in Nat /\ n \in Nat /\ start = 2 * i /\ len = 2 * n
      /\ end \in Nat /\ end % PageSize = 0 /\ PageId(end) = i + n
      /\ end - start = len
  BY Halved, Summed
<1>2. /\ a.start = start /\ a.end = end /\ a.flags = prot
      /\ a.frames = [j \in 1..n |-> NoFrame] /\ a.back = Backing(prot, file)
  BY <1>1 DEF NewArea
<1>3. a.frames \in Seq(Frames \cup {NoFrame}) /\ Len(a.frames) = n
  <2>1. a.frames \in [1..n -> Frames \cup {NoFrame}]
    BY <1>2
  <2> HIDE DEF a, n
  <2> QED BY <1>1, <2>1
<1>4. Policy(prot) \in SUBSET {"r", "w"}
  BY DEF Policy
<1>5. /\ a.back \in [offset : Nat, sync : SUBSET {"r", "w"}] \cup {NoFile}
      /\ a.back # NoFile => file \in Nat /\ a.back.offset = file /\ file # NoFile
  BY <1>2, <1>4 DEF Backing
<1>6. a \in Area
  <2>1. a = [start |-> a.start, end |-> a.end, flags |-> a.flags,
             frames |-> a.frames, back |-> a.back]
    BY DEF NewArea
  <2>2. a.start \in Nat /\ a.end \in Nat
    BY <1>2
  <2> QED BY <1>2, <1>3, <1>5, <2>1, <2>2 DEF Area
<1>7. a.back # NoFile =>
        a.back.offset % PageSize = 0 /\ PageId(a.back.offset) + Len(a.frames) <= FileLen
  <2> SUFFICES ASSUME a.back # NoFile
               PROVE  a.back.offset % PageSize = 0 /\ PageId(a.back.offset) + n <= FileLen
    BY <1>3
  <2>1. /\ file \in Nat /\ file % PageSize = 0 /\ a.back.offset = file
        /\ PageId(file + len) <= FileLen
    BY <1>5 DEF InFile
  <2>2. PageId(file + len) = PageId(file) + PageId(len)
    BY <2>1, Summed
  <2> QED BY <2>1, <2>2
<1> HIDE DEF a, n, i
<1>8. Whole(a)
  BY <1>1, <1>2, <1>3, <1>6, <1>7 DEF Whole, Fits, PageSize
<1>9. PagesOf(a) = i..(i + n - 1)
  BY <1>1, <1>2 DEF PagesOf, i
<1>10. Walk(start, end) = {p \in Pages : i <= p /\ p < i + n}
  BY <1>1, Walked DEF i
<1>11. PagesOf(a) \subseteq Pages
  BY <1>8, Extent
<1>12. PagesOf(a) = Walk(start, end)
  <2>1. \A p \in Pages : p \in Nat
    BY DEF Pages
  <2>2. ASSUME NEW p \in Pages
        PROVE  p \in i..(i + n - 1) <=> i <= p /\ p < i + n
    BY <1>1, <2>1
  <2> QED BY <1>9, <1>10, <1>11, <2>2
<1>13. Touched(a) = {}
  <2> SUFFICES ASSUME NEW p \in PagesOf(a) PROVE FrameAt(a, p) = NoFrame
    BY DEF Touched
  <2>1. p - PageId(a.start) + 1 \in 1..n
    BY <1>3, <1>8, Slot
  <2> QED BY <2>1, <1>2 DEF FrameAt
<1> QED BY <1>2, <1>8, <1>12, <1>13 DEF a, NewIs

\* A new area where there is room.
LEMMA Added ==
  ASSUME NEW A, NEW B, NEW G, NEW new, Recut(A, B, G, {}, {}),
         Whole(new), PagesOf(new) \subseteq G, Touched(new) = {},
         \A b \in B : PagesOf(b) \cap PagesOf(new) = {}
  PROVE  Recut(A, B \cup {new}, G, {}, {})
BY DEF Recut, Disjoint

\* Areas that have no page in G are a recutting of themselves.
LEMMA Untaken ==
  ASSUME NEW A, \A a \in A : Whole(a), Disjoint(A), NEW G,
         \A a \in A : PagesOf(a) \cap G = {}
  PROVE  Recut(A, A, G, {}, {})
<1>1. \A a \in A : PartOf(a, a) /\ \A p \in PagesOf(a) :
        a.flags = IF p \in {} THEN {} ELSE a.flags
  BY DEF PartOf
<1> QED BY <1>1 DEF Recut

\* push adds the new area where the table has no valid page, or nothing.
LEMMA PushRecuts ==
  ASSUME NEW A, NEW B, NEW start \in Nat, NEW len \in Nat, NEW prot \in SUBSET Rights,
         NEW file \in Nat \cup {NoFile}, NEW table,
         Recut(A, B, Walk(start, start + len), {}, {}),
         \A b \in B : PagesOf(b) \cap Walk(start, start + len) = {},
         start % PageSize = 0, len % PageSize = 0, start > 0,
         start + len < Limit, file # NoFile => file \in Nat /\ file % PageSize = 0,
         InFile(file, len)
  PROVE  Recut(A, Pushed(B, table, start, len, prot, file),
               Walk(start, start + len), {}, {})
<1> DEFINE new == NewArea(start, start + len, prot, file)
           W == Walk(start, start + len)
<1>1. CASE Pushed(B, table, start, len, prot, file) = B
  BY <1>1
<1>2. CASE len > 0 /\ Pushed(B, table, start, len, prot, file) = B \cup {new}
  <2>1. Whole(new) /\ PagesOf(new) = W /\ Touched(new) = {}
    <3> DEFINE end == start + len
    <3>1. end = start + len
      OBVIOUS
    <3> HIDE DEF end
    <3> QED BY <1>2, <3>1, NewShows DEF end, NewIs
  <2> HIDE DEF new, W
  <2>2. Recut(A, B \cup {new}, W, {}, {})
    BY <2>1, Added DEF W
  <2> QED BY <2>2, <1>2 DEF W
<1> QED BY <1>1, <1>2 DEF Pushed
\* Each page in use has one area, and a frame.
LEMMA Residents ==
  ASSUME IInv, NEW s \in Spaces, NEW p \in Resident(s)
  PROVE  p \in Pages /\ FrameOf(s, p) \in Frames /\ AreaOf(s, p) \in areas[s]
         /\ p \in PagesOf(AreaOf(s, p)) /\ Whole(AreaOf(s, p))
<1>1. PICK a \in areas[s] : p \in PagesOf(a) /\ FrameAt(a, p) # NoFrame
  BY DEF Resident, Touched
<1>2. Whole(a) /\ Disjoint(areas[s])
  BY OwnedIs DEF IInv, AllWhole, Owned
<1>3. AreaOf(s, p) = a
  BY <1>1, <1>2, Found DEF At, AreaOf
<1> QED BY <1>1, <1>2, <1>3, Slot DEF FrameOf

\* What is written back are contents of frames.
LEMMA WrittenTyped ==
  ASSUME IInv, NEW s \in Spaces, NEW P
  PROVE  Written(s, P) \in [0..(FileLen - 1) -> Data]
<1> DEFINE Sources(o) == {p \in P \cap Resident(s) :
                 LET a == AreaOf(s, p) IN Linked(a, "w") /\ FilePage(a, p) = o}
           Last(o) == CHOOSE p \in Sources(o) : \A q \in Sources(o) : q <= p
<1>1. /\ disk \in [0..(FileLen - 1) -> Data] /\ mem \in [Frames -> Data]
  BY DEF IInv, TypeOK
<1>2. Written(s, P) = [o \in 0..(FileLen - 1) |->
        IF Sources(o) = {} THEN disk[o] ELSE mem[FrameOf(s, Last(o))]]
  BY <1>1 DEF Written
<1>3. ASSUME NEW o \in 0..(FileLen - 1), Sources(o) # {}
      PROVE  FrameOf(s, Last(o)) \in Frames
  <2>1. Sources(o) \subseteq Resident(s)
    OBVIOUS
  <2>2. Sources(o) \subseteq Pages
    BY <2>1, Residents
  <2>3. \E p \in Sources(o) : \A q \in Sources(o) : q <= p
    <3>1. PageId(Limit) - 1 \in Nat
      <4>1. PageId(Limit) - 1 \in Int /\ \E p \in Pages : TRUE
        BY <1>3, <2>2, SizesAssumption DEF PageId, PageSize
      <4> QED BY <4>1 DEF Pages
    <3> HIDE DEF Sources
    <3> QED BY <1>3, <2>2, <3>1, Greatest DEF Pages
  <2> HIDE DEF Sources
  <2>4. Last(o) \in Sources(o)
    BY <2>3
  <2> QED BY <2>1, <2>4, Residents
<1> QED BY <1>1, <1>2, <1>3

\* What a caller passes for addresses.
LEMMA Passed ==
  ASSUME NEW start \in Starts
  PROVE  start \in Nat /\ start % PageSize = 0
BY SizesAssumption

\* What the areas and the table have to be after a step.
Sound == /\ areas \in [Spaces -> SUBSET Area]
         /\ pt \in [Spaces -> [Pages -> Entry \cup {NoEntry}]]
         /\ AllWhole /\ OneOwner /\ TablesAgree

\* munmap (the lemmas to come are one for each action).
LEMMA MunmapSound ==
  ASSUME IInv, WholePages, NEW s \in Spaces, NEW start \in Starts, NEW len \in CutLens,
         Munmap(s, start, len)
  PROVE  Sound'
<1> DEFINE end == start + len  B == Cut(s, start, end)  T == CutTable(s, start, end)
<1>1. /\ start \in Nat /\ start % PageSize = 0 /\ end \in Nat /\ end % PageSize = 0
      /\ start <= end
  BY Passed, Summed, SizesAssumption DEF WholePages
<1>2. areas' = [areas EXCEPT ![s] = B] /\ pt' = [pt EXCEPT ![s] = T]
  BY DEF Munmap
<1> HIDE DEF end
<1>3. Recut(areas[s], B, Walk(start, end), {}, {})
  BY <1>1, OwnedIs, CutRecuts DEF IInv, AllWhole, Owned, Cut
<1>4. \A p \in Pages : T[p] = EntryOf(B, p)
  BY <1>1, <1>3, CutEntries
<1>5. T = [p \in Pages |-> T[p]]
  BY DEF CutTable
<1> HIDE DEF B, T
<1>6. areas' \in [Spaces -> SUBSET Area] /\ AllWhole' /\ OneOwner'
  BY <1>2, <1>3, RecutStep
<1>7. TablesAgree' /\ pt' \in [Spaces -> [Pages -> Entry \cup {NoEntry}]]
  BY <1>2, <1>4, <1>5, <1>6, TableStep
<1> QED BY <1>6, <1>7 DEF Sound

LEMMA MprotectSound ==
  ASSUME IInv, WholePages, NEW s \in Spaces, NEW start \in Starts, NEW len \in ProtLens,
         NEW prot \in Prots, Mprotect(s, start, len, prot)
  PROVE  Sound'
<1> DEFINE end == start + len
           A == areas[s]
           W == Walk(start, end)
           hit == {a \in A : Overlaps(a, start, end)}
           lost == {a \in hit : \E b \in hit :
                      b.start <= a.start /\ Fails(b, start, end, prot)}
           B == (A \ hit) \cup UNION {Parts(a, start, end, prot) : a \in hit}
           T == [p \in Pages |->
                  IF p \in W /\ \E a \in hit : p \in Touched(a)
                    THEN [pt[s][p] EXCEPT !.flags = prot] ELSE pt[s][p]]
<1>1. /\ start \in Nat /\ start % PageSize = 0 /\ end \in Nat /\ end % PageSize = 0
      /\ start < end /\ prot \in SUBSET Rights
  BY Passed, Summed, SizesAssumption DEF WholePages
<1>2. /\ areas \in [Spaces -> SUBSET Area] /\ Agree(areas, pt)
      /\ pt \in [Spaces -> [Pages -> Entry \cup {NoEntry}]]
      /\ Disjoint(A) /\ \A a \in A : Whole(a)
  BY OwnedIs, AgreeIs DEF IInv, TypeOK, AllWhole, Owned
<1>3. /\ areas' = [areas EXCEPT ![s] = (@ \ hit) \cup
                     UNION {Parts(a, start, end, prot) : a \in hit \ lost}]
      /\ pt' = [pt EXCEPT ![s] = [p \in Pages |->
           IF p \in Walk(start, end) /\ \E a \in hit \ lost : p \in Touched(a)
             THEN [@[p] EXCEPT !.flags = prot] ELSE @[p]]]
  BY DEF Mprotect
<1> HIDE DEF end
<1>4. lost = {}
  BY <1>1, <1>2, PartsShow
<1>5. areas' = [areas EXCEPT ![s] = B] /\ pt' = [pt EXCEPT ![s] = T]
  BY <1>2, <1>3, <1>4
<1>6. Recut(A, B, {}, W, prot)
  BY <1>1, <1>2, PartsRecut
<1>7. \A p \in Pages : T[p] = EntryOf(B, p)
  <2> SUFFICES ASSUME NEW p \in Pages PROVE T[p] = EntryOf(B, p)
    OBVIOUS
  <2>1. p \in W => ((\E a \in hit : p \in Touched(a)) <=> p \in Used(A))
    <3>1. ASSUME NEW a \in A, p \in W, p \in Touched(a) PROVE a \in hit
      BY <1>1, <1>2, <3>1, Apart DEF Touched
    <3> HIDE DEF W
    <3> QED BY <3>1 DEF Used
  <2>2. pt[s][p] = EntryOf(A, p)
    BY <1>2 DEF Agree
  <2>3. p \notin Used(A) => EntryOf(A, p) = NoEntry
    BY DEF EntryOf
  <2> DEFINE touched == \E a \in hit : p \in Touched(a)
  <2>4. T[p] = IF p \in W /\ touched
                 THEN [EntryOf(A, p) EXCEPT !.flags = prot] ELSE EntryOf(A, p)
    BY <2>2
  <2> HIDE DEF A, B, W, T, hit, touched
  <2>5. EntryOf(B, p) =
          IF p \in {} \/ p \notin Used(A) THEN NoEntry
          ELSE IF p \in W THEN [EntryOf(A, p) EXCEPT !.flags = prot]
          ELSE EntryOf(A, p)
    BY <1>2, <1>6, RecutEntries
  <2> QED BY <2>1, <2>3, <2>4, <2>5 DEF touched
<1>8. T = [p \in Pages |-> T[p]]
  OBVIOUS
<1> HIDE DEF A, B, T
<1>9. areas' \in [Spaces -> SUBSET Area] /\ AllWhole' /\ OneOwner'
  BY <1>5, <1>6, RecutStep DEF A
<1>10. TablesAgree' /\ pt' \in [Spaces -> [Pages -> Entry \cup {NoEntry}]]
  BY <1>5, <1>7, <1>8, <1>9, TableStep
<1> QED BY <1>9, <1>10 DEF Sound
\* Room that Vacant finds is nobody's.
LEMMA VacantApart ==
  ASSUME NEW A, \A a \in A : Whole(a), NEW start \in Nat, NEW end \in Nat,
         start % PageSize = 0, end % PageSize = 0, Vacant(A, start, end)
  PROVE  \A a \in A : PagesOf(a) \cap Walk(start, end) = {}
BY Apart DEF Vacant

\* Room is found at page addresses above page 0.
LEMMA PlaceWhole ==
  ASSUME NEW A, \A a \in A : Whole(a), NEW hint \in Nat, hint % PageSize = 0,
         NEW len \in Nat, NEW start \in Places(A, hint, len)
  PROVE  start \in Nat /\ start % PageSize = 0 /\ start > 0
         /\ Vacant(A, start, start + len)
<1> DEFINE first == IF hint = 0 THEN PageSize ELSE AlignUp(hint)
           ends == {e \in {a.end : a \in A} : Vacant(A, e, e + len)}
<1>1. first \in Nat /\ first % PageSize = 0 /\ first > 0
  BY Halved DEF PageSize
<1>2. \A e \in ends : /\ e \in Nat /\ e % PageSize = 0 /\ e > 0
                      /\ Vacant(A, e, e + len)
  <2>1. \A a \in A : a.end \in Nat /\ a.end % PageSize = 0 /\ a.end > 0
    <3> TAKE a \in A
    <3>1. a.end \in Nat /\ a.start \in Nat /\ 0 < a.start /\ a.start < a.end
      BY Extent DEF Whole, Fits
    <3> QED BY <3>1 DEF Whole
  <2> QED BY <2>1
<1>3. \/ start = first /\ Vacant(A, first, first + len)
      \/ start \in ends
  BY DEF Places
<1> HIDE DEF first, ends
<1> QED BY <1>1, <1>2, <1>3

\* What mmap makes of its arguments.
LEMMA Asked ==
  ASSUME NEW start \in Starts, NEW len \in MapLens
  PROVE  LET from == AlignDown(start)
             size == AlignUp(start + len) - from
         IN /\ from \in Nat /\ from % PageSize = 0
            /\ size \in Nat /\ size % PageSize = 0
<1>1. /\ start \in Nat /\ start % PageSize = 0 /\ AlignDown(start) = start
      /\ len \in Nat
  BY Passed, Halved, SizesAssumption
<1>2. /\ AlignUp(start + len) \in Nat /\ AlignUp(start + len) % PageSize = 0
      /\ start <= AlignUp(start + len)
  <2>1. AlignUp(start + len) \in Nat /\ AlignUp(start + len) % PageSize = 0
        /\ start + len <= AlignUp(start + len)
    BY <1>1, Aligned
  <2> QED BY <1>1, <2>1
<1>3. /\ AlignUp(start + len) - start \in Nat
      /\ (AlignUp(start + len) - start) % PageSize = 0
  BY <1>1, <1>2, Summed
<1> QED BY <1>1, <1>3

LEMMA MmapAnywhereSound ==
  ASSUME IInv, NEW s \in Spaces, NEW hint \in Nat, NEW len \in Nat,
         hint % PageSize = 0, len % PageSize = 0,
         NEW prot \in Prots, NEW file \in Offsets \cup {NoFile},
         MmapAnywhere(s, hint, len, prot, file)
  PROVE  Sound'
<1> DEFINE A == areas[s]
<1>1. PICK start \in Places(A, hint, len) :
        /\ start + len < Limit
        /\ areas' = [areas EXCEPT ![s] = Pushed(@, pt[s], start, len, prot, file)]
  BY DEF MmapAnywhere
<1> DEFINE end == start + len
           B == Pushed(A, pt[s], start, len, prot, file)
<1>2. /\ InFile(file, len) /\ pt' = pt
      /\ areas \in [Spaces -> SUBSET Area] /\ areas' = [areas EXCEPT ![s] = B]
  BY <1>1 DEF MmapAnywhere, IInv, TypeOK
<1>3. /\ Disjoint(A) /\ \A a \in A : Whole(a)
      /\ Agree(areas, pt) /\ pt \in [Spaces -> [Pages -> Entry \cup {NoEntry}]]
  BY OwnedIs, AgreeIs DEF IInv, AllWhole, Owned, TypeOK
<1>4. /\ prot \in SUBSET Rights /\ file \in Nat \cup {NoFile}
      /\ file # NoFile => file \in Nat /\ file % PageSize = 0
  BY SizesAssumption
<1> HIDE DEF A
<1>5. start \in Nat /\ start % PageSize = 0 /\ start > 0 /\ Vacant(A, start, end)
  BY <1>1, <1>3, PlaceWhole
<1>6. end \in Nat /\ end % PageSize = 0
  BY <1>5, Summed
<1>7. \A a \in A : PagesOf(a) \cap Walk(start, end) = {}
  <2> HIDE DEF end
  <2> QED BY <1>3, <1>5, <1>6, VacantApart
<1>8. Recut(A, A, Walk(start, end), {}, {})
  <2> DEFINE W == Walk(start, end)
  <2> HIDE DEF W
  <2> QED BY <1>3, <1>7, Untaken DEF W
<1>9. Recut(A, B, Walk(start, end), {}, {})
  BY <1>1, <1>2, <1>4, <1>5, <1>7, <1>8, PushRecuts
<1>10. \A p \in Pages : pt[s][p] = EntryOf(B, p)
  <2> TAKE p \in Pages
  <2> DEFINE W == Walk(start, end)
  <2>1. p \in W => p \notin Used(A)
    BY <1>7 DEF Used, Touched
  <2>2. p \notin Used(A) => EntryOf(A, p) = NoEntry
    BY DEF EntryOf
  <2>3. pt[s][p] = EntryOf(A, p)
    BY <1>3 DEF Agree, A
  <2> HIDE DEF W, B
  <2>4. EntryOf(B, p) =
          IF p \in W \/ p \notin Used(A) THEN NoEntry
          ELSE IF p \in {} THEN [EntryOf(A, p) EXCEPT !.flags = {}]
          ELSE EntryOf(A, p)
    BY <1>3, <1>9, RecutEntries DEF W
  <2> QED BY <2>1, <2>2, <2>3, <2>4
<1>11. pt[s] = [p \in Pages |-> pt[s][p]] /\ pt' = [pt EXCEPT ![s] = pt[s]]
  BY <1>2, <1>3
<1> HIDE DEF B
<1>12. areas' \in [Spaces -> SUBSET Area] /\ AllWhole' /\ OneOwner'
  BY <1>2, <1>9, RecutStep DEF A
<1>13. TablesAgree' /\ pt' \in [Spaces -> [Pages -> Entry \cup {NoEntry}]]
  <2> DEFINE T == pt[s]
  <2>1. /\ pt' = [pt EXCEPT ![s] = T] /\ T = [p \in Pages |-> T[p]]
        /\ \A p \in Pages : T[p] = EntryOf(B, p)
    BY <1>10, <1>11
  <2> HIDE DEF T
  <2> QED BY <1>2, <1>12, <2>1, TableStep
<1> QED BY <1>12, <1>13 DEF Sound

LEMMA MmapFixedSound ==
  ASSUME IInv, NEW s \in Spaces, NEW start \in Nat, NEW len \in Nat,
         start % PageSize = 0, len % PageSize = 0,
         NEW prot \in Prots, NEW file \in Offsets \cup {NoFile},
         MmapFixed(s, start, len, prot, file)
  PROVE  Sound'
<1> DEFINE end == start + len
           C == Cut(s, start, end)
           T == CutTable(s, start, end)
           B == Pushed(C, T, start, len, prot, file)
<1>1. /\ start > 0 /\ end < Limit /\ InFile(file, len)
      /\ areas' = [areas EXCEPT ![s] = B] /\ pt' = [pt EXCEPT ![s] = T]
  BY DEF MmapFixed
<1>2. end \in Nat /\ end % PageSize = 0 /\ start <= end
  BY Summed
<1>3. /\ prot \in SUBSET Rights /\ file \in Nat \cup {NoFile}
      /\ file # NoFile => file \in Nat /\ file % PageSize = 0
  BY SizesAssumption
<1>4. /\ Recut(areas[s], C, Walk(start, end), {}, {})
      /\ \A b \in C : PagesOf(b) \cap Walk(start, end) = {}
  <2> HIDE DEF end
  <2> QED BY <1>2, OwnedIs, CutRecuts DEF IInv, AllWhole, Owned, Cut
<1> HIDE DEF C
<1>5. Recut(areas[s], B, Walk(start, end), {}, {})
  BY <1>1, <1>3, <1>4, PushRecuts
<1> HIDE DEF B, end
<1>6. \A p \in Pages : T[p] = EntryOf(B, p)
  BY <1>2, <1>5, CutEntries
<1>7. T = [p \in Pages |-> T[p]]
  BY DEF CutTable
<1> HIDE DEF T
<1>8. areas' \in [Spaces -> SUBSET Area] /\ AllWhole' /\ OneOwner'
  BY <1>1, <1>5, RecutStep
<1>9. TablesAgree' /\ pt' \in [Spaces -> [Pages -> Entry \cup {NoEntry}]]
  BY <1>1, <1>6, <1>7, <1>8, TableStep
<1> QED BY <1>8, <1>9 DEF Sound
\* mmap
LEMMA MmapSound ==
  ASSUME IInv, NEW s \in Spaces, NEW start \in Starts, NEW len \in MapLens,
         NEW prot \in Prots, NEW fixed \in BOOLEAN, NEW file \in Offsets \cup {NoFile},
         Mmap(s, start, len, prot, fixed, file)
  PROVE  Sound'
<1> DEFINE from == AlignDown(start)
           size == AlignUp(start + len) - from
<1>1. /\ from \in Nat /\ from % PageSize = 0 /\ size \in Nat /\ size % PageSize = 0
  BY Asked
<1>2. \/ MmapFixed(s, from, size, prot, file) \/ MmapAnywhere(s, from, size, prot, file)
  BY DEF Mmap
<1> HIDE DEF from, size
<1>3. CASE MmapFixed(s, from, size, prot, file)
  BY <1>1, <1>3, MmapFixedSound
<1>4. CASE MmapAnywhere(s, from, size, prot, file)
  BY <1>1, <1>4, MmapAnywhereSound
<1> QED BY <1>2, <1>3, <1>4

\* An exit is a cut of all there is.
LEMMA ExitSound ==
  ASSUME IInv, NEW s \in Spaces, Exit(s)
  PROVE  Sound'
<1> DEFINE T == CutTable(s, 0, Limit)
<1>1. /\ areas' = [areas EXCEPT ![s] = {}] /\ pt' = [pt EXCEPT ![s] = T]
  BY DEF Exit
<1>2. Walk(0, Limit) = Pages
  <2>1. ASSUME NEW p \in Pages PROVE 0 <= PageAddr(p) /\ PageAddr(p) < Limit
    <3>1. p \in Nat /\ p <= (Limit \div 2) - 1 /\ Limit \in Nat
      BY SizesAssumption DEF Pages, PageId, PageSize
    <3>2. PageAddr(p) = 2 * p
      BY <3>1, Addressed
    <3> QED BY <3>1, <3>2
  <2> QED BY <2>1 DEF Walk
<1>3. Recut(areas[s], {}, Walk(0, Limit), {}, {})
  <2>1. \A a \in areas[s] : PagesOf(a) \subseteq Pages
    BY Extent DEF IInv, AllWhole
  <2> QED BY <1>2, <2>1 DEF Recut, Disjoint
<1>4. \A p \in Pages : T[p] = EntryOf({}, p)
  BY <1>3, CutEntries, SizesAssumption
<1>5. T = [p \in Pages |-> T[p]]
  BY DEF CutTable
<1> HIDE DEF T
<1>6. areas' \in [Spaces -> SUBSET Area] /\ AllWhole' /\ OneOwner'
  BY <1>1, <1>3, RecutStep
<1>7. TablesAgree' /\ pt' \in [Spaces -> [Pages -> Entry \cup {NoEntry}]]
  BY <1>1, <1>4, <1>5, <1>6, TableStep
<1> QED BY <1>6, <1>7 DEF Sound

\* Frames that are free are behind no page.
LEMMA FreeUnused ==
  ASSUME IInv, NEW f \in Free, NEW s \in Spaces, NEW p
  PROVE  f \in Frames /\ ~ Has(areas[s], p, f)
<1>1. f \in Frames /\ \A q \in Resident(s) : FrameOf(s, q) # f
  BY DEF Free
<1>2. ASSUME Has(areas[s], p, f) PROVE FALSE
  <2>1. PICK a \in areas[s] : p \in Touched(a) /\ FrameAt(a, p) = f
    BY <1>2 DEF Has
  <2>2. p \in Resident(s) /\ p \in PagesOf(a)
    BY <2>1 DEF Resident, Touched
  <2>3. AreaOf(s, p) = a
    BY <2>1, <2>2, Found, OwnedIs DEF AreaOf, At, IInv, Owned
  <2> QED BY <1>1, <2>1, <2>2, <2>3 DEF FrameOf
<1> QED BY <1>1, <1>2

\* An area with a frame given to one of its pages.
Filled(a, p, f) == [a EXCEPT !.frames[p - PageId(a.start) + 1] = f]

\* That page has the frame, the rest of the area is as it was.
LEMMA FilledShows ==
  ASSUME NEW a, Whole(a), NEW p \in PagesOf(a), NEW f \in Frames
  PROVE  LET b == Filled(a, p, f)
         IN /\ Whole(b) /\ PagesOf(b) = PagesOf(a) /\ b.flags = a.flags /\ b.back = a.back
            /\ \A q \in PagesOf(a) : FrameAt(b, q) = IF q = p THEN f ELSE FrameAt(a, q)
            /\ \A q \in PagesOf(a) : FilePage(b, q) = FilePage(a, q)
<1> DEFINE k == p - PageId(a.start) + 1
           b == Filled(a, p, f)
           s == PageId(a.start)
<1>1. /\ a \in Area /\ a.frames \in Seq(Frames \cup {NoFrame})
      /\ k \in 1..Len(a.frames) /\ s \in Nat /\ k = p - s + 1 /\ p \in Nat
  BY Extent, Slot DEF Whole
<1>0. b = [a EXCEPT !.frames[k] = f]
  BY DEF Filled
<1> HIDE DEF k, s
<1> HIDE DEF b
<1>2. /\ b.start = a.start /\ b.end = a.end /\ b.flags = a.flags /\ b.back = a.back
      /\ b.frames = [a.frames EXCEPT ![k] = f]
  BY <1>0, <1>1 DEF Area
<1>3. b.frames \in Seq(Frames \cup {NoFrame}) /\ Len(b.frames) = Len(a.frames)
  BY <1>1, <1>2
<1>4. b \in Area
  BY <1>0, <1>1, <1>2, <1>3 DEF Area
<1>5. Whole(b)
  BY <1>2, <1>3, <1>4 DEF Whole, Fits
<1>6. PagesOf(b) = PagesOf(a)
  BY <1>2 DEF PagesOf
<1>7. ASSUME NEW q \in PagesOf(a)
      PROVE  FrameAt(b, q) = IF q = p THEN f ELSE FrameAt(a, q)
  <2>1. q \in Nat /\ q - s + 1 \in 1..Len(a.frames)
    BY Slot DEF s
  <2>2. FrameAt(b, q) = b.frames[q - s + 1] /\ FrameAt(a, q) = a.frames[q - s + 1]
    BY <1>2 DEF FrameAt, s
  <2>3. q - s + 1 = k <=> q = p
    BY <1>1, <2>1
  <2> QED BY <1>1, <1>2, <2>1, <2>2, <2>3
<1>8. \A q \in PagesOf(a) : FilePage(b, q) = FilePage(a, q)
  BY <1>2 DEF FilePage
<1> QED BY <1>2, <1>5, <1>6, <1>7, <1>8 DEF b

\* A fault gives a frame to one page.
LEMMA BringSound ==
  ASSUME IInv, NEW s \in Spaces, NEW a \in areas[s], NEW p \in PagesOf(a), Bring(s, a, p)
  PROVE  Sound' /\ mem' \in [Frames -> Data]
<1>1. /\ areas \in [Spaces -> SUBSET Area] /\ Owned(areas) /\ Agree(areas, pt)
      /\ pt \in [Spaces -> [Pages -> Entry \cup {NoEntry}]] /\ mem \in [Frames -> Data]
      /\ disk \in [0..(FileLen - 1) -> Data] /\ AllWhole
      /\ Whole(a) /\ p \in Pages
  BY OwnedIs, AgreeIs, Slot DEF IInv, TypeOK, AllWhole
<1>2. PICK f \in Free :
        /\ areas' = [areas EXCEPT ![s] = (@ \ {a}) \cup {Filled(a, p, f)}]
        /\ mem' = [mem EXCEPT ![f] =
             IF Linked(a, "r") THEN disk[FilePage(a, p)] ELSE Zero]
        /\ pt' = [pt EXCEPT ![s][p] = [frame |-> f, flags |-> a.flags]]
  BY DEF Bring, Filled
<1> DEFINE b == Filled(a, p, f)
           B == (areas[s] \ {a}) \cup {b}
<1>3. f \in Frames
  BY FreeUnused
<1>4. /\ Whole(b) /\ PagesOf(b) = PagesOf(a) /\ b.flags = a.flags /\ b.back = a.back
      /\ \A q \in PagesOf(a) : FrameAt(b, q) = IF q = p THEN f ELSE FrameAt(a, q)
      /\ \A q \in PagesOf(a) : FilePage(b, q) = FilePage(a, q)
  BY <1>1, <1>3, FilledShows
<1> HIDE DEF b
<1>5. areas' = [areas EXCEPT ![s] = B] /\ areas'[s] = B
      /\ \A t \in Spaces : t # s => areas'[t] = areas[t]
  BY <1>1, <1>2 DEF b
<1>6. areas' \in [Spaces -> SUBSET Area] /\ AllWhole'
  <2>1. \A x \in B : Whole(x)
    BY <1>1, <1>4 DEF AllWhole
  <2> HIDE DEF B
  <2>2. AllWhole'
    BY <1>1, <1>5, <2>1 DEF AllWhole
  <2> QED BY <1>1, <1>5, <2>1, <2>2 DEF Whole
<1>7. \A t \in Spaces : Disjoint(areas'[t])
  BY <1>1, <1>4, <1>5 DEF Owned, Disjoint
<1>8. ASSUME NEW t \in Spaces, NEW q, NEW g, Has(areas'[t], q, g)
      PROVE  Has(areas[t], q, g) \/ (t = s /\ q = p /\ g = f)
  <2>1. CASE t # s
    BY <2>1, <1>5, <1>8
  <2>2. CASE t = s
    <3>1. PICK x \in B : q \in Touched(x) /\ FrameAt(x, q) = g
      BY <2>2, <1>5, <1>8 DEF Has
    <3>2. CASE x \in areas[s]
      BY <2>2, <3>1, <3>2 DEF Has
    <3>3. CASE x = b
      <4>1. q \in PagesOf(a) /\ g # NoFrame
            /\ g = IF q = p THEN f ELSE FrameAt(a, q)
        BY <3>1, <3>3, <1>4 DEF Touched
      <4> QED BY <2>2, <4>1 DEF Has, Touched
    <3> QED BY <3>1, <3>2, <3>3
  <2> QED BY <2>1, <2>2
<1>9. \A t \in Spaces : \A q : ~ Has(areas[t], q, f)
  BY FreeUnused
<1>10. Owned(areas')
  <2>1. ASSUME NEW t \in Spaces, NEW u \in Spaces, NEW q, NEW r, NEW g,
               Has(areas'[t], q, g), Has(areas'[u], r, g)
        PROVE  t = u /\ q = r
    <3>1. Has(areas[t], q, g) \/ (t = s /\ q = p /\ g = f)
      BY <2>1, <1>8
    <3>2. Has(areas[u], r, g) \/ (u = s /\ r = p /\ g = f)
      BY <2>1, <1>8
    <3> QED BY <3>1, <3>2, <1>1, <1>9 DEF Owned
  <2> QED BY <2>1, <1>7 DEF Owned
<1>11. OneOwner'
  BY <1>10, <1>7 DEF OneOwner, Owned, Disjoint, Has, Touched
<1>12. ASSUME NEW q \in Pages
       PROVE  EntryOf(B, q) = IF q = p THEN [frame |-> f, flags |-> a.flags]
                              ELSE EntryOf(areas[s], q)
  <2>0. Disjoint(B) /\ Disjoint(areas[s]) /\ f # NoFrame
    BY <1>1, <1>3, <1>5, <1>7, NamesAssumption DEF Owned
  <2>1. CASE q \in PagesOf(a)
    <3>1. EntryOf(B, q) = IF FrameAt(b, q) = NoFrame THEN NoEntry
                          ELSE [frame |-> FrameAt(b, q), flags |-> b.flags]
      BY <2>0, <2>1, <1>4, Found
    <3>2. EntryOf(areas[s], q) = IF FrameAt(a, q) = NoFrame THEN NoEntry
                          ELSE [frame |-> FrameAt(a, q), flags |-> a.flags]
      BY <2>0, <2>1, Found
    <3> QED BY <2>0, <2>1, <3>1, <3>2, <1>4
  <2>2. CASE \E x \in areas[s] : x # a /\ q \in PagesOf(x)
    <3>1. PICK x \in areas[s] : x # a /\ q \in PagesOf(x)
      BY <2>2
    <3>2. EntryOf(B, q) = EntryOf(areas[s], q)
      <4>1. x \in B
        BY <3>1
      <4> HIDE DEF B
      <4> QED BY <2>0, <3>1, <4>1, Found
    <3>3. q # p
      BY <2>0, <3>1 DEF Disjoint
    <3> QED BY <3>2, <3>3
  <2>3. CASE \A x \in areas[s] : q \notin PagesOf(x)
    <3>1. q \notin Used(areas[s]) /\ q \notin Used(B) /\ q # p
      BY <2>3, <1>4 DEF Used, Touched
    <3> QED BY <3>1 DEF EntryOf
  <2> QED BY <2>1, <2>2, <2>3
<1> DEFINE T == [pt[s] EXCEPT ![p] = [frame |-> f, flags |-> a.flags]]
<1>13. pt' = [pt EXCEPT ![s] = T] /\ T = [q \in Pages |-> T[q]]
  BY <1>1, <1>2
<1>14. \A q \in Pages : T[q] = EntryOf(B, q)
  BY <1>1, <1>12 DEF Agree
<1> HIDE DEF B, T
<1>15. TablesAgree' /\ pt' \in [Spaces -> [Pages -> Entry \cup {NoEntry}]]
  BY <1>5, <1>6, <1>11, <1>13, <1>14, TableStep
<1>16. mem' \in [Frames -> Data]
  <2>1. Linked(a, "r") => disk[FilePage(a, p)] \in Data
    BY <1>1, Shows DEF Linked
  <2> QED BY <1>1, <1>2, <1>3, <2>1, SizesAssumption
<1> QED BY <1>6, <1>11, <1>15, <1>16 DEF Sound
\* An area as a fork copies it, c giving a new frame for each one in use.
Forked(a, c) ==
  [a EXCEPT !.frames = [i \in DOMAIN a.frames |->
     IF a.frames[i] = NoFrame THEN NoFrame ELSE c[a.frames[i]]]]

\* The copy shows the same pages with other frames.
LEMMA ForkedShows ==
  ASSUME NEW a, Whole(a), NEW M, NEW c \in [M -> Frames],
         \A p \in Touched(a) : FrameAt(a, p) \in M
  PROVE  LET b == Forked(a, c)
         IN /\ Whole(b) /\ PagesOf(b) = PagesOf(a) /\ b.flags = a.flags /\ b.back = a.back
            /\ \A p \in PagesOf(a) :
                 FrameAt(b, p) = IF FrameAt(a, p) = NoFrame THEN NoFrame
                                 ELSE c[FrameAt(a, p)]
            /\ \A p \in PagesOf(a) : FilePage(b, p) = FilePage(a, p)
<1> DEFINE b == Forked(a, c)  n == Len(a.frames)  s == PageId(a.start)  e == PageId(a.end)
<1>1. /\ a \in Area /\ n \in Nat /\ DOMAIN a.frames = 1..n /\ s \in Nat /\ e \in Nat
      /\ a.frames \in Seq(Frames \cup {NoFrame}) /\ n = e - s
      /\ PagesOf(a) = s..(e - 1)
  BY Extent DEF Whole, PagesOf
<1>2. b = [a EXCEPT !.frames = [i \in 1..n |->
             IF a.frames[i] = NoFrame THEN NoFrame ELSE c[a.frames[i]]]]
  BY <1>1 DEF Forked
<1> HIDE DEF b, n, s, e
<1>3. /\ b.start = a.start /\ b.end = a.end /\ b.flags = a.flags /\ b.back = a.back
      /\ b.frames = [i \in 1..n |->
           IF a.frames[i] = NoFrame THEN NoFrame ELSE c[a.frames[i]]]
  BY <1>1, <1>2 DEF Area
<1>4. ASSUME NEW i \in 1..n, a.frames[i] # NoFrame
      PROVE  a.frames[i] \in M
  <2> DEFINE p == i + s - 1
  <2>1. p \in PagesOf(a) /\ p - s + 1 = i
    BY <1>1
  <2>2. FrameAt(a, p) = a.frames[i]
    BY <2>1 DEF FrameAt, s
  <2> HIDE DEF p
  <2> QED BY <1>4, <2>1, <2>2 DEF Touched
<1>5. b.frames \in Seq(Frames \cup {NoFrame}) /\ Len(b.frames) = n
  <2>1. b.frames \in [1..n -> Frames \cup {NoFrame}]
    BY <1>3, <1>4
  <2> QED BY <1>1, <2>1
<1>6. b \in Area
  BY <1>1, <1>2, <1>3, <1>5 DEF Area
<1>7. Whole(b)
  BY <1>3, <1>5, <1>6 DEF Whole, Fits, n
<1>8. PagesOf(b) = PagesOf(a)
  BY <1>3 DEF PagesOf
<1>9. ASSUME NEW p \in PagesOf(a)
      PROVE  FrameAt(b, p) = IF FrameAt(a, p) = NoFrame THEN NoFrame
                             ELSE c[FrameAt(a, p)]
  <2>1. p - s + 1 \in 1..n
    BY Slot DEF n, s
  <2>2. FrameAt(b, p) = b.frames[p - s + 1] /\ FrameAt(a, p) = a.frames[p - s + 1]
    BY <1>3 DEF FrameAt, s
  <2> QED BY <2>1, <2>2, <1>3
<1>10. \A p \in PagesOf(a) : FilePage(b, p) = FilePage(a, p)
  BY <1>3 DEF FilePage
<1> QED BY <1>3, <1>7, <1>8, <1>9, <1>10 DEF b

\* fork
LEMMA ForkSound ==
  ASSUME IInv, NEW s \in Spaces, NEW t \in Spaces, Fork(s, t)
  PROVE  Sound' /\ mem' \in [Frames -> Data]
<1> DEFINE mine == {FrameOf(s, p) : p \in Resident(s)}
<1>1. /\ areas \in [Spaces -> SUBSET Area] /\ Owned(areas) /\ Agree(areas, pt)
      /\ pt \in [Spaces -> [Pages -> Entry \cup {NoEntry}]] /\ mem \in [Frames -> Data]
      /\ AllWhole /\ areas[t] = {} /\ s # t
  BY OwnedIs, AgreeIs DEF IInv, TypeOK, DeadEmpty, Fork
<1>2. PICK copy \in {c \in [mine -> Free] : \A f, g \in mine : c[f] = c[g] => f = g} :
        /\ areas' = [areas EXCEPT ![t] = {Forked(a, copy) : a \in areas[s]}]
        /\ pt' = [pt EXCEPT ![t] = [p \in Pages |->
             IF p \in Resident(s)
               THEN [frame |-> copy[FrameOf(s, p)], flags |-> AreaOf(s, p).flags]
               ELSE NoEntry]]
        /\ mem' = [f \in Frames |->
             IF \E g \in mine : copy[g] = f
               THEN mem[CHOOSE g \in mine : copy[g] = f] ELSE mem[f]]
  BY DEF Fork, Forked
<1> DEFINE B == {Forked(a, copy) : a \in areas[s]}
<1>3. mine \subseteq Frames /\ copy \in [mine -> Frames] /\ copy \in [mine -> Free]
      /\ \A f, g \in mine : copy[f] = copy[g] => f = g
  BY Residents, FreeUnused
<1>4. ASSUME NEW a \in areas[s], NEW p \in Touched(a)
      PROVE  /\ FrameAt(a, p) \in mine /\ p \in Resident(s) /\ AreaOf(s, p) = a
             /\ FrameOf(s, p) = FrameAt(a, p)
  <2>1. p \in Resident(s) /\ p \in PagesOf(a)
    BY DEF Resident, Touched
  <2>2. AreaOf(s, p) = a
    BY <1>1, <2>1, Found DEF Owned, AreaOf, At
  <2> QED BY <2>1, <2>2 DEF FrameOf
<1> HIDE DEF mine
<1>5. ASSUME NEW a \in areas[s]
      PROVE  /\ Whole(Forked(a, copy)) /\ PagesOf(Forked(a, copy)) = PagesOf(a)
             /\ Forked(a, copy).flags = a.flags
             /\ \A p \in PagesOf(a) : FrameAt(Forked(a, copy), p) =
                  IF FrameAt(a, p) = NoFrame THEN NoFrame ELSE copy[FrameAt(a, p)]
  <2>1. Whole(a)
    BY <1>1 DEF AllWhole
  <2> QED BY <2>1, <1>3, <1>4, ForkedShows
<1>6. /\ areas' = [areas EXCEPT ![t] = B] /\ areas'[t] = B
      /\ \A u \in Spaces : u # t => areas'[u] = areas[u]
  BY <1>1, <1>2
<1>7. \A b \in B : \E a \in areas[s] : b = Forked(a, copy)
  OBVIOUS
<1>8. \A a \in areas[s] : Forked(a, copy) \in B
  OBVIOUS
<1> HIDE DEF B
<1>9. areas' \in [Spaces -> SUBSET Area] /\ AllWhole'
  <2>1. \A b \in B : Whole(b)
    BY <1>5, <1>7
  <2>2. AllWhole'
    BY <1>1, <1>6, <2>1 DEF AllWhole
  <2> QED BY <1>1, <1>6, <2>1, <2>2 DEF Whole
<1>10. Disjoint(B)
  <2> SUFFICES ASSUME NEW b \in B, NEW c \in B, b # c
               PROVE  PagesOf(b) \cap PagesOf(c) = {}
    BY DEF Disjoint
  <2>1. PICK x \in areas[s] : b = Forked(x, copy)
    BY <1>7
  <2>2. PICK y \in areas[s] : c = Forked(y, copy)
    BY <1>7
  <2>3. x # y
    BY <2>1, <2>2
  <2>4. PagesOf(b) = PagesOf(x) /\ PagesOf(c) = PagesOf(y)
    BY <2>1, <2>2, <1>5
  <2> QED BY <2>3, <2>4, <1>1 DEF Owned, Disjoint
<1>11. \A u \in Spaces : Disjoint(areas'[u])
  BY <1>1, <1>6, <1>10 DEF Owned
<1>12. ASSUME NEW p, NEW f, Has(B, p, f)
       PROVE  \E g \in mine : Has(areas[s], p, g) /\ f = copy[g] /\ f \in Free
  <2>1. PICK b \in B : p \in Touched(b) /\ FrameAt(b, p) = f
    BY <1>12 DEF Has
  <2>2. PICK a \in areas[s] : b = Forked(a, copy)
    BY <1>7
  <2>3. p \in PagesOf(a) /\ FrameAt(a, p) # NoFrame /\ f = copy[FrameAt(a, p)]
    BY <2>1, <2>2, <1>5 DEF Touched
  <2>4. p \in Touched(a) /\ FrameAt(a, p) \in mine
    BY <2>3, <1>4 DEF Touched
  <2> QED BY <2>3, <2>4, <1>3 DEF Has
<1>13. Owned(areas')
  <2>1. ASSUME NEW u \in Spaces, NEW v \in Spaces, NEW p, NEW q, NEW f,
               Has(areas'[u], p, f), Has(areas'[v], q, f)
        PROVE  u = v /\ p = q
    <3>1. CASE u # t /\ v # t
      BY <2>1, <3>1, <1>1, <1>6 DEF Owned
    <3>2. CASE u = t /\ v = t
      <4>1. PICK g \in mine : Has(areas[s], p, g) /\ f = copy[g]
        BY <2>1, <3>2, <1>6, <1>12
      <4>2. PICK h \in mine : Has(areas[s], q, h) /\ f = copy[h]
        BY <2>1, <3>2, <1>6, <1>12
      <4>3. g = h
        BY <4>1, <4>2, <1>3
      <4> QED BY <4>1, <4>2, <4>3, <3>2, <1>1 DEF Owned
    <3>3. CASE u = t /\ v # t
      BY <2>1, <3>3, <1>6, <1>12, FreeUnused
    <3>4. CASE u # t /\ v = t
      BY <2>1, <3>4, <1>6, <1>12, FreeUnused
    <3> QED BY <3>1, <3>2, <3>3, <3>4
  <2> QED BY <2>1, <1>11 DEF Owned
<1>14. OneOwner'
  BY <1>13, <1>11 DEF OneOwner, Owned, Disjoint, Has, Touched
<1> DEFINE T == [p \in Pages |->
             IF p \in Resident(s)
               THEN [frame |-> copy[FrameOf(s, p)], flags |-> AreaOf(s, p).flags]
               ELSE NoEntry]
<1>15. ASSUME NEW p \in Pages PROVE T[p] = EntryOf(B, p)
  <2>1. CASE p \in Resident(s)
    <3>1. PICK a \in areas[s] : p \in Touched(a)
      BY <2>1 DEF Resident
    <3>2. T[p] = [frame |-> copy[FrameAt(a, p)], flags |-> a.flags]
      BY <2>1, <3>1, <1>4
    <3>3. /\ p \in PagesOf(a) /\ FrameAt(a, p) # NoFrame /\ copy[FrameAt(a, p)] \in Frames
      BY <3>1, <1>3, <1>4 DEF Touched
    <3>4. /\ p \in PagesOf(Forked(a, copy)) /\ Forked(a, copy).flags = a.flags
          /\ FrameAt(Forked(a, copy), p) = copy[FrameAt(a, p)]
          /\ FrameAt(Forked(a, copy), p) # NoFrame
      BY <3>3, <1>5, NamesAssumption
    <3> HIDE DEF T
    <3> QED BY <3>2, <3>4, <1>8, <1>10, Found
  <2>2. CASE p \notin Resident(s)
    <3>1. p \notin Used(B)
      <4> SUFFICES ASSUME NEW b \in B, p \in Touched(b) PROVE FALSE
        BY DEF Used
      <4>1. Has(B, p, FrameAt(b, p))
        BY DEF Has
      <4>2. PICK g : Has(areas[s], p, g)
        BY <4>1, <1>12
      <4> QED BY <4>2, <2>2 DEF Has, Resident
    <3> QED BY <2>2, <3>1 DEF EntryOf
  <2> QED BY <2>1, <2>2
<1>16. pt' = [pt EXCEPT ![t] = T] /\ T = [p \in Pages |-> T[p]]
  BY <1>2
<1> HIDE DEF T
<1>17. TablesAgree' /\ pt' \in [Spaces -> [Pages -> Entry \cup {NoEntry}]]
  <2>1. \A p \in Pages : T[p] = EntryOf(B, p)
    BY <1>15
  <2>2. areas' = [areas EXCEPT ![t] = B]
    BY <1>6
  <2> QED BY ONLY IInv, t \in Spaces, <2>1, <2>2, <1>9, <1>14, <1>16, TableStep
<1>18. mem' \in [Frames -> Data]
  <2>1. \A f \in Frames : (\E g \in mine : copy[g] = f) =>
          mem[CHOOSE g \in mine : copy[g] = f] \in Data
    BY <1>1, <1>3
  <2> QED BY <1>1, <1>2, <2>1
<1> QED BY <1>9, <1>14, <1>17, <1>18 DEF Sound
\* An area that contains the address of a page has the page.
LEMMA Inside ==
  ASSUME NEW a, Whole(a), NEW p \in Pages, Contains(a, PageAddr(p))
  PROVE  p \in PagesOf(a)
<1>1. /\ a.start = 2 * PageId(a.start) /\ a.end = 2 * PageId(a.end)
      /\ PageId(a.start) \in Nat /\ PageId(a.end) \in Nat
  BY Extent
<1>2. p \in Nat /\ PageAddr(p) = 2 * p
  BY Addressed DEF Pages
<1> DEFINE i == PageId(a.start)  j == PageId(a.end)
<1>3. 2 * i <= 2 * p /\ 2 * p < 2 * j
  BY <1>1, <1>2 DEF Contains
<1> HIDE DEF i, j
<1>4. i \in Nat /\ j \in Nat
  BY <1>1 DEF i, j
<1>5. p \in i..(j - 1)
  BY ONLY <1>2, <1>3, <1>4
<1> QED BY <1>5 DEF PagesOf, i, j

-----------------------------------------------------------------------------
(* The invariant.                                                          *)

\* It holds at first.
LEMMA InitInv == ASSUME Init PROVE IInv
<1>1. areas = [s \in Spaces |-> {}] /\ pt = [s \in Spaces |-> NoEntries]
  BY DEF Init
<1>2. TypeOK
  BY <1>1, SizesAssumption DEF Init, TypeOK, NoEntries
<1>3. AllWhole /\ OneOwner /\ DeadEmpty
  BY <1>1 DEF AllWhole, OneOwner, DeadEmpty
<1>4. TablesAgree
  BY <1>1 DEF TablesAgree, Resident, NoEntries
<1> QED BY <1>2, <1>3, <1>4 DEF IInv

\* Every step keeps it.
LEMMA NextInv ==
  ASSUME WholePages, IInv, [Next]_vars
  PROVE  IInv'
<1>1. live \subseteq Spaces /\ areas \in [Spaces -> SUBSET Area]
      /\ mem \in [Frames -> Data] /\ disk \in [0..(FileLen - 1) -> Data]
      /\ DeadEmpty
  BY DEF IInv, TypeOK
<1> DEFINE Rest == /\ live' \subseteq Spaces /\ mem' \in [Frames -> Data]
                   /\ disk' \in [0..(FileLen - 1) -> Data] /\ DeadEmpty'
<1>2. ASSUME Sound', Rest PROVE IInv'
  BY <1>2 DEF Sound, IInv, TypeOK
<1>3. ASSUME NEW s \in Spaces, NEW start \in Starts, NEW len \in CutLens,
             Munmap(s, start, len)
      PROVE  IInv'
  <2>1. Rest
    BY <1>1, <1>3, WrittenTyped DEF Munmap, DeadEmpty
  <2> QED BY <1>2, <1>3, <2>1, MunmapSound
<1>4. ASSUME NEW s \in Spaces, NEW start \in Starts, NEW len \in ProtLens,
             NEW prot \in Prots, Mprotect(s, start, len, prot)
      PROVE  IInv'
  <2>1. Rest
    BY <1>1, <1>4 DEF Mprotect, DeadEmpty
  <2> QED BY <1>2, <1>4, <2>1, MprotectSound
<1>5. ASSUME NEW s \in Spaces, NEW start \in Starts, NEW len \in CutLens,
             Msync(s, start, len)
      PROVE  IInv'
  <2>1. disk' \in [0..(FileLen - 1) -> Data]
    BY <1>5, WrittenTyped DEF Msync
  <2>2. UNCHANGED <<live, areas, pt, mem>>
    BY <1>5 DEF Msync
  <2> QED BY <2>1, <2>2 DEF IInv, TypeOK, AllWhole, OneOwner, TablesAgree, DeadEmpty,
                            Resident, FrameOf, AreaOf
<1>6. ASSUME NEW s \in Spaces, NEW start \in Starts, NEW len \in MapLens,
             NEW prot \in Prots, NEW fixed \in BOOLEAN, NEW file \in Offsets \cup {NoFile},
             Mmap(s, start, len, prot, fixed, file)
      PROVE  IInv'
  <2>1. Rest
    BY <1>1, <1>6, WrittenTyped DEF Mmap, MmapFixed, MmapAnywhere, DeadEmpty
  <2> QED BY <1>2, <1>6, <2>1, MmapSound
<1>7. ASSUME NEW s \in Spaces, NEW p \in Pages, NEW d \in Data, Store(s, p, d)
      PROVE  IInv'
  <2>1. mem' \in [Frames -> Data] /\ UNCHANGED <<live, areas, pt, disk>>
    BY <1>1, <1>7 DEF Store
  <2> QED BY <2>1 DEF IInv, TypeOK, AllWhole, OneOwner, TablesAgree, DeadEmpty,
                      Resident, FrameOf, AreaOf
<1>8. ASSUME NEW s \in Spaces, NEW p \in Pages, s \in live, NEW a \in areas[s],
             Contains(a, PageAddr(p)), Bring(s, a, p)
      PROVE  IInv'
  <2>1. p \in PagesOf(a)
    BY <1>8, Inside DEF IInv, AllWhole
  <2>2. Sound' /\ mem' \in [Frames -> Data]
    BY <1>8, <2>1, BringSound
  <2>3. Rest
    BY <1>1, <1>8, <2>2 DEF Bring, DeadEmpty
  <2> QED BY <1>2, <2>2, <2>3
<1>9. ASSUME NEW s \in Spaces, NEW t \in Spaces, Fork(s, t) PROVE IInv'
  <2>1. Sound' /\ mem' \in [Frames -> Data]
    BY <1>9, ForkSound
  <2>2. Rest
    <3>1. live' = live \cup {t} /\ disk' = disk
          /\ \A u \in Spaces : u # t => areas'[u] = areas[u]
      BY <1>1, <1>9 DEF Fork
    <3> QED BY <1>1, <2>1, <3>1 DEF DeadEmpty
  <2> QED BY <1>2, <2>1, <2>2
<1>10. ASSUME NEW s \in Spaces, Exit(s) PROVE IInv'
  <2>1. Rest
    BY <1>1, <1>10, WrittenTyped DEF Exit, DeadEmpty
  <2> QED BY <1>2, <1>10, <2>1, ExitSound
<1>11. ASSUME UNCHANGED vars PROVE IInv'
  BY <1>11 DEF IInv, TypeOK, AllWhole, OneOwner, TablesAgree, DeadEmpty,
               Resident, FrameOf, AreaOf, vars
<1>12. ASSUME NEW s \in Spaces, NEW p \in Pages,
              ManuallyAllocPage(s, p) \/ \E k \in Rights : PageFault(s, p, k)
       PROVE  IInv'
  BY <1>8, <1>12 DEF ManuallyAllocPage, PageFault
<1> QED BY <1>3, <1>4, <1>5, <1>6, <1>7, <1>9, <1>10, <1>11, <1>12 DEF Next

\* The invariant holds while callers of munmap and mprotect pass whole pages.
THEOREM Inductive ==
  ASSUME WholePages PROVE Spec => []IInv
<1>1. Init => IInv
  BY InitInv
<1>2. IInv /\ [Next]_vars => IInv'
  BY NextInv
<1> QED BY <1>1, <1>2, PTL DEF Spec

\* The variables have their types.
THEOREM Typing ==
  ASSUME WholePages PROVE Spec => []TypeOK
<1>1. IInv => TypeOK
  BY DEF IInv
<1> QED BY <1>1, Inductive, PTL

\* Areas begin and end on page borders with a slot for each page, whatever was
\* cut off them.
THEOREM StayWhole ==
  ASSUME WholePages PROVE Spec => []AreasWhole
<1>1. IInv => AreasWhole
  BY DEF IInv, AllWhole, Whole, AreasWhole
<1> QED BY <1>1, Inductive, PTL

\* No page is in two areas and no frame behind two pages, in one space or two.
THEOREM Ownership ==
  ASSUME WholePages PROVE Spec => []OneOwner
<1>1. IInv => OneOwner
  BY DEF IInv
<1> QED BY <1>1, Inductive, PTL

\* The page table has what the areas say, and nothing else.
THEOREM Agreement ==
  ASSUME WholePages PROVE Spec => []TablesAgree
<1>1. IInv => TablesAgree
  BY DEF IInv
<1> QED BY <1>1, Inductive, PTL
-----------------------------------------------------------------------------
(* What the pages show.                                                    *)

\* PageView, for any areas A and memory m.
Shown(a, m, p) ==
  [flags |-> a.flags,
   back |-> IF a.back = NoFile THEN NoFile
            ELSE [page |-> FilePage(a, p), sync |-> a.back.sync],
   held |-> IF FrameAt(a, p) = NoFrame THEN Untouched ELSE m[FrameAt(a, p)]]
ViewOf(A, m, p) ==
  LET here == {a \in A : p \in PagesOf(a)}
  IN IF here = {} THEN Unmapped ELSE Shown(CHOOSE a \in here : TRUE, m, p)
ViewsOf(spaces, m) == [s \in Spaces |-> [p \in Pages |-> ViewOf(spaces[s], m, p)]]
Views == ViewsOf(areas, mem)

\* What the mapping of Areas to PageMap takes for view.
LEMMA ViewsAre == Views = [s \in Spaces |-> [p \in Pages |-> PageView(s, p)]]
BY DEF Views, ViewsOf, ViewOf, Shown, PageView

LEMMA ViewsAreNext == Views' = [s \in Spaces |-> [p \in Pages |-> PageView(s, p)]]'
BY DEF Views, ViewsOf, ViewOf, Shown, PageView

\* A page shows what its area says.
LEMMA Seen ==
  ASSUME NEW A, Disjoint(A), NEW a \in A, NEW p \in PagesOf(a), NEW m
  PROVE  ViewOf(A, m, p) = Shown(a, m, p)
<1>1. {x \in A : p \in PagesOf(x)} = {a}
  BY DEF Disjoint
<1> QED BY <1>1 DEF ViewOf

\* A page in no area shows nothing.
LEMMA Unseen ==
  ASSUME NEW A, NEW p, \A a \in A : p \notin PagesOf(a), NEW m
  PROVE  ViewOf(A, m, p) = Unmapped
BY DEF ViewOf

\* What is shown of a page in an area.
LEMMA ShownIs ==
  ASSUME NEW a, Whole(a), NEW p \in PagesOf(a), NEW m \in [Frames -> Data]
  PROVE  /\ Shown(a, m, p) # Unmapped
         /\ Shown(a, m, p).held = Untouched <=> p \notin Touched(a)
         /\ p \in Touched(a) => Shown(a, m, p).held = m[FrameAt(a, p)]
         /\ Shown(a, m, p).back = NoFile <=> a.back = NoFile
         /\ Shown(a, m, p).flags = a.flags
         /\ a.back # NoFile => Shown(a, m, p).back = [page |-> FilePage(a, p), sync |-> a.back.sync]
<1> DEFINE v == Shown(a, m, p)
<1>1. FrameAt(a, p) \in Frames \cup {NoFrame}
  BY Slot
<1>2. v.held = (IF FrameAt(a, p) = NoFrame THEN Untouched ELSE m[FrameAt(a, p)])
      /\ v.flags = a.flags
  BY DEF Shown
<1>3. v.held \in Data \cup {Untouched}
      /\ (v.held = Untouched <=> FrameAt(a, p) = NoFrame)
  BY <1>1, <1>2, NamesAssumption
<1>4. v.back = IF a.back = NoFile THEN NoFile
               ELSE [page |-> FilePage(a, p), sync |-> a.back.sync]
  BY DEF Shown
<1>5. a.back # NoFile => [page |-> FilePage(a, p), sync |-> a.back.sync]
                           \in [page : Nat, sync : SUBSET {"r", "w"}]
  BY Shows
<1>6. v.back = NoFile <=> a.back = NoFile
  BY <1>4, <1>5, NamesAssumption
<1>7. v # Unmapped
  <2>1. v = [flags |-> v.flags, back |-> v.back, held |-> v.held]
    BY DEF Shown
  <2>2. v.flags \in SUBSET Rights
    BY <1>2 DEF Whole, Area
  <2>3. v.back \in [page : Nat, sync : SUBSET {"r", "w"}] \cup {NoFile}
    BY <1>4, <1>5
  <2> HIDE DEF v
  <2> QED BY <2>1, <2>2, <2>3, <1>3, NamesAssumption
<1> QED BY <1>2, <1>3, <1>4, <1>6, <1>7 DEF Touched

\* Views after the areas of one space changed.
LEMMA ViewsChange ==
  ASSUME areas \in [Spaces -> SUBSET Area], NEW s \in Spaces, NEW B,
         areas' = [areas EXCEPT ![s] = B], mem' = mem
  PROVE  Views' = [Views EXCEPT ![s] = [p \in Pages |-> ViewOf(B, mem, p)]]
<1>1. areas'[s] = B /\ \A t \in Spaces : t # s => areas'[t] = areas[t]
  OBVIOUS
<1> QED BY <1>1 DEF Views, ViewsOf

\* Recutting changes what is shown in G and R only.
LEMMA RecutViews ==
  ASSUME NEW A, NEW B, NEW G, NEW R, NEW prot, Recut(A, B, G, R, prot), Disjoint(A),
         NEW p, p \notin G, NEW m
  PROVE  ViewOf(B, m, p) =
           IF \A a \in A : p \notin PagesOf(a) THEN Unmapped
           ELSE IF p \in R THEN [ViewOf(A, m, p) EXCEPT !.flags = prot]
           ELSE ViewOf(A, m, p)
<1>1. CASE \A a \in A : p \notin PagesOf(a)
  <2>1. \A b \in B : p \notin PagesOf(b)
    BY <1>1 DEF Recut, PartOf
  <2> QED BY <1>1, <2>1, Unseen
<1>2. CASE \E a \in A : p \in PagesOf(a)
  <2>1. PICK a \in A : p \in PagesOf(a)
    BY <1>2
  <2>2. PICK b \in B : /\ p \in PagesOf(b) /\ PartOf(b, a)
                       /\ b.flags = IF p \in R THEN prot ELSE a.flags
    BY <2>1, RecutKeeps
  <2>3. ViewOf(A, m, p) = Shown(a, m, p) /\ ViewOf(B, m, p) = Shown(b, m, p)
    BY <2>1, <2>2, Seen DEF Recut
  <2>4. /\ FrameAt(b, p) = FrameAt(a, p) /\ (b.back = NoFile <=> a.back = NoFile)
        /\ a.back # NoFile => b.back.sync = a.back.sync /\ FilePage(b, p) = FilePage(a, p)
    BY <2>2 DEF PartOf
  <2>5. Shown(b, m, p) = [Shown(a, m, p) EXCEPT !.flags = b.flags]
    BY <2>4 DEF Shown
  <2>6. [Shown(a, m, p) EXCEPT !.flags = a.flags] = Shown(a, m, p)
    BY DEF Shown
  <2> QED BY <2>1, <2>2, <2>3, <2>5, <2>6
<1> QED BY <1>1, <1>2
\* The pages of a walk follow each other.
LEMMA WalkIs ==
  ASSUME NEW start \in Nat, NEW end \in Nat, start % PageSize = 0, end % PageSize = 0
  PROVE  \/ Walk(start, end) = {}
         \/ \E i \in Pages : \E j \in i..(PageId(Limit) - 1) : Walk(start, end) = i..j
<1> DEFINE f == PageId(start)  t == PageId(end)  n == PageId(Limit) - 1
           i == IF f < 1 THEN 1 ELSE f
           j == IF t - 1 < n THEN t - 1 ELSE n
<1>1. f \in Nat /\ t \in Nat
  BY Halved
<1>2. n \in Int
  BY SizesAssumption DEF PageId, PageSize
<1>3. Walk(start, end) = {p \in 1..n : f <= p /\ p < t}
  BY Walked DEF Pages
<1> HIDE DEF f, t, n
<1>4. i \in Int /\ j \in Int
  BY <1>1, <1>2
<1>5. \A p \in Int : p \in 1..n /\ f <= p /\ p < t <=> i <= p /\ p <= j
  BY <1>1, <1>2
<1> HIDE DEF i, j
<1>6. Walk(start, end) = i..j
  BY <1>3, <1>4, <1>5
<1>7. CASE i <= j
  <2>1. i \in 1..n /\ j \in 1..n
    BY <1>4, <1>5, <1>7
  <2>2. i \in Pages /\ j \in i..(PageId(Limit) - 1)
    BY <2>1, <1>4, <1>7 DEF Pages, n
  <2> QED BY <2>2, <1>6
<1>8. CASE ~ (i <= j)
  BY <1>4, <1>6, <1>8
<1> QED BY <1>7, <1>8

\* What the areas write back is what the pages do.
LEMMA WrittenIs ==
  ASSUME IInv, NEW s \in Spaces, NEW P \in SUBSET Pages
  PROVE  Map!WrittenBack(s, P) = Written(s, P)
<1> DEFINE Sources(o) == {p \in P \cap Resident(s) :
                 LET a == AreaOf(s, p) IN Linked(a, "w") /\ FilePage(a, p) = o}
           Dirty(o) == {p \in P : /\ Views[s][p] # Unmapped
                                  /\ Views[s][p].held # Untouched
                                  /\ Views[s][p].back # NoFile
                                  /\ Views[s][p].back.page = o
                                  /\ "w" \in Views[s][p].back.sync}
           Last(S) == CHOOSE p \in S : \A q \in S : q <= p
<1>1. /\ Disjoint(areas[s]) /\ (\A a \in areas[s] : Whole(a))
      /\ mem \in [Frames -> Data]
  BY OwnedIs DEF IInv, Owned, AllWhole, TypeOK
<1>2. Written(s, P) = [o \in DOMAIN disk |->
        IF Sources(o) = {} THEN disk[o] ELSE mem[FrameOf(s, Last(Sources(o)))]]
  BY DEF Written
<1>3. Map!WrittenBack(s, P) = [o \in DOMAIN disk |->
        IF Dirty(o) = {} THEN disk[o] ELSE Views[s][Last(Dirty(o))].held]
  BY ViewsAre DEF Map!WrittenBack, Map!Dirty
<1>4. ASSUME NEW a \in areas[s], NEW p \in P, p \in PagesOf(a)
      PROVE  /\ Views[s][p] = Shown(a, mem, p) /\ AreaOf(s, p) = a
             /\ p \in Resident(s) <=> p \in Touched(a)
  <2>1. Views[s][p] = Shown(a, mem, p)
    BY <1>1, <1>4, Seen DEF Views, ViewsOf
  <2> QED BY <2>1, <1>1, <1>4, Found DEF AreaOf, At, Resident, Used, Touched
<1>5. ASSUME NEW o, NEW p \in P
      PROVE  p \in Sources(o) <=> p \in Dirty(o)
  <2>1. CASE \A a \in areas[s] : p \notin PagesOf(a)
    <3>1. Views[s][p] = Unmapped
      BY <2>1, Unseen DEF Views, ViewsOf
    <3>2. p \notin Resident(s)
      BY <2>1 DEF Resident, Touched
    <3> QED BY <3>1, <3>2
  <2>2. CASE \E a \in areas[s] : p \in PagesOf(a)
    <3>1. PICK a \in areas[s] : p \in PagesOf(a)
      BY <2>2
    <3>2. /\ Views[s][p] = Shown(a, mem, p) /\ AreaOf(s, p) = a
          /\ p \in Resident(s) <=> p \in Touched(a)
      BY <3>1, <1>4
    <3>3. /\ Shown(a, mem, p) # Unmapped
          /\ Shown(a, mem, p).held = Untouched <=> p \notin Touched(a)
          /\ Shown(a, mem, p).back = NoFile <=> a.back = NoFile
          /\ a.back # NoFile =>
               Shown(a, mem, p).back = [page |-> FilePage(a, p), sync |-> a.back.sync]
      BY <3>1, <1>1, ShownIs
    <3> QED BY <3>2, <3>3 DEF Linked
  <2> QED BY <2>1, <2>2
<1>6. \A o : Sources(o) = Dirty(o)
  BY <1>5
<1>7. ASSUME NEW o, Sources(o) # {}
      PROVE  mem[FrameOf(s, Last(Sources(o)))] = Views[s][Last(Sources(o))].held
  <2> DEFINE p == Last(Sources(o))
  <2>1. Sources(o) \subseteq P /\ Sources(o) \subseteq Resident(s)
    OBVIOUS
  <2>2. p \in Sources(o)
    <3>1. PageId(Limit) - 1 \in Nat
      <4>1. PageId(Limit) - 1 \in Int /\ \E q \in Pages : TRUE
        BY <1>7, <2>1, SizesAssumption DEF PageId, PageSize
      <4> QED BY <4>1 DEF Pages
    <3>2. Sources(o) \in SUBSET (1..(PageId(Limit) - 1))
      BY <2>1 DEF Pages
    <3> HIDE DEF Sources
    <3> QED BY <1>7, <3>1, <3>2, Greatest
  <2> HIDE DEF p, Sources
  <2>3. p \in P /\ p \in Resident(s)
    BY <2>1, <2>2
  <2>4. PICK a \in areas[s] : p \in Touched(a)
    BY <2>3 DEF Resident
  <2>5. p \in PagesOf(a)
    BY <2>4 DEF Touched
  <2>6. Views[s][p] = Shown(a, mem, p) /\ FrameOf(s, p) = FrameAt(a, p)
    BY <2>3, <2>5, <1>4 DEF FrameOf
  <2>7. Shown(a, mem, p).held = mem[FrameAt(a, p)]
    BY <2>4, <2>5, <1>1, ShownIs
  <2> QED BY <2>6, <2>7 DEF p
<1>8. ASSUME NEW o
      PROVE  (IF Sources(o) = {} THEN disk[o] ELSE mem[FrameOf(s, Last(Sources(o)))])
               = IF Dirty(o) = {} THEN disk[o] ELSE Views[s][Last(Dirty(o))].held
  <2> DEFINE S == Sources(o)  D == Dirty(o)
  <2>1. S = D /\ (S # {} => mem[FrameOf(s, Last(S))] = Views[s][Last(S)].held)
    BY <1>6, <1>7
  <2> HIDE DEF S, D
  <2>2. (IF S = {} THEN disk[o] ELSE mem[FrameOf(s, Last(S))])
          = IF D = {} THEN disk[o] ELSE Views[s][Last(D)].held
    BY <2>1
  <2> QED BY <2>2 DEF S, D
<1> HIDE DEF Sources, Dirty
<1> QED BY <1>2, <1>3, <1>8, Zenon
-----------------------------------------------------------------------------
(* Steps of the areas are steps of the pages.                              *)

\* Pages that are taken out.
LEMMA CutImplements ==
  ASSUME IInv, NEW s \in Spaces, NEW B, NEW P \in SUBSET Pages,
         Recut(areas[s], B, P, {}, {}), \A b \in B : PagesOf(b) \cap P = {},
         areas' = [areas EXCEPT ![s] = B], mem' = mem, disk' = Written(s, P),
         \/ P = {}
         \/ \E i \in Pages : \E j \in i..(PageId(Limit) - 1) : P = i..j
  PROVE  [Map!Next]_<<Views, disk>>
<1> DEFINE V == [p \in Pages |-> IF p \in P THEN Unmapped ELSE Views[s][p]]
<1>1. Disjoint(areas[s]) /\ areas \in [Spaces -> SUBSET Area]
  BY OwnedIs DEF IInv, Owned, TypeOK
<1>2. ASSUME NEW p \in Pages PROVE ViewOf(B, mem, p) = V[p]
  <2>1. CASE p \in P
    <3>1. \A b \in B : p \notin PagesOf(b)
      BY <2>1
    <3> QED BY <2>1, <3>1, Unseen
  <2>2. CASE p \notin P
    <3>1. ViewOf(B, mem, p) =
            IF \A a \in areas[s] : p \notin PagesOf(a) THEN Unmapped
            ELSE IF p \in {} THEN [ViewOf(areas[s], mem, p) EXCEPT !.flags = {}]
            ELSE ViewOf(areas[s], mem, p)
      BY <2>2, <1>1, RecutViews
    <3>2. (\A a \in areas[s] : p \notin PagesOf(a)) => ViewOf(areas[s], mem, p) = Unmapped
      BY Unseen
    <3> QED BY <2>2, <3>1, <3>2 DEF Views, ViewsOf
  <2> QED BY <2>1, <2>2
<1> HIDE DEF V
<1>3. Views' = [Views EXCEPT ![s] = [p \in Pages |-> ViewOf(B, mem, p)]]
  BY <1>1, ViewsChange
<1>4. Views' = [Views EXCEPT ![s] = [p \in Pages |-> IF p \in P THEN Unmapped ELSE Views[s][p]]]
  BY <1>2, <1>3 DEF V
<1>5. disk' = Map!WrittenBack(s, P)
  BY WrittenIs
<1>6. CASE P = {}
  <2>1. Views' = Views
    BY <1>4, <1>6 DEF Views, ViewsOf
  <2>2. disk' = disk
    <3>1. disk \in [0..(FileLen - 1) -> Data]
      BY DEF IInv, TypeOK
    <3> QED BY <1>6, <3>1 DEF Written
  <2> QED BY <2>1, <2>2
<1>7. CASE \E i \in Pages : \E j \in i..(PageId(Limit) - 1) : P = i..j
  <2>1. PICK i \in Pages : \E j \in i..(PageId(Limit) - 1) : P = i..j
    BY <1>7
  <2>2. PICK j \in i..(PageId(Limit) - 1) : P = i..j
    BY <2>1
  <2>3. Map!Unmap(s, i, j)
    BY <1>4, <1>5, <2>2, ViewsAre, ViewsAreNext DEF Map!Unmap, Map!Becomes, Map!Pages, Pages
  <2> QED BY <2>2, <2>3 DEF Map!Next, Map!Pages, Pages
<1> QED BY <1>6, <1>7
\* munmap and exit.
LEMMA MunmapImplements ==
  ASSUME IInv, WholePages, NEW s \in Spaces, NEW start \in Starts, NEW len \in CutLens,
         Munmap(s, start, len)
  PROVE  [Map!Next]_<<Views, disk>>
<1> DEFINE end == start + len  B == Cut(s, start, end)  W == Walk(start, end)
<1>1. /\ start \in Nat /\ start % PageSize = 0 /\ end \in Nat /\ end % PageSize = 0
      /\ start <= end
  BY Passed, Summed, SizesAssumption DEF WholePages
<1>2. areas' = [areas EXCEPT ![s] = B] /\ mem' = mem /\ disk' = Written(s, W)
  BY DEF Munmap
<1> HIDE DEF end
<1>3. Recut(areas[s], B, W, {}, {}) /\ \A b \in B : PagesOf(b) \cap W = {}
  BY <1>1, OwnedIs, CutRecuts DEF IInv, AllWhole, Owned, Cut
<1>4. \/ W = {}
      \/ \E i \in Pages : \E j \in i..(PageId(Limit) - 1) : W = i..j
  BY <1>1, WalkIs
<1>5. W \in SUBSET Pages
  BY DEF Walk
<1> HIDE DEF B, W
<1> QED BY <1>2, <1>3, <1>4, <1>5, CutImplements

LEMMA ExitImplements ==
  ASSUME IInv, NEW s \in Spaces, Exit(s)
  PROVE  [Map!Next]_<<Views, disk>>
<1>1. areas' = [areas EXCEPT ![s] = {}] /\ mem' = mem /\ disk' = Written(s, Pages)
  BY DEF Exit
<1>2. Recut(areas[s], {}, Pages, {}, {})
  <2>1. \A a \in areas[s] : PagesOf(a) \subseteq Pages
    BY Extent DEF IInv, AllWhole
  <2> QED BY <2>1 DEF Recut, Disjoint
<1>3. \/ Pages = {}
      \/ \E i \in Pages : \E j \in i..(PageId(Limit) - 1) : Pages = i..j
  <2> DEFINE n == PageId(Limit) - 1
  <2>1. n \in Int
    BY SizesAssumption DEF PageId, PageSize
  <2> HIDE DEF n
  <2>2. 1..n = {} \/ \E i \in 1..n : \E j \in i..n : 1..n = i..j
    <3>1. CASE n < 1
      BY <2>1, <3>1
    <3>2. CASE n >= 1
      <4>1. 1 \in 1..n /\ n \in 1..n
        BY <2>1, <3>2
      <4> QED BY <4>1
    <3> QED BY <2>1, <3>1, <3>2
  <2> QED BY <2>2 DEF Pages, n
<1> QED BY <1>1, <1>2, <1>3, CutImplements

\* mprotect.
LEMMA MprotectImplements ==
  ASSUME IInv, WholePages, NEW s \in Spaces, NEW start \in Starts, NEW len \in ProtLens,
         NEW prot \in Prots, Mprotect(s, start, len, prot)
  PROVE  [Map!Next]_<<Views, disk>>
<1> DEFINE end == start + len
           A == areas[s]
           W == Walk(start, end)
           hit == {a \in A : Overlaps(a, start, end)}
           lost == {a \in hit : \E b \in hit :
                      b.start <= a.start /\ Fails(b, start, end, prot)}
           B == (A \ hit) \cup UNION {Parts(a, start, end, prot) : a \in hit}
           V == [p \in Pages |->
                  IF p \in W THEN IF Views[s][p] = Unmapped THEN Unmapped
                                  ELSE [Views[s][p] EXCEPT !.flags = prot]
                  ELSE Views[s][p]]
<1>1. /\ start \in Nat /\ start % PageSize = 0 /\ end \in Nat /\ end % PageSize = 0
      /\ start < end /\ prot \in SUBSET Rights
  BY Passed, Summed, SizesAssumption DEF WholePages
<1>2. /\ areas \in [Spaces -> SUBSET Area]
      /\ Disjoint(A) /\ (\A a \in A : Whole(a)) /\ mem \in [Frames -> Data]
  BY OwnedIs DEF IInv, TypeOK, AllWhole, Owned
<1>3. /\ areas' = [areas EXCEPT ![s] = (@ \ hit) \cup
                     UNION {Parts(a, start, end, prot) : a \in hit \ lost}]
      /\ mem' = mem /\ disk' = disk
  BY DEF Mprotect
<1> HIDE DEF end
<1>4. lost = {}
  BY <1>1, <1>2, PartsShow
<1>5. areas' = [areas EXCEPT ![s] = B]
  BY <1>2, <1>3, <1>4
<1>6. Recut(A, B, {}, W, prot)
  BY <1>1, <1>2, PartsRecut
<1>7. \/ W = {}
      \/ \E i \in Pages : \E j \in i..(PageId(Limit) - 1) : W = i..j
  BY <1>1, WalkIs
<1> HIDE DEF A, W, hit, lost, B
<1>8. ASSUME NEW p \in Pages PROVE ViewOf(B, mem, p) = V[p]
  <2>1. ViewOf(B, mem, p) =
          IF \A a \in A : p \notin PagesOf(a) THEN Unmapped
          ELSE IF p \in W THEN [ViewOf(A, mem, p) EXCEPT !.flags = prot]
          ELSE ViewOf(A, mem, p)
    BY <1>2, <1>6, RecutViews
  <2>2. Views[s][p] = ViewOf(A, mem, p)
    BY DEF Views, ViewsOf, A
  <2>3. CASE \A a \in A : p \notin PagesOf(a)
    BY <2>1, <2>2, <2>3, Unseen
  <2>4. CASE \E a \in A : p \in PagesOf(a)
    <3>1. PICK a \in A : p \in PagesOf(a)
      BY <2>4
    <3>2. ViewOf(A, mem, p) = Shown(a, mem, p)
      BY <3>1, <1>2, Seen
    <3>3. Shown(a, mem, p) # Unmapped
      BY <3>1, <1>2, ShownIs
    <3> QED BY <2>1, <2>2, <2>4, <3>2, <3>3
  <2> QED BY <2>3, <2>4
<1>9. Views' = [Views EXCEPT ![s] = [p \in Pages |-> ViewOf(B, mem, p)]]
  BY <1>2, <1>3, <1>5, ViewsChange
<1>10. Views' = [Views EXCEPT ![s] = V]
  BY <1>8, <1>9
<1>11. CASE W = {}
  BY <1>3, <1>10, <1>11 DEF Views, ViewsOf
<1>12. CASE \E i \in Pages : \E j \in i..(PageId(Limit) - 1) : W = i..j
  <2>1. PICK i \in Pages : \E j \in i..(PageId(Limit) - 1) : W = i..j
    BY <1>12
  <2>2. PICK j \in i..(PageId(Limit) - 1) : W = i..j
    BY <2>1
  <2>3. Map!Protect(s, i, j, prot)
    BY <1>3, <1>10, <2>2, ViewsAre, ViewsAreNext
    DEF Map!Protect, Map!Becomes, Map!Pages, Pages
  <2> QED BY <2>2, <2>3, <1>1 DEF Map!Next, Map!Pages, Pages
<1> QED BY <1>7, <1>11, <1>12

\* Where nothing is in use, nothing is written.
LEMMA NothingWritten ==
  ASSUME IInv, NEW s \in Spaces, NEW P, \A a \in areas[s] : PagesOf(a) \cap P = {}
  PROVE  Written(s, P) = disk
<1>1. P \cap Resident(s) = {}
  BY DEF Resident, Touched
<1>2. disk \in [0..(FileLen - 1) -> Data]
  BY DEF IInv, TypeOK
<1> QED BY <1>1, <1>2 DEF Written

\* A new mapping, and what was there before cut away.
LEMMA PushImplements ==
  ASSUME IInv, NEW s \in Spaces, NEW C,
         NEW start \in Nat, NEW len \in Nat, NEW prot \in SUBSET Rights,
         NEW file \in Nat \cup {NoFile}, NEW table, NEW end, end = start + len,
         Recut(areas[s], C, Walk(start, end), {}, {}),
         \A b \in C : PagesOf(b) \cap Walk(start, end) = {},
         start % PageSize = 0, len % PageSize = 0, start > 0,
         end < Limit, file # NoFile => file \in Nat /\ file % PageSize = 0,
         InFile(file, len),
         areas' = [areas EXCEPT ![s] = Pushed(C, table, start, len, prot, file)],
         mem' = mem, disk' = Written(s, Walk(start, end))
  PROVE  [Map!Next]_<<Views, disk>>
<1> DEFINE W == Walk(start, end)
           new == NewArea(start, end, prot, file)
           B == C \cup {new}
           v == Shown(new, mem, PageId(start))
           Link(p) == IF v.back = NoFile THEN NoFile
                      ELSE [v.back EXCEPT !.page = @ + (p - PageId(start))]
           V == [p \in Pages |->
                   IF p \in W THEN [v EXCEPT !.back = Link(p)] ELSE Views[s][p]]
<1>1. /\ areas \in [Spaces -> SUBSET Area] /\ Disjoint(areas[s])
      /\ mem \in [Frames -> Data]
  BY OwnedIs DEF IInv, TypeOK, Owned
<1>2. end \in Nat /\ end % PageSize = 0 /\ PageId(end) = PageId(start) + PageId(len)
  BY Summed
<1>3. \/ W = {}
      \/ \E i \in Pages : \E j \in i..(PageId(Limit) - 1) : W = i..j
  BY <1>2, WalkIs
<1>4. CASE Pushed(C, table, start, len, prot, file) = C
  <2>1. /\ W \in SUBSET Pages /\ areas' = [areas EXCEPT ![s] = C]
        /\ Recut(areas[s], C, W, {}, {}) /\ \A b \in C : PagesOf(b) \cap W = {}
        /\ mem' = mem /\ disk' = Written(s, W)
    BY <1>4 DEF Walk
  <2> HIDE DEF W
  <2> QED BY ONLY IInv, s \in Spaces, <1>3, <2>1, CutImplements
<1>5. CASE len > 0 /\ Pushed(C, table, start, len, prot, file) = B
  <2>0. areas' = [areas EXCEPT ![s] = B]
    BY <1>5
  <2>1. /\ Whole(new) /\ PagesOf(new) = W /\ Touched(new) = {} /\ new.flags = prot
        /\ new.start = start
    <3>1. len > 0
      BY <1>5
    <3>2. NewIs(start, end, prot, file)
      BY <3>1, NewShows
    <3> QED BY ONLY <3>2 DEF NewIs
  <2>2. Recut(areas[s], B, W, {}, {})
    <3> HIDE DEF new, W
    <3> QED BY <2>1, Added DEF W
  <2>3. PageId(start) \in W
    <3>1. PageId(start) \in Nat /\ PageId(new.start) < PageId(new.end)
      BY <2>1, Extent
    <3>2. PageId(start) \in PagesOf(new) /\ PageId(new.end) \in Nat
      BY <2>1, <3>1, Extent DEF PagesOf
    <3> QED BY <3>2, <2>1
  <2> HIDE DEF W, new, B
  <2>4. ASSUME NEW p \in W
        PROVE  Shown(new, mem, p) = [v EXCEPT !.back = Link(p)] /\ v.held = Untouched
    <3>1. p \in PagesOf(new) /\ PageId(start) \in PagesOf(new)
      BY <2>1, <2>3
    <3>2. FrameAt(new, p) = NoFrame /\ FrameAt(new, PageId(start)) = NoFrame
      BY <3>1, <2>1 DEF Touched
    <3>3. new.back # NoFile => FilePage(new, p) = FilePage(new, PageId(start)) + (p - PageId(start))
      <4> SUFFICES ASSUME new.back # NoFile
                   PROVE  FilePage(new, p) = FilePage(new, PageId(start)) + (p - PageId(start))
        OBVIOUS
      <4> DEFINE i == PageId(start)  o == PageId(new.back.offset)
      <4>1. FilePage(new, p) = o + p - i /\ FilePage(new, i) = o + i - i
        BY <2>1 DEF FilePage
      <4>2. p \in Nat /\ i \in Nat
        BY <3>1, <2>1, Slot
      <4>3. o \in Nat
        BY <2>1, Halved DEF Whole, Area
      <4> HIDE DEF i, o
      <4>4. o + p - i = (o + i - i) + (p - i)
        BY <4>2, <4>3
      <4> QED BY <4>1, <4>4 DEF i
    <3>4. v.back = NoFile <=> new.back = NoFile
      BY <2>1, <3>1, <1>1, ShownIs
    <3>5. v.held = Untouched /\ v = [flags |-> new.flags, back |-> v.back, held |-> Untouched]
      BY <3>2 DEF Shown
    <3>6. Shown(new, mem, p) = [flags |-> new.flags,
            back |-> IF new.back = NoFile THEN NoFile
                     ELSE [page |-> FilePage(new, p), sync |-> new.back.sync],
            held |-> Untouched]
      BY <3>2 DEF Shown
    <3>7. new.back # NoFile =>
            v.back = [page |-> FilePage(new, PageId(start)), sync |-> new.back.sync]
      BY DEF Shown
    <3>8. Link(p) = IF new.back = NoFile THEN NoFile
                    ELSE [page |-> FilePage(new, p), sync |-> new.back.sync]
      BY <3>3, <3>4, <3>7
    <3> HIDE DEF v, Link
    <3> QED BY <3>5, <3>6, <3>8
  <2>5. ASSUME NEW p \in Pages PROVE ViewOf(B, mem, p) = V[p]
    <3>1. CASE p \in W
      <4>1. new \in B /\ Disjoint(B) /\ p \in PagesOf(new)
        BY <3>1, <2>1, <2>2 DEF B, Recut
      <4>2. ViewOf(B, mem, p) = Shown(new, mem, p)
        BY <4>1, Seen
      <4> QED BY <3>1, <4>2, <2>4
    <3>2. CASE p \notin W
      <4>1. ViewOf(B, mem, p) =
              IF \A a \in areas[s] : p \notin PagesOf(a) THEN Unmapped
              ELSE IF p \in {} THEN [ViewOf(areas[s], mem, p) EXCEPT !.flags = {}]
              ELSE ViewOf(areas[s], mem, p)
        BY <3>2, <1>1, <2>2, RecutViews
      <4>2. (\A a \in areas[s] : p \notin PagesOf(a)) => ViewOf(areas[s], mem, p) = Unmapped
        BY Unseen
      <4>3. Views[s][p] = ViewOf(areas[s], mem, p)
        BY DEF Views, ViewsOf
      <4> QED BY <3>2, <4>1, <4>2, <4>3
    <3> QED BY <3>1, <3>2
  <2>6. Views' = [Views EXCEPT ![s] = [p \in Pages |-> ViewOf(B, mem, p)]]
    BY ONLY IInv, s \in Spaces, <1>1, <2>0, mem' = mem, ViewsChange
  <2>7. Views' = [Views EXCEPT ![s] = V]
    BY <2>5, <2>6
  <2>8. disk' = Map!WrittenBack(s, W)
    BY WrittenIs DEF W, Walk
  <2>9. PICK i \in Pages : \E j \in i..(PageId(Limit) - 1) : W = i..j
    BY <2>3, <1>3
  <2>10. PICK j \in i..(PageId(Limit) - 1) : W = i..j
    BY <2>9
  <2>11. i = PageId(start)
    <3>1. W = {p \in Pages : PageId(start) <= p /\ p < PageId(end)}
      BY <1>2, Walked DEF W
    <3>2. i \in W /\ PageId(start) \in i..j /\ i \in Nat /\ j \in Int
      BY <2>3, <2>10 DEF Pages
    <3>3. PageId(start) <= i
      BY <3>1, <3>2
    <3> QED BY <3>2, <3>3
  <2>12. /\ v = [v EXCEPT !.back = Link(i)] /\ v # Unmapped
    <3>1. i \in W /\ i \in PagesOf(new)
      BY <2>1, <2>3, <2>11
    <3>2. v # Unmapped
      BY <3>1, <2>1, <2>11, <1>1, ShownIs
    <3>3. v = [v EXCEPT !.back = Link(i)]
      BY <3>1, <2>4, <2>11
    <3> QED BY <3>2, <3>3
  <2>13. Views'[s][i] = v
    BY <2>3, <2>7, <2>11, <2>12 DEF Views, ViewsOf
  <2>14. v.held = Untouched
    BY <2>3, <2>4
  <2>15. Map!Map(s, i, j)
    <3> HIDE DEF v
    <3>1. Views' = [Views EXCEPT ![s] = [p \in Pages |->
             IF p \in i..j THEN [Views'[s][i] EXCEPT !.back =
                  IF Views'[s][i].back = NoFile THEN NoFile
                  ELSE [Views'[s][i].back EXCEPT !.page = @ + (p - i)]]
             ELSE Views[s][p]]]
      BY <2>7, <2>10, <2>11, <2>13
    <3>2. Views'[s][i] # Unmapped /\ Views'[s][i].held = Untouched
      BY <2>12, <2>13, <2>14
    <3>3. disk' = Map!WrittenBack(s, i..j)
      BY <2>8, <2>10
    <3> QED BY <3>1, <3>2, <3>3, ViewsAre, ViewsAreNext
            DEF Map!Map, Map!Becomes, Map!Pages, Pages
  <2> QED BY <2>10, <2>15 DEF Map!Next, Map!Pages, Pages
<1> QED BY <1>4, <1>5 DEF Pushed
\* mmap.
LEMMA MmapFixedImplements ==
  ASSUME IInv, NEW s \in Spaces, NEW start \in Nat, NEW len \in Nat,
         start % PageSize = 0, len % PageSize = 0,
         NEW prot \in Prots, NEW file \in Offsets \cup {NoFile},
         MmapFixed(s, start, len, prot, file)
  PROVE  [Map!Next]_<<Views, disk>>
<1> DEFINE end == start + len
           C == Cut(s, start, end)
           T == CutTable(s, start, end)
<1>1. /\ start > 0 /\ end < Limit /\ InFile(file, len)
      /\ areas' = [areas EXCEPT ![s] = Pushed(C, T, start, len, prot, file)]
      /\ mem' = mem /\ disk' = Written(s, Walk(start, end))
  BY DEF MmapFixed
<1>2. end \in Nat /\ end % PageSize = 0 /\ start <= end /\ end = start + len
  BY Summed
<1>3. /\ prot \in SUBSET Rights /\ file \in Nat \cup {NoFile}
      /\ file # NoFile => file \in Nat /\ file % PageSize = 0
  BY SizesAssumption
<1> HIDE DEF end
<1>4. /\ Recut(areas[s], C, Walk(start, end), {}, {})
      /\ \A b \in C : PagesOf(b) \cap Walk(start, end) = {}
  BY <1>2, OwnedIs, CutRecuts DEF IInv, AllWhole, Owned, Cut
<1> HIDE DEF C, T
<1> QED BY <1>1, <1>2, <1>3, <1>4, PushImplements

LEMMA MmapAnywhereImplements ==
  ASSUME IInv, NEW s \in Spaces, NEW hint \in Nat, NEW len \in Nat,
         hint % PageSize = 0, len % PageSize = 0,
         NEW prot \in Prots, NEW file \in Offsets \cup {NoFile},
         MmapAnywhere(s, hint, len, prot, file)
  PROVE  [Map!Next]_<<Views, disk>>
<1> DEFINE A == areas[s]  table == pt[s]
<1>1. PICK start \in Places(A, hint, len) :
        /\ start + len < Limit
        /\ areas' = [areas EXCEPT ![s] = Pushed(@, table, start, len, prot, file)]
  BY DEF MmapAnywhere
<1> DEFINE end == start + len
<1>2. /\ InFile(file, len) /\ mem' = mem /\ disk' = disk /\ end = start + len /\ end < Limit
      /\ areas' = [areas EXCEPT ![s] = Pushed(A, table, start, len, prot, file)]
  BY <1>1 DEF MmapAnywhere, IInv, TypeOK
<1>3. Disjoint(A) /\ \A a \in A : Whole(a)
  BY OwnedIs DEF IInv, AllWhole, Owned
<1>4. /\ prot \in SUBSET Rights /\ file \in Nat \cup {NoFile}
      /\ file # NoFile => file \in Nat /\ file % PageSize = 0
  BY SizesAssumption
<1>5. start \in Nat /\ start % PageSize = 0 /\ start > 0 /\ Vacant(A, start, end)
  <2> HIDE DEF A
  <2> QED BY <1>1, <1>3, PlaceWhole
<1>6. end \in Nat /\ end % PageSize = 0
  BY <1>5, Summed
<1> HIDE DEF end
<1>7. \A a \in A : PagesOf(a) \cap Walk(start, end) = {}
  BY <1>3, <1>5, <1>6, VacantApart
<1>8. disk' = Written(s, Walk(start, end))
  BY <1>2, <1>7, NothingWritten
<1>9. Recut(areas[s], A, Walk(start, end), {}, {})
  <2> DEFINE W == Walk(start, end)
  <2> HIDE DEF W
  <2> QED BY <1>3, <1>7, Untaken DEF W
<1> HIDE DEF A, table
<1> QED BY <1>2, <1>4, <1>5, <1>7, <1>8, <1>9, PushImplements

LEMMA MmapImplements ==
  ASSUME IInv, NEW s \in Spaces, NEW start \in Starts, NEW len \in MapLens,
         NEW prot \in Prots, NEW fixed \in BOOLEAN, NEW file \in Offsets \cup {NoFile},
         Mmap(s, start, len, prot, fixed, file)
  PROVE  [Map!Next]_<<Views, disk>>
<1> DEFINE from == AlignDown(start)
           size == AlignUp(start + len) - from
<1>1. /\ from \in Nat /\ from % PageSize = 0 /\ size \in Nat /\ size % PageSize = 0
  BY Asked
<1>2. \/ MmapFixed(s, from, size, prot, file) \/ MmapAnywhere(s, from, size, prot, file)
  BY DEF Mmap
<1> HIDE DEF from, size
<1>3. CASE MmapFixed(s, from, size, prot, file)
  BY <1>1, <1>3, MmapFixedImplements
<1>4. CASE MmapAnywhere(s, from, size, prot, file)
  BY <1>1, <1>4, MmapAnywhereImplements
<1> QED BY <1>2, <1>3, <1>4

\* msync.
LEMMA MsyncImplements ==
  ASSUME IInv, WholePages, NEW s \in Spaces, NEW start \in Starts, NEW len \in CutLens,
         Msync(s, start, len)
  PROVE  [Map!Next]_<<Views, disk>>
<1> DEFINE end == start + len  W == Walk(start, end)
<1>1. /\ start \in Nat /\ start % PageSize = 0 /\ end \in Nat /\ end % PageSize = 0
  BY Passed, Summed, SizesAssumption DEF WholePages
<1>2. areas' = areas /\ mem' = mem /\ disk' = Written(s, W)
  BY DEF Msync
<1>3. Views' = Views
  BY <1>2 DEF Views
<1> HIDE DEF end
<1>4. \/ W = {}
      \/ \E i \in Pages : \E j \in i..(PageId(Limit) - 1) : W = i..j
  BY <1>1, WalkIs
<1>5. disk' = Map!WrittenBack(s, W)
  <2>1. W \in SUBSET Pages
    BY DEF Walk
  <2> HIDE DEF W
  <2> QED BY <1>2, <2>1, WrittenIs
<1>6. CASE W = {}
  <2>1. disk' = disk
    BY <1>2, <1>6, NothingWritten
  <2> QED BY <1>3, <2>1
<1> HIDE DEF W
<1>7. CASE \E i \in Pages : \E j \in i..(PageId(Limit) - 1) : W = i..j
  <2>1. PICK i \in Pages : \E j \in i..(PageId(Limit) - 1) : W = i..j
    BY <1>7
  <2>2. PICK j \in i..(PageId(Limit) - 1) : W = i..j
    BY <2>1
  <2>3. j \in Pages
    <3> DEFINE n == PageId(Limit) - 1
    <3>1. i \in 1..n /\ j \in i..n
      BY DEF Pages
    <3> HIDE DEF n
    <3>2. j \in 1..n
      BY <3>1
    <3> QED BY <3>2 DEF Pages, n
  <2>4. Map!Sync
    BY <1>3, <1>5, <2>2, <2>3, ViewsAre, ViewsAreNext DEF Map!Sync, Map!Pages, Pages
  <2> QED BY <2>4 DEF Map!Next
<1> QED BY <1>4, <1>6, <1>7

\* A store through the page table.
LEMMA StoreImplements ==
  ASSUME IInv, NEW s \in Spaces, NEW p \in Pages, NEW d \in Data, Store(s, p, d)
  PROVE  [Map!Next]_<<Views, disk>>
<1>1. /\ (\A t \in Spaces : Disjoint(areas[t])) /\ AllWhole /\ Owned(areas)
      /\ Agree(areas, pt) /\ mem \in [Frames -> Data]
  BY OwnedIs, AgreeIs DEF IInv, TypeOK, Owned
<1>2. pt[s][p] = EntryOf(areas[s], p) /\ pt[s][p] # NoEntry /\ "W" \in pt[s][p].flags
      /\ mem' = [mem EXCEPT ![pt[s][p].frame] = d] /\ areas' = areas /\ disk' = disk
  BY <1>1 DEF Store, Permits, Agree
<1>3. PICK a \in areas[s] : p \in PagesOf(a) /\ FrameAt(a, p) # NoFrame
  BY <1>2, InUse DEF EntryOf
<1>4. Whole(a) /\ p \in Touched(a)
  BY <1>1, <1>3 DEF AllWhole, Touched
<1> DEFINE f == FrameAt(a, p)
<1>5. pt[s][p] = [frame |-> f, flags |-> a.flags] /\ f \in Frames
  BY <1>1, <1>2, <1>3, <1>4, Found, Slot
<1>6. mem' = [mem EXCEPT ![f] = d] /\ "W" \in a.flags
  BY <1>2, <1>5
<1>7. /\ Views[s][p] = Shown(a, mem, p) /\ Views[s][p] # Unmapped
      /\ Views[s][p].held # Untouched /\ Views[s][p].flags = a.flags
  <2>1. Views[s][p] = Shown(a, mem, p)
    BY <1>1, <1>3, Seen DEF Views, ViewsOf
  <2>2. /\ Shown(a, mem, p) # Unmapped /\ Shown(a, mem, p).flags = a.flags
        /\ Shown(a, mem, p).held = Untouched <=> p \notin Touched(a)
    BY <1>1, <1>3, <1>4, ShownIs
  <2> QED BY <2>1, <2>2, <1>4
<1>8. ASSUME NEW t \in Spaces, NEW q \in Pages
      PROVE  ViewOf(areas[t], mem', q) =
               IF t = s /\ q = p THEN [Views[s][p] EXCEPT !.held = d] ELSE Views[t][q]
  <2>1. Views[t][q] = ViewOf(areas[t], mem, q)
    BY DEF Views, ViewsOf
  <2>2. CASE \A b \in areas[t] : q \notin PagesOf(b)
    <3>1. ~ (t = s /\ q = p)
      BY <2>2, <1>3
    <3>2. ViewOf(areas[t], mem, q) = Unmapped /\ ViewOf(areas[t], mem', q) = Unmapped
      BY <2>2, Unseen
    <3> QED BY <2>1, <3>1, <3>2
  <2>3. CASE \E b \in areas[t] : q \in PagesOf(b)
    <3>1. PICK b \in areas[t] : q \in PagesOf(b)
      BY <2>3
    <3>2. ViewOf(areas[t], mem, q) = Shown(b, mem, q)
          /\ ViewOf(areas[t], mem', q) = Shown(b, mem', q)
      BY <3>1, <1>1, Seen
    <3>3. FrameAt(b, q) \in Frames \cup {NoFrame}
      BY <3>1, <1>1, Slot DEF AllWhole
    <3>4. FrameAt(b, q) = f <=> t = s /\ q = p
      <4>1. ASSUME FrameAt(b, q) = f PROVE t = s /\ q = p
        <5>1. Has(areas[t], q, f) /\ Has(areas[s], p, f)
          BY <3>1, <4>1, <1>3, <1>4 DEF Has, Touched
        <5> QED BY <5>1, <1>1 DEF Owned
      <4>2. ASSUME t = s, q = p PROVE FrameAt(b, q) = f
        BY <3>1, <4>2, <1>1, <1>3 DEF Disjoint
      <4> QED BY <4>1, <4>2
    <3>5. CASE FrameAt(b, q) = f
      <4>1. t = s /\ q = p
        BY <3>4, <3>5
      <4>2. b = a
        BY <4>1, <3>1, <1>1, <1>3 DEF Disjoint
      <4>3. Shown(a, mem', p) = [Shown(a, mem, p) EXCEPT !.held = d]
        BY <1>1, <1>3, <1>5, <1>6 DEF Shown
      <4> QED BY <4>1, <4>2, <4>3, <3>2, <1>7
    <3>6. CASE FrameAt(b, q) # f
      <4>1. Shown(b, mem', q) = Shown(b, mem, q)
        BY <3>3, <3>6, <1>1, <1>6 DEF Shown
      <4> QED BY <4>1, <3>2, <3>4, <3>6, <2>1
    <3> QED BY <3>5, <3>6
  <2> QED BY <2>2, <2>3
<1>9. Views' = [t \in Spaces |-> [q \in Pages |-> ViewOf(areas[t], mem', q)]]
  BY <1>2 DEF Views, ViewsOf
<1>10. Views = [t \in Spaces |-> [q \in Pages |-> Views[t][q]]]
  BY DEF Views, ViewsOf
<1>11. Views' = [Views EXCEPT ![s] = [q \in Pages |->
           IF q \in {p} THEN [Views[s][p] EXCEPT !.held = d] ELSE Views[s][q]]]
  BY <1>8, <1>9, <1>10
<1>12. Map!Store(s, p, d)
  BY <1>2, <1>6, <1>7, <1>11, ViewsAre, ViewsAreNext
  DEF Map!Store, Map!Becomes, Map!Pages, Pages
<1> QED BY <1>12 DEF Map!Next, Map!Pages, Pages
\* A memory that has the same in the frames of the areas shows the same.
LEMMA ViewSame ==
  ASSUME NEW A, Disjoint(A), NEW m, NEW n,
         \A a \in A : \A q \in Touched(a) : n[FrameAt(a, q)] = m[FrameAt(a, q)],
         NEW p
  PROVE  ViewOf(A, n, p) = ViewOf(A, m, p)
<1>1. CASE \A a \in A : p \notin PagesOf(a)
  BY <1>1, Unseen
<1>2. CASE \E a \in A : p \in PagesOf(a)
  <2>1. PICK a \in A : p \in PagesOf(a)
    BY <1>2
  <2>2. ViewOf(A, m, p) = Shown(a, m, p) /\ ViewOf(A, n, p) = Shown(a, n, p)
    BY <2>1, Seen
  <2>3. Shown(a, n, p) = Shown(a, m, p)
    BY <2>1 DEF Shown, Touched
  <2> QED BY <2>2, <2>3
<1> QED BY <1>1, <1>2

\* The first touch of a page.
LEMMA BringImplements ==
  ASSUME IInv, NEW s \in Spaces, NEW a \in areas[s], NEW p \in PagesOf(a), Bring(s, a, p)
  PROVE  [Map!Next]_<<Views, disk>>
<1>1. /\ (\A t \in Spaces : Disjoint(areas[t])) /\ AllWhole
      /\ areas \in [Spaces -> SUBSET Area]
      /\ mem \in [Frames -> Data] /\ Whole(a) /\ p \in Pages
  BY OwnedIs, Slot DEF IInv, TypeOK, AllWhole, Owned
<1> DEFINE w == IF Linked(a, "r") THEN disk[FilePage(a, p)] ELSE Zero
<1>2. PICK f \in Free :
        /\ areas' = [areas EXCEPT ![s] = (@ \ {a}) \cup {Filled(a, p, f)}]
        /\ mem' = [mem EXCEPT ![f] = w]
  BY DEF Bring, Filled
<1>3. FrameAt(a, p) = NoFrame /\ disk' = disk
  BY DEF Bring
<1>4. f \in Frames /\ \A t \in Spaces : \A q : ~ Has(areas[t], q, f)
  BY FreeUnused
<1> DEFINE b == Filled(a, p, f)
           B == (areas[s] \ {a}) \cup {b}
           V == [q \in Pages |->
                   IF q \in {p} THEN [Views[s][p] EXCEPT !.held = w] ELSE Views[s][q]]
<1>5. /\ Whole(b) /\ PagesOf(b) = PagesOf(a) /\ b.flags = a.flags /\ b.back = a.back
      /\ \A q \in PagesOf(a) : FrameAt(b, q) = IF q = p THEN f ELSE FrameAt(a, q)
      /\ \A q \in PagesOf(a) : FilePage(b, q) = FilePage(a, q)
  BY <1>1, <1>4, FilledShows
<1> HIDE DEF b, w
<1>6. areas' = [areas EXCEPT ![s] = B]
  BY <1>2 DEF b
<1>7. Disjoint(B)
  BY <1>1, <1>5 DEF Disjoint
<1>8. ASSUME NEW t \in Spaces, NEW q \in Pages
      PROVE  ViewOf(areas[t], mem', q) = ViewOf(areas[t], mem, q)
  <2>1. \A c \in areas[t] : \A r \in Touched(c) : mem'[FrameAt(c, r)] = mem[FrameAt(c, r)]
    <3> TAKE c \in areas[t]
    <3> TAKE r \in Touched(c)
    <3>1. FrameAt(c, r) # f
      BY <1>4 DEF Has
    <3>2. FrameAt(c, r) \in Frames
      BY <1>1, Slot DEF AllWhole, Touched
    <3> QED BY <1>1, <1>2, <3>1, <3>2
  <2> QED BY <2>1, <1>1, ViewSame
<1>9. /\ Views[s][p] = Shown(a, mem, p) /\ Views[s][p] # Unmapped
      /\ Views[s][p].held = Untouched
  <2>1. Views[s][p] = Shown(a, mem, p)
    BY <1>1, Seen DEF Views, ViewsOf
  <2>2. /\ Shown(a, mem, p) # Unmapped
        /\ Shown(a, mem, p).held = Untouched <=> p \notin Touched(a)
    BY <1>1, ShownIs
  <2> QED BY <2>1, <2>2, <1>3 DEF Touched
<1>10. ASSUME NEW q \in Pages
       PROVE  ViewOf(B, mem', q) = V[q]
  <2>1. Views[s][q] = ViewOf(areas[s], mem, q)
    BY DEF Views, ViewsOf
  <2>2. CASE q = p
    <3>1. ViewOf(B, mem', p) = Shown(b, mem', p)
      <4>1. b \in B /\ p \in PagesOf(b)
        BY <1>5
      <4> HIDE DEF B
      <4> QED BY <4>1, <1>7, Seen
    <3>2. FrameAt(b, p) = f /\ f # NoFrame /\ mem'[f] = w /\ FilePage(b, p) = FilePage(a, p)
      BY <1>1, <1>2, <1>4, <1>5, NamesAssumption
    <3>3. Shown(b, mem', p) = [Shown(a, mem, p) EXCEPT !.held = w]
      BY <3>2, <1>5 DEF Shown
    <3> QED BY <2>2, <3>1, <3>3, <1>9
  <2>3. CASE q # p /\ q \in PagesOf(a)
    <3>1. ViewOf(B, mem', q) = Shown(b, mem', q) /\ ViewOf(areas[s], mem', q) = Shown(a, mem', q)
      <4>1. b \in B /\ q \in PagesOf(b)
        BY <1>5, <2>3
      <4> HIDE DEF B
      <4> QED BY <4>1, <1>1, <1>7, <2>3, Seen
    <3>2. FrameAt(b, q) = FrameAt(a, q) /\ FilePage(b, q) = FilePage(a, q)
      BY <2>3, <1>5
    <3>3. Shown(b, mem', q) = Shown(a, mem', q)
      BY <3>2, <1>5 DEF Shown
    <3> QED BY <2>1, <2>3, <3>1, <3>3, <1>8
  <2>4. CASE q \notin PagesOf(a) /\ \E c \in areas[s] : q \in PagesOf(c)
    <3>1. PICK c \in areas[s] : q \in PagesOf(c)
      BY <2>4
    <3>2. c \in B /\ q # p
      BY <2>4, <3>1
    <3>3. ViewOf(B, mem', q) = Shown(c, mem', q) /\ ViewOf(areas[s], mem', q) = Shown(c, mem', q)
      <4> HIDE DEF B
      <4> QED BY <3>1, <3>2, <1>1, <1>7, Seen
    <3> QED BY <2>1, <3>2, <3>3, <1>8
  <2>5. CASE \A c \in areas[s] : q \notin PagesOf(c)
    <3>1. q # p /\ \A c \in B : q \notin PagesOf(c)
      BY <2>5, <1>5
    <3>2. ViewOf(B, mem', q) = Unmapped /\ ViewOf(areas[s], mem, q) = Unmapped
      <4> HIDE DEF B
      <4> QED BY <3>1, <2>5, Unseen
    <3> QED BY <2>1, <3>1, <3>2
  <2> QED BY <2>2, <2>3, <2>4, <2>5
<1> HIDE DEF B
<1>11. Views' = [Views EXCEPT ![s] = V]
  <2>1. areas'[s] = B /\ \A t \in Spaces : t # s => areas'[t] = areas[t]
    BY <1>1, <1>6
  <2>2. Views' = [t \in Spaces |-> [q \in Pages |-> ViewOf(areas'[t], mem', q)]]
    BY DEF Views, ViewsOf
  <2>3. Views = [t \in Spaces |-> [q \in Pages |-> ViewOf(areas[t], mem, q)]]
    BY DEF Views, ViewsOf
  <2>4. \A q \in Pages : ViewOf(areas'[s], mem', q) = V[q]
    BY <2>1, <1>10
  <2> HIDE DEF V
  <2>5. [q \in Pages |-> ViewOf(areas'[s], mem', q)] = [q \in Pages |-> V[q]]
    BY <2>4
  <2>6. [q \in Pages |-> V[q]] = V
    BY DEF V
  <2>7. \A t \in Spaces : t # s =>
          [q \in Pages |-> ViewOf(areas'[t], mem', q)] = [q \in Pages |-> ViewOf(areas[t], mem, q)]
    BY <2>1, <1>8
  <2> QED BY <2>2, <2>3, <2>5, <2>6, <2>7
<1>12. w = IF Views[s][p].back # NoFile /\ "r" \in Views[s][p].back.sync
             THEN disk[Views[s][p].back.page] ELSE Zero
  <2>1. /\ Shown(a, mem, p).back = NoFile <=> a.back = NoFile
        /\ a.back # NoFile =>
             Shown(a, mem, p).back = [page |-> FilePage(a, p), sync |-> a.back.sync]
    BY <1>1, ShownIs
  <2> QED BY <2>1, <1>9 DEF w, Linked
<1>13. Map!Touch(s, p)
  <2>1. Views' = [Views EXCEPT ![s] = [q \in Pages |->
           IF q \in {p}
             THEN [Views[s][p] EXCEPT !.held =
                     IF Views[s][p].back # NoFile /\ "r" \in Views[s][p].back.sync
                       THEN disk[Views[s][p].back.page] ELSE Zero]
             ELSE Views[s][q]]]
    BY <1>11, <1>12
  <2>2. /\ Views[s][p] # Unmapped /\ Views[s][p].held = Untouched /\ disk' = disk
        /\ s \in Spaces /\ p \in Pages
    BY <1>1, <1>3, <1>9
  <2> HIDE DEF V
  <2> QED BY ONLY <2>1, <2>2, ViewsAre, ViewsAreNext
          DEF Map!Touch, Map!Becomes, Map!Pages, Pages
<1> QED BY <1>1, <1>13 DEF Map!Next, Map!Pages, Pages
\* fork
LEMMA ForkImplements ==
  ASSUME IInv, NEW s \in Spaces, NEW t \in Spaces, Fork(s, t)
  PROVE  [Map!Next]_<<Views, disk>>
<1> DEFINE mine == {FrameOf(s, p) : p \in Resident(s)}
<1>1. /\ (\A u \in Spaces : Disjoint(areas[u])) /\ AllWhole
      /\ areas \in [Spaces -> SUBSET Area] /\ areas[t] = {} /\ s # t
      /\ mem \in [Frames -> Data] /\ disk' = disk
  BY OwnedIs DEF IInv, TypeOK, DeadEmpty, Fork, Owned
<1>2. PICK copy \in {c \in [mine -> Free] : \A f, g \in mine : c[f] = c[g] => f = g} :
        /\ areas' = [areas EXCEPT ![t] = {Forked(a, copy) : a \in areas[s]}]
        /\ mem' = [f \in Frames |->
             IF \E g \in mine : copy[g] = f
               THEN mem[CHOOSE g \in mine : copy[g] = f] ELSE mem[f]]
  BY DEF Fork, Forked
<1> DEFINE B == {Forked(a, copy) : a \in areas[s]}
<1>3. mine \subseteq Frames /\ copy \in [mine -> Frames] /\ copy \in [mine -> Free]
      /\ \A f, g \in mine : copy[f] = copy[g] => f = g
  BY Residents, FreeUnused
<1>4. ASSUME NEW a \in areas[s], NEW p \in Touched(a)
      PROVE  FrameAt(a, p) \in mine
  <2>1. p \in Resident(s) /\ p \in PagesOf(a)
    BY DEF Resident, Touched
  <2>2. AreaOf(s, p) = a
    BY <1>1, <2>1, Found DEF AreaOf, At
  <2> QED BY <2>1, <2>2 DEF FrameOf
<1> HIDE DEF mine
<1>5. ASSUME NEW a \in areas[s]
      PROVE  /\ PagesOf(Forked(a, copy)) = PagesOf(a)
             /\ Forked(a, copy).flags = a.flags /\ Forked(a, copy).back = a.back
             /\ \A p \in PagesOf(a) : FrameAt(Forked(a, copy), p) =
                  IF FrameAt(a, p) = NoFrame THEN NoFrame ELSE copy[FrameAt(a, p)]
             /\ \A p \in PagesOf(a) : FilePage(Forked(a, copy), p) = FilePage(a, p)
  <2>1. Whole(a)
    BY <1>1 DEF AllWhole
  <2> QED BY <2>1, <1>3, <1>4, ForkedShows
<1>6. /\ areas'[t] = B /\ \A u \in Spaces : u # t => areas'[u] = areas[u]
  BY <1>1, <1>2
<1>7. \A b \in B : \E a \in areas[s] : b = Forked(a, copy)
  OBVIOUS
<1>8. \A a \in areas[s] : Forked(a, copy) \in B
  OBVIOUS
<1> HIDE DEF B
<1>9. Disjoint(B)
  <2> SUFFICES ASSUME NEW b \in B, NEW c \in B, b # c
               PROVE  PagesOf(b) \cap PagesOf(c) = {}
    BY DEF Disjoint
  <2>1. PICK x \in areas[s] : b = Forked(x, copy)
    BY <1>7
  <2>2. PICK y \in areas[s] : c = Forked(y, copy)
    BY <1>7
  <2>3. x # y
    BY <2>1, <2>2
  <2>4. PagesOf(b) = PagesOf(x) /\ PagesOf(c) = PagesOf(y)
    BY <2>1, <2>2, <1>5
  <2> QED BY <2>3, <2>4, <1>1 DEF Disjoint
<1>10. \A g \in mine : mem'[copy[g]] = mem[g]
  <2> TAKE g \in mine
  <2>1. copy[g] \in Frames /\ \A h \in mine : copy[h] = copy[g] => h = g
    BY <1>3
  <2>2. (CHOOSE h \in mine : copy[h] = copy[g]) = g
    BY <2>1
  <2> QED BY <2>1, <2>2, <1>2
<1>11. ASSUME NEW u \in Spaces, NEW q \in Pages
       PROVE  ViewOf(areas[u], mem', q) = ViewOf(areas[u], mem, q)
  <2>1. \A c \in areas[u] : \A r \in Touched(c) : mem'[FrameAt(c, r)] = mem[FrameAt(c, r)]
    <3> TAKE c \in areas[u]
    <3> TAKE r \in Touched(c)
    <3>1. \A g \in mine : copy[g] # FrameAt(c, r)
      <4> SUFFICES ASSUME NEW g \in mine, copy[g] = FrameAt(c, r) PROVE FALSE
        OBVIOUS
      <4>1. copy[g] \in Free /\ Has(areas[u], r, copy[g])
        BY <1>3 DEF Has
      <4> QED BY <4>1, FreeUnused
    <3>2. FrameAt(c, r) \in Frames
      BY <1>1, Slot DEF AllWhole, Touched
    <3> QED BY <1>2, <3>1, <3>2
  <2> QED BY <2>1, <1>1, ViewSame
<1>12. ASSUME NEW q \in Pages
       PROVE  ViewOf(B, mem', q) = Views[s][q]
  <2>1. Views[s][q] = ViewOf(areas[s], mem, q)
    BY DEF Views, ViewsOf
  <2>2. CASE \A a \in areas[s] : q \notin PagesOf(a)
    <3>1. \A b \in B : q \notin PagesOf(b)
      BY <2>2, <1>5, <1>7
    <3> QED BY <3>1, <2>1, <2>2, Unseen
  <2>3. CASE \E a \in areas[s] : q \in PagesOf(a)
    <3>1. PICK a \in areas[s] : q \in PagesOf(a)
      BY <2>3
    <3> DEFINE b == Forked(a, copy)
    <3>2. b \in B /\ q \in PagesOf(b)
      BY <3>1, <1>5, <1>8
    <3>3. /\ b.flags = a.flags /\ b.back = a.back /\ FilePage(b, q) = FilePage(a, q)
          /\ FrameAt(b, q) = IF FrameAt(a, q) = NoFrame THEN NoFrame ELSE copy[FrameAt(a, q)]
      BY <3>1, <1>5
    <3> HIDE DEF b
    <3>4. ViewOf(B, mem', q) = Shown(b, mem', q) /\ ViewOf(areas[s], mem, q) = Shown(a, mem, q)
      BY <3>1, <3>2, <1>1, <1>9, Seen
    <3>5. FrameAt(a, q) # NoFrame =>
            copy[FrameAt(a, q)] # NoFrame /\ mem'[copy[FrameAt(a, q)]] = mem[FrameAt(a, q)]
      BY <3>1, <1>3, <1>4, <1>10, NamesAssumption DEF Touched
    <3>6. Shown(b, mem', q) = Shown(a, mem, q)
      BY <3>3, <3>5 DEF Shown
    <3> QED BY <2>1, <3>4, <3>6
  <2> QED BY <2>2, <2>3
<1>13. Views' = [Views EXCEPT ![t] = [q \in Pages |-> IF q \in Pages THEN Views[s][q] ELSE Views[t][q]]]
  <2>1. Views' = [u \in Spaces |-> [q \in Pages |-> ViewOf(areas'[u], mem', q)]]
    BY DEF Views, ViewsOf
  <2>2. Views = [u \in Spaces |-> [q \in Pages |-> ViewOf(areas[u], mem, q)]]
    BY DEF Views, ViewsOf
  <2>3. \A q \in Pages : ViewOf(areas'[t], mem', q) = Views[s][q]
    BY <1>6, <1>12
  <2>4. [q \in Pages |-> ViewOf(areas'[t], mem', q)]
          = [q \in Pages |-> IF q \in Pages THEN Views[s][q] ELSE Views[t][q]]
    BY <2>3
  <2>5. \A u \in Spaces : u # t =>
          [q \in Pages |-> ViewOf(areas'[u], mem', q)] = [q \in Pages |-> ViewOf(areas[u], mem, q)]
    BY <1>6, <1>11
  <2> QED BY <2>1, <2>2, <2>4, <2>5
<1>14. \A p \in Pages : Views[t][p] = Unmapped
  BY <1>1, Unseen DEF Views, ViewsOf
<1>15. Map!Fork(s, t)
  BY <1>1, <1>13, <1>14, ViewsAre, ViewsAreNext
  DEF Map!Fork, Map!Becomes, Map!Pages, Pages
<1> QED BY <1>15 DEF Map!Next

\* The areas show a PageMap from the start.
LEMMA InitImplements == ASSUME Init PROVE Map!Init
<1>1. \A s \in Spaces : areas[s] = {}
  BY DEF Init
<1>2. Views = [s \in Spaces |-> [p \in Pages |-> Unmapped]]
  BY <1>1, Unseen DEF Views, ViewsOf
<1>3. disk \in [0..(FileLen - 1) -> Data]
  BY SizesAssumption DEF Init
<1> QED BY <1>2, <1>3, ViewsAre DEF Map!Init, Map!Pages, Pages

\* Every step of the areas is a step of the pages, or changes nothing there.
LEMMA NextImplements ==
  ASSUME WholePages, IInv, [Next]_vars
  PROVE  [Map!Next]_Map!vars
<1> SUFFICES [Map!Next]_<<Views, disk>>
  BY ViewsAre, ViewsAreNext DEF Map!vars
<1>1. CASE UNCHANGED vars
  BY <1>1 DEF vars, Views
<1>2. ASSUME NEW s \in Spaces, NEW p \in Pages, NEW a \in areas[s],
             Contains(a, PageAddr(p)), Bring(s, a, p)
      PROVE  [Map!Next]_<<Views, disk>>
  <2>1. Whole(a)
    BY DEF IInv, AllWhole
  <2>2. p \in PagesOf(a)
    BY <1>2, <2>1, Inside
  <2> QED BY <1>2, <2>2, BringImplements
<1>3. ASSUME NEW s \in Spaces, NEW p \in Pages,
             ManuallyAllocPage(s, p) \/ \E k \in Rights : PageFault(s, p, k)
      PROVE  [Map!Next]_<<Views, disk>>
  BY <1>2, <1>3 DEF ManuallyAllocPage, PageFault
<1>4. ASSUME NEW s \in Spaces, NEW start \in Starts, NEW len \in CutLens,
             Munmap(s, start, len) \/ Msync(s, start, len)
      PROVE  [Map!Next]_<<Views, disk>>
  BY <1>4, MunmapImplements, MsyncImplements
<1>5. ASSUME NEW s \in Spaces, NEW start \in Starts, NEW len \in ProtLens,
             NEW prot \in Prots, Mprotect(s, start, len, prot)
      PROVE  [Map!Next]_<<Views, disk>>
  BY <1>5, MprotectImplements
<1>6. ASSUME NEW s \in Spaces, NEW start \in Starts, NEW len \in MapLens,
             NEW prot \in Prots, NEW fixed \in BOOLEAN, NEW file \in Offsets \cup {NoFile},
             Mmap(s, start, len, prot, fixed, file)
      PROVE  [Map!Next]_<<Views, disk>>
  BY <1>6, MmapImplements
<1>7. ASSUME NEW s \in Spaces, NEW p \in Pages, NEW d \in Data, Store(s, p, d)
      PROVE  [Map!Next]_<<Views, disk>>
  BY <1>7, StoreImplements
<1>8. ASSUME NEW s \in Spaces, (\E t \in Spaces : Fork(s, t)) \/ Exit(s)
      PROVE  [Map!Next]_<<Views, disk>>
  BY <1>8, ForkImplements, ExitImplements
<1> QED BY <1>1, <1>3, <1>4, <1>5, <1>6, <1>7, <1>8 DEF Next

\* Page by page the areas are a PageMap: no call moves rights, contents or
\* offsets of a page to another one, and what a page held is written to its
\* place in the file.
THEOREM Implements ==
  ASSUME WholePages PROVE Spec => IsPageMap
<1>1. Init => Map!Init
  BY InitImplements
<1>2. IInv /\ [Next]_vars => [Map!Next]_Map!vars
  BY NextImplements
<1> QED BY <1>1, <1>2, Inductive, PTL DEF Spec, IsPageMap, Map!Spec
=============================================================================
