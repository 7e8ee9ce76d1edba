------------------------------ MODULE MCAreas ------------------------------
(* Instances of Areas for TLC: three pages, a file of two.                 *)
EXTENDS Areas, FiniteSets, TLC

CONSTANTS s1, s2, f1, f2, zero, one

MCSpaces   == {s1, s2}
MCFrames   == {f1, f2}
MCData     == {zero, one}
MCStarts   == {0, 2, 4}         \* anywhere, page 1, page 2
TwoOrThree == {4, 6}            \* lengths of two pages and three
OneOrTwo   == {2, 4}
OnePage    == {2}
HalfPages  == {1, 2, 3}         \* lengths that end within a page
MCProts    == {{"R"}, {"R", "W"}}
MCContents == {[o \in 0..1 |-> one]}
FromStart  == {0}

\* The bounds: areas, and mapped pages with spaces.
Mapped(s) == UNION {PagesOf(a) : a \in areas[s]}
FewAreas ==
  /\ Cardinality(areas[s1]) + Cardinality(areas[s2]) <= 3
  /\ Cardinality(Mapped(s1)) + Cardinality(Mapped(s2)) + Cardinality(live) <= 4

\* What a frame held before it was given out does not matter.
View == <<live, areas, pt, [f \in Frames \ Free |-> mem[f]], disk>>
Symmetry == Permutations(MCFrames) \cup Permutations(MCSpaces)
=============================================================================
