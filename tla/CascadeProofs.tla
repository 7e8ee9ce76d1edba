---------------------------- MODULE CascadeProofs ----------------------------
(***************************************************************************)
(* Theorems about Cascade, for every width, every capacity of the          *)
(* sub-allocators, and all sizes and alignments: the summary is exact, the *)
(* search for a contiguous run finds the lowest and ends, and the cascade  *)
(* implements Bitmap.  As a leaf is a Bitmap too, so is a cascade of any   *)
(* depth.                                                                  *)
(***************************************************************************)
EXTENDS Cascade, WellFoundedInduction, TLAPS

IInv == TypeOK /\ SummaryExact /\ SearchExact
-----------------------------------------------------------------------------
(* Arithmetic.                                                             *)

\* What the assumptions on the constants come to.
LEMMA Constants == /\ Width \in Nat /\ Width > 0 /\ SubCap \in Nat /\ SubCap > 0
                   /\ Cap \in Nat /\ Cap > 0
<1>1. Width \in Nat /\ Width > 0 /\ SubCap \in Nat /\ SubCap > 0
  BY WidthAssumption, SubCapAssumption
<1> QED BY <1>1 DEF Cap

\* Multiples of c are c apart.
LEMMA Apart ==
  ASSUME NEW a \in Nat, NEW b \in Nat, NEW c \in Nat, a < b
  PROVE  a * c + c <= b * c
<1> DEFINE d == b - a - 1
<1>1. d \in Nat /\ b = a + 1 + d
  OBVIOUS
<1>2. b * c = a * c + c + d * c
  BY <1>1
<1>3. d * c \in Nat
  BY <1>1
<1> QED BY <1>2, <1>3

\* The run of numbers that find_contiguous has before it begins.
LEMMA EmptyRange ==
  ASSUME NEW n \in Nat
  PROVE  n..n - 1 = {}
OBVIOUS

\* A number is its quotient and its remainder.
LEMMA Divided ==
  ASSUME NEW k \in Nat, NEW c \in Nat, c > 0
  PROVE  /\ k \div c \in Nat /\ k % c \in 0..c - 1
         /\ k = (k % c) + (k \div c) * c
OBVIOUS

\* A number is its home and its place.
LEMMA Split ==
  ASSUME NEW k \in Nat
  PROVE  Home(k) \in Nat /\ Place(k) \in Bits /\ k = Number(Home(k), Place(k))
BY Constants, Divided DEF Home, Place, Bits, Number

\* The order of numbers is that of their homes, then of their places.
LEMMA Ordered ==
  ASSUME NEW i \in Nat, NEW j \in Nat, NEW b \in Bits, NEW c \in Bits
  PROVE  /\ i < j => Number(i, b) < Number(j, c)
         /\ i = j => (Number(i, b) <= Number(j, c) <=> b <= c)
         /\ Number(i, b) \in Nat
<1>1. i * SubCap \in Nat /\ j * SubCap \in Nat /\ b \in Nat /\ c \in Nat
      /\ b < SubCap /\ SubCap \in Nat
  BY Constants DEF Bits
<1>2. i < j => i * SubCap + SubCap <= j * SubCap
  BY Apart, Constants
<1> QED BY <1>1, <1>2 DEF Number

\* Home and Place take apart what Number puts together.
LEMMA Joined ==
  ASSUME NEW i \in Nat, NEW b \in Bits
  PROVE  Home(Number(i, b)) = i /\ Place(Number(i, b)) = b
<1> DEFINE n == Number(i, b)
<1>1. n \in Nat
  BY Ordered
<1>2. Home(n) \in Nat /\ Place(n) \in Bits /\ n = Number(Home(n), Place(n))
  BY <1>1, Split
<1> HIDE DEF n
<1>3. n = Number(i, b)
  BY DEF n
<1>4. ~ (Home(n) < i) /\ ~ (i < Home(n))
  BY <1>1, <1>2, <1>3, Ordered
<1>5. Home(n) = i
  BY <1>2, <1>4
<1>6. Place(n) <= b /\ b <= Place(n)
  BY <1>2, <1>3, <1>5, Ordered
<1>7. Place(n) = b
  BY <1>2, <1>6, Constants DEF Bits
<1> QED BY <1>5, <1>7 DEF n

\* The numbers below Cap are those whose home is a sub-allocator.
LEMMA InRange ==
  ASSUME NEW k \in Nat
  PROVE  k \in Numbers <=> Home(k) \in Subs
<1>0. Home(k) \in Nat /\ Place(k) \in Bits /\ k = Number(Home(k), Place(k))
  BY Split
<1>1. /\ Home(k) \in Nat /\ Place(k) \in Nat /\ Place(k) < SubCap
      /\ k = Place(k) + Home(k) * SubCap /\ Home(k) * SubCap \in Nat
  BY <1>0, Constants DEF Bits, Number
<1>2. Home(k) < Width => Home(k) * SubCap + SubCap <= Cap
  BY <1>1, Apart, Constants DEF Cap
<1>3. Home(k) > Width => Cap + SubCap <= Home(k) * SubCap
  BY <1>1, Apart, Constants DEF Cap
<1>4. Home(k) = Width => Home(k) * SubCap = Cap
  BY DEF Cap
<1> QED BY <1>1, <1>2, <1>3, <1>4, Constants DEF Numbers, Subs

\* What AlignUp is: the lowest multiple from k on.
LEMMA Aligned ==
  ASSUME NEW k \in Nat, k > 0, NEW a \in Nat, a > 0
  PROVE  /\ AlignUp(k, a) \in Nat /\ AlignUp(k, a) % a = 0 /\ k <= AlignUp(k, a)
         /\ \A m \in Nat : m % a = 0 /\ m < AlignUp(k, a) => m < k
<1> DEFINE q == (k - 1) \div a
           r == (k - 1) % a
<1>1. q \in Nat /\ r \in 0..a - 1 /\ k - 1 = r + q * a /\ q * a \in Nat
  BY Divided
<1>2. AlignUp(k, a) = (q + 1) * a
  BY DEF AlignUp
<1> HIDE DEF q, r
<1>3. (q + 1) * a = q * a + a
  BY <1>1
<1>4. ASSUME NEW m \in Nat, m % a = 0, m < (q + 1) * a PROVE m < k
  <2> DEFINE p == m \div a
  <2>1. p \in Nat /\ m = p * a
    BY <1>4, Divided
  <2> HIDE DEF p
  <2>2. p > q => q * a + a <= p * a
    BY <1>1, <2>1, Apart
  <2>3. p < q => p * a + a <= q * a
    BY <1>1, <2>1, Apart
  <2>4. p * a <= q * a
    BY <1>1, <1>3, <1>4, <2>1, <2>2, <2>3
  <2> QED BY <1>1, <2>1, <2>4
<1>5. ((q + 1) * a) % a = 0
  <2> DEFINE n == (q + 1) * a
  <2>1. n \in Nat /\ n = (n % a) + (n \div a) * a /\ n % a \in 0..a - 1 /\ n \div a \in Nat
    BY <1>1, <1>3, Divided
  <2> DEFINE p == n \div a
             s == n % a
  <2>2. p \in Nat /\ s \in 0..a - 1 /\ n = s + p * a
    BY <2>1
  <2> HIDE DEF p, s
  <2>3. q + 1 > p => p * a + a <= n
    BY <1>1, <2>2, Apart
  <2>4. q + 1 < p => n + a <= p * a
    BY <1>1, <2>2, Apart
  <2>5. p * a \in Nat
    BY <2>2
  <2>6. q + 1 = p
    BY <1>1, <2>1, <2>2, <2>3, <2>4, <2>5
  <2>7. n = p * a
    BY <2>6
  <2>8. s = 0
    BY <2>2, <2>5, <2>7
  <2> QED BY <2>8 DEF s
<1> QED BY <1>1, <1>2, <1>3, <1>4, <1>5
-----------------------------------------------------------------------------
(* The free numbers.                                                       *)

\* A number is free if its sub-allocator has it.
LEMMA FreeNumber ==
  ASSUME TypeOK, NEW i \in Subs, NEW b \in Bits
  PROVE  Number(i, b) \in Free <=> b \in sub[i]
<1>1. i \in Nat
  BY Constants DEF Subs
<1>2. Home(Number(i, b)) = i /\ Place(Number(i, b)) = b /\ Number(i, b) \in Nat
  BY <1>1, Joined, Ordered
<1>3. Number(i, b) \in Numbers
  BY <1>2, InRange
<1> QED BY <1>2, <1>3 DEF Free, Test

\* Where a free number is found.
LEMMA FreeParts ==
  ASSUME TypeOK, NEW k \in Free
  PROVE  /\ k \in Nat /\ Home(k) \in Subs /\ Place(k) \in Bits
         /\ k = Number(Home(k), Place(k)) /\ Place(k) \in sub[Home(k)]
<1>1. k \in Numbers /\ Place(k) \in sub[Home(k)]
  BY DEF Free, Test
<1>2. k \in Nat
  BY <1>1, Constants DEF Numbers
<1> QED BY <1>1, <1>2, InRange, Split

\* alloc: nothing free if the summary is empty, else the lowest number.
LEMMA AllocExact ==
  ASSUME TypeOK, SummaryExact
  PROVE  /\ bitset = {} <=> Free = {}
         /\ \A i \in bitset : \A b \in sub[i] :
              IsLowest(i, bitset) /\ IsLowest(b, sub[i])
                => IsLowest(Number(i, b), Free)
<1>1. ASSUME bitset = {}, NEW k \in Free PROVE FALSE
  BY <1>1, FreeParts DEF SummaryExact
<1>2. ASSUME NEW i \in bitset, Free = {} PROVE FALSE
  <2>1. PICK b \in sub[i] : TRUE
    BY DEF SummaryExact, TypeOK
  <2>2. i \in Subs /\ b \in Bits
    BY <2>1 DEF TypeOK
  <2> QED BY <1>2, <2>1, <2>2, FreeNumber
<1>3. ASSUME NEW i \in bitset, NEW b \in sub[i],
             IsLowest(i, bitset), IsLowest(b, sub[i])
      PROVE  IsLowest(Number(i, b), Free)
  <2>1. i \in Subs /\ b \in Bits /\ i \in Nat
    BY Constants DEF TypeOK, Subs
  <2>2. Number(i, b) \in Free /\ Number(i, b) \in Nat
    BY <2>1, FreeNumber, Ordered
  <2>3. ASSUME NEW k \in Free PROVE Number(i, b) <= k
    <3>1. /\ k \in Nat /\ Home(k) \in Subs /\ Place(k) \in Bits
          /\ k = Number(Home(k), Place(k)) /\ Place(k) \in sub[Home(k)]
      BY FreeParts
    <3>2. Home(k) \in Nat /\ Home(k) \in bitset
      BY <3>1, Constants DEF SummaryExact, Subs
    <3>3. i <= Home(k)
      BY <1>3, <3>2 DEF IsLowest
    <3>4. i = Home(k) => b <= Place(k)
      BY <1>3, <3>1 DEF IsLowest
    <3>5. i < Home(k) \/ i = Home(k)
      BY <2>1, <3>2, <3>3
    <3>6. CASE i < Home(k)
      <4>1. Number(i, b) < k
        BY <2>1, <3>1, <3>2, <3>6, Ordered
      <4> QED BY <2>2, <3>1, <4>1
    <3>7. CASE i = Home(k)
      BY <2>1, <3>1, <3>2, <3>4, <3>7, Ordered
    <3> QED BY <3>5, <3>6, <3>7
  <2> QED BY <2>2, <2>3 DEF IsLowest
<1> QED BY <1>1, <1>2, <1>3

\* next: the lowest free number from key on.
LEMMA NextExact ==
  ASSUME TypeOK, SummaryExact, NEW key \in Numbers
  PROVE  /\ Hits(key) = {} => \A f \in Free : f < key
         /\ \A k : IsNext(key, k) =>
              k \in Free /\ key <= k /\ \A f \in Free : key <= f => k <= f
<1>1. /\ key \in Nat /\ Home(key) \in Nat /\ Place(key) \in Bits
      /\ key = Number(Home(key), Place(key))
  BY Split, Constants DEF Numbers
<1>2. ASSUME NEW i \in Nat PROVE StartAt(i, key) = IF i = Home(key) THEN Place(key) ELSE 0
  <2>1. key - SubCap * Home(key) = Place(key)
    <3> DEFINE h == Home(key)
               p == Place(key)
    <3>1. h \in Nat /\ p \in Nat /\ key = p + h * SubCap
      BY <1>1, Constants DEF Number, Bits
    <3> HIDE DEF h, p
    <3>2. h * SubCap \in Nat /\ SubCap * h = h * SubCap
      BY <3>1, Constants
    <3>3. key - SubCap * h = p
      BY <3>1, <3>2
    <3> QED BY <3>3 DEF h, p
  <2> QED BY <2>1 DEF StartAt
<1>3. ASSUME NEW f \in Free, key <= f
      PROVE  Home(f) \in Hits(key) /\ Place(f) \in Found(Home(f), key)
  <2>1. /\ f \in Nat /\ Home(f) \in Subs /\ Place(f) \in Bits
        /\ f = Number(Home(f), Place(f)) /\ Place(f) \in sub[Home(f)]
    BY FreeParts
  <2>2. Home(f) \in Nat /\ Home(f) \in bitset /\ Place(f) \in Nat
    BY <2>1, Constants DEF SummaryExact, Subs, Bits
  <2>3. ~ (Home(f) < Home(key))
    <3>1. Home(f) < Home(key) => f < key
      BY <1>1, <2>1, <2>2, Ordered
    <3> QED BY <1>1, <1>3, <2>1, <3>1
  <2>4. Home(f) = Home(key) => Place(key) <= Place(f)
    BY <1>1, <1>3, <2>1, <2>2, Ordered
  <2>5. Place(f) \in Found(Home(f), key)
    BY <1>1, <1>2, <2>1, <2>2, <2>4, Constants DEF Found, Bits
  <2> QED BY <1>1, <2>2, <2>3, <2>5 DEF Hits
<1>4. ASSUME Hits(key) = {}, NEW f \in Free PROVE f < key
  <2>1. ~ (key <= f)
    BY <1>3, <1>4
  <2> QED BY <1>1, <2>1, FreeParts
<1>5. ASSUME NEW k, IsNext(key, k)
      PROVE  k \in Free /\ key <= k /\ \A f \in Free : key <= f => k <= f
  <2>1. PICK i \in Hits(key) : \E b \in Found(i, key) :
          IsLowest(i, Hits(key)) /\ IsLowest(b, Found(i, key)) /\ k = Number(i, b)
    BY <1>5 DEF IsNext
  <2>0. PICK b \in Found(i, key) :
          IsLowest(i, Hits(key)) /\ IsLowest(b, Found(i, key)) /\ k = Number(i, b)
    BY <2>1
  <2>2. /\ i \in Subs /\ i \in Nat /\ b \in Bits /\ b \in Nat /\ b \in sub[i]
        /\ i >= Home(key) /\ b >= StartAt(i, key)
    BY <2>0, Constants DEF Hits, Found, TypeOK, Subs, Bits
  <2>3. k \in Free /\ k \in Nat
    BY <2>0, <2>2, FreeNumber, Ordered
  <2>4. key <= k
    <3>1. CASE i = Home(key)
      <4>1. Place(key) <= b
        BY <1>2, <2>2, <3>1
      <4>2. Number(Home(key), Place(key)) <= Number(Home(key), b)
        BY <1>1, <2>2, <4>1, Ordered
      <4> QED BY <1>1, <2>0, <3>1, <4>2
    <3>2. CASE Home(key) < i
      <4>1. key < k
        BY <1>1, <2>0, <2>2, <3>2, Ordered
      <4> QED BY <1>1, <2>3, <4>1
    <3> QED BY <1>1, <2>2, <3>1, <3>2
  <2>5. ASSUME NEW f \in Free, key <= f PROVE k <= f
    <3>1. Home(f) \in Hits(key) /\ Place(f) \in Found(Home(f), key)
      BY <1>3, <2>5
    <3>2. /\ f \in Nat /\ Home(f) \in Nat /\ Place(f) \in Bits
          /\ f = Number(Home(f), Place(f))
      BY FreeParts, Constants DEF Subs
    <3>3. i <= Home(f)
      BY <2>0, <3>1 DEF IsLowest
    <3>4. i = Home(f) => b <= Place(f)
      BY <2>0, <3>1 DEF IsLowest
    <3>5. CASE i < Home(f)
      <4>1. k < f
        BY <2>0, <2>2, <3>2, <3>5, Ordered
      <4> QED BY <2>3, <3>2, <4>1
    <3>6. CASE i = Home(f)
      <4>1. Number(Home(f), b) <= Number(Home(f), Place(f))
        BY <2>2, <3>2, <3>4, <3>6, Ordered
      <4> QED BY <2>0, <3>2, <3>6, <4>1
    <3> QED BY <2>2, <3>2, <3>3, <3>5, <3>6
  <2> QED BY <2>3, <2>4, <2>5
<1> QED BY <1>4, <1>5
-----------------------------------------------------------------------------
(* Ranges.                                                                 *)

\* A number against one that is given by its parts.
LEMMA Compared ==
  ASSUME NEW k \in Nat, NEW i \in Nat, NEW b \in Bits
  PROVE  /\ Home(k) < i => k < Number(i, b)
         /\ i < Home(k) => Number(i, b) < k
         /\ Home(k) = i => (k <= Number(i, b) <=> Place(k) <= b)
         /\ Home(k) = i => (Number(i, b) <= k <=> b <= Place(k))
<1>1. Home(k) \in Nat /\ Place(k) \in Bits /\ k = Number(Home(k), Place(k))
  BY Split
<1>2. Home(k) < i => Number(Home(k), Place(k)) < Number(i, b)
  BY <1>1, Ordered
<1>3. i < Home(k) => Number(i, b) < Number(Home(k), Place(k))
  BY <1>1, Ordered
<1>4. Number(Home(k), Place(k)) <= Number(Home(k), b) <=> Place(k) <= b
  BY <1>1, Ordered
<1>5. Number(Home(k), b) <= Number(Home(k), Place(k)) <=> b <= Place(k)
  BY <1>1, Ordered
<1>6. Home(k) = i => (k <= Number(i, b) <=> Place(k) <= b)
  BY <1>1, <1>4
<1>7. Home(k) = i => (Number(i, b) <= k <=> b <= Place(k))
  BY <1>1, <1>5
<1> QED BY <1>1, <1>2, <1>3, <1>6, <1>7

\* for_range covers the numbers of the range, and no others.
LEMMA PartExact ==
  ASSUME NEW start \in Numbers, NEW end \in start + 1..Cap, NEW i \in Subs, NEW b \in Bits
  PROVE  i \in Visited(start, end) /\ b \in Part(i, start, end)
           <=> Number(i, b) \in start..end - 1
<1> DEFINE n == Number(i, b)
           last == end - 1
<1>1. /\ start \in Nat /\ end \in Nat /\ last \in Nat /\ end = last + 1
      /\ i \in Nat /\ b \in Nat /\ b < SubCap /\ SubCap \in Nat
  BY Constants DEF Numbers, Subs, Bits
<1>2. n \in Nat
  BY <1>1, Ordered
<1>3. /\ Home(start) \in Nat /\ Place(start) \in Bits /\ start = Number(Home(start), Place(start))
      /\ Home(end) \in Nat /\ Place(end) \in Bits /\ end = Number(Home(end), Place(end))
      /\ Home(last) \in Nat /\ Place(last) \in Bits /\ last = Number(Home(last), Place(last))
  BY <1>1, Split
<1>4. Place(start) \in Nat /\ Place(end) \in Nat /\ Place(last) \in Nat
  BY <1>3, Constants DEF Bits
<1> HIDE DEF n, last
\* n against the two ends, by home and place.
<1>5. /\ Home(start) < i => start < n
      /\ i < Home(start) => n < start
      /\ Home(start) = i => (start <= n <=> Place(start) <= b)
  BY <1>1, Compared DEF n
<1>6. /\ Home(last) < i => last < n
      /\ i < Home(last) => n < last
      /\ Home(last) = i => (n <= last <=> b <= Place(last))
  BY <1>1, Compared DEF n
<1>7. /\ Home(end) < i => end < n
      /\ i < Home(end) => n < end
      /\ Home(end) = i => (end <= n <=> Place(end) <= b)
  BY <1>1, Compared DEF n
<1>8. Home(last) <= Home(end)
  <2>1. Home(end) < Home(last) => end < last
    BY <1>3, Ordered
  <2> QED BY <1>1, <1>3, <2>1
<1>9. i \in Visited(start, end) <=> Home(start) <= i /\ i <= Home(last)
  BY <1>1, <1>3 DEF Visited, last
<1>10. b \in Part(i, start, end)
         <=> /\ Home(start) = i => Place(start) <= b
             /\ Home(end) = i => b < Place(end)
  BY <1>1, <1>4 DEF Part, PartBegin, PartEnd
<1>11. n \in start..end - 1 <=> start <= n /\ n < end /\ n <= last
  BY <1>1, <1>2
<1>12. start <= n <=> Home(start) <= i /\ (Home(start) = i => Place(start) <= b)
  BY <1>1, <1>2, <1>3, <1>4, <1>5
<1>13. ASSUME i <= Home(last) PROVE n < end <=> (Home(end) = i => b < Place(end))
  BY <1>1, <1>2, <1>3, <1>4, <1>7, <1>8, <1>13
<1>14. ~ (i <= Home(last)) => ~ (n <= last)
  BY <1>1, <1>2, <1>3, <1>6
<1>15. n < end <=> n <= last
  BY <1>1, <1>2
<1>16. i \in Visited(start, end) /\ b \in Part(i, start, end) <=> n \in start..end - 1
  BY <1>9, <1>10, <1>11, <1>12, <1>13, <1>14, <1>15
<1> QED BY <1>16 DEF n

\* A part of a range never reaches beyond its sub-allocator.
LEMMA PartIsBits ==
  ASSUME NEW start \in Numbers, NEW end \in Nat, NEW i \in Subs
  PROVE  Part(i, start, end) \subseteq Bits
<1>1. Place(start) \in Bits /\ Place(end) \in Bits
  BY Split, Constants DEF Numbers
<1> QED BY <1>1, Constants DEF Part, PartBegin, PartEnd, Bits

\* What a change of single sub-allocators makes of the free numbers.
LEMMA FreeAfter ==
  ASSUME NEW f \in [Subs -> SUBSET Bits], sub' = f
  PROVE  Free' = {k \in Numbers : Place(k) \in f[Home(k)]}
BY DEF Free, Test, Place, Home, Numbers, Cap

\* insert and remove change what is in the range, and keep the summary exact.
LEMMA RangeExact ==
  ASSUME TypeOK, SummaryExact, NEW start \in Numbers, NEW end \in start + 1..Cap
  PROVE  /\ InsertRange(start, end) =>
              /\ Free' = Free \cup (start..end - 1)
              /\ bitset' \subseteq Subs /\ sub' \in [Subs -> SUBSET Bits] /\ SummaryExact'
         /\ RemoveRange(start, end) =>
              /\ Free' = Free \ (start..end - 1)
              /\ bitset' \subseteq Subs /\ sub' \in [Subs -> SUBSET Bits] /\ SummaryExact'
<1> DEFINE ins == [i \in Subs |-> IF i \in Visited(start, end) THEN Inserted(i, start, end) ELSE sub[i]]
           rem == [i \in Subs |-> IF i \in Visited(start, end) THEN Removed(i, start, end) ELSE sub[i]]
<1>1. end \in Nat /\ start..end - 1 \subseteq Numbers
  BY Constants DEF Numbers
<1>2. ASSUME NEW i \in Subs PROVE sub[i] \subseteq Bits /\ Part(i, start, end) \subseteq Bits
  BY <1>1, PartIsBits DEF TypeOK
<1>3. ins \in [Subs -> SUBSET Bits] /\ rem \in [Subs -> SUBSET Bits]
  BY <1>2 DEF Inserted, Removed
<1>4. ASSUME NEW k \in Numbers
      PROVE  /\ Home(k) \in Subs
             /\ k \in Free <=> Place(k) \in sub[Home(k)]
             /\ Home(k) \in Visited(start, end) /\ Place(k) \in Part(Home(k), start, end)
                  <=> k \in start..end - 1
  <2>1. k \in Nat
    BY Constants DEF Numbers
  <2>2. Home(k) \in Subs /\ Place(k) \in Bits /\ k = Number(Home(k), Place(k))
    BY <2>1, InRange, Split
  <2> QED BY <2>2, PartExact DEF Free, Test
<1>5. ASSUME InsertRange(start, end)
      PROVE  /\ Free' = Free \cup (start..end - 1)
             /\ bitset' \subseteq Subs /\ sub' \in [Subs -> SUBSET Bits] /\ SummaryExact'
  <2>1. sub' = ins
    BY <1>5 DEF InsertRange, Replace
  <2>2. Free' = {k \in Numbers : Place(k) \in ins[Home(k)]}
    BY <1>3, <2>1, FreeAfter
  <2>3. ASSUME NEW k \in Numbers
        PROVE  Place(k) \in ins[Home(k)] <=> k \in Free \/ k \in start..end - 1
    BY <1>4 DEF Inserted
  <2>4. Free' = Free \cup (start..end - 1)
    BY <1>1, <2>2, <2>3 DEF Free
  <2>5. bitset' = {i \in Subs : ins[i] # {}}
    BY <1>5 DEF InsertRange, Replace, SummaryExact
  <2> QED BY <1>3, <2>1, <2>4, <2>5 DEF SummaryExact, Subs
<1>6. ASSUME RemoveRange(start, end)
      PROVE  /\ Free' = Free \ (start..end - 1)
             /\ bitset' \subseteq Subs /\ sub' \in [Subs -> SUBSET Bits] /\ SummaryExact'
  <2>1. sub' = rem
    BY <1>6 DEF RemoveRange, Replace
  <2>2. Free' = {k \in Numbers : Place(k) \in rem[Home(k)]}
    BY <1>3, <2>1, FreeAfter
  <2>3. ASSUME NEW k \in Numbers
        PROVE  Place(k) \in rem[Home(k)] <=> k \in Free /\ k \notin start..end - 1
    BY <1>4 DEF Removed
  <2>4. Free' = Free \ (start..end - 1)
    BY <1>1, <2>2, <2>3 DEF Free
  <2>5. bitset' = {i \in Subs : rem[i] # {}}
    BY <1>6 DEF RemoveRange, Replace, SummaryExact
  <2> QED BY <1>3, <2>1, <2>4, <2>5 DEF SummaryExact, Subs
<1> QED BY <1>5, <1>6
-----------------------------------------------------------------------------
(* The invariant.                                                          *)

\* A search that finds nothing free from offset up to k passes over no run.
LEMMA NoRun ==
  ASSUME IInv, pc = "search",
         NEW k \in Nat, offset < k, offset \notin Free, \A f \in Free : offset <= f => k <= f,
         NEW start \in Numbers, start < k, start % want.align = 0
  PROVE  ~ (Run(start) \subseteq Free)
<1>1. /\ start \in Nat /\ base \in Nat /\ offset \in Nat
      /\ want.size \in Nat /\ want.size > 0
  BY Constants DEF IInv, TypeOK, Numbers
<1>2. CASE start < base
  BY <1>2 DEF IInv, SearchExact
<1>3. CASE base <= start /\ start <= offset
  <2>1. offset < base + want.size
    BY DEF IInv, SearchExact
  <2>2. offset \in Run(start)
    BY <1>1, <1>3, <2>1 DEF Run
  <2> QED BY <2>2
<1>4. CASE offset < start
  <2>1. start \in Run(start)
    BY <1>1 DEF Run
  <2>2. start \notin Free
    BY <1>1, <1>4
  <2> QED BY <2>1, <2>2
<1> QED BY <1>1, <1>2, <1>3, <1>4

\* The allocator begins with nothing free.
LEMMA Beginning == Init => IInv /\ Free = {}
<1> SUFFICES ASSUME Init PROVE IInv /\ Free = {}
  OBVIOUS
<1>1. TypeOK
  BY DEF Init, TypeOK, NoWant, Subs
<1>2. SummaryExact /\ SearchExact
  BY DEF Init, SummaryExact, SearchExact
<1>3. Free = {}
  BY <1>1, FreeParts DEF Init
<1> QED BY <1>1, <1>2, <1>3 DEF IInv

\* The step that takes a found run out of the free numbers.
LEMMA Taken ==
  ASSUME IInv, Extend, offset + 1 - base = want.size
  PROVE  /\ base \in Numbers /\ base + want.size \in base + 1..Cap
         /\ Run(base) \subseteq Free /\ want.align <= Cap /\ base % want.align = 0
         /\ \A start \in 0..base - 1 : start % want.align = 0 => ~ (Run(start) \subseteq Free)
<1>1. /\ base \in Nat /\ offset \in Nat /\ want.size \in Nat /\ want.size > 0
      /\ base <= offset /\ offset < Cap /\ Cap \in Nat
  BY Constants DEF IInv, TypeOK, SearchExact, Extend
<1>2. base \in Numbers /\ offset \in Numbers /\ base + want.size \in base + 1..Cap
  BY <1>1 DEF Numbers
<1>3. offset \in Free
  BY <1>2, NextExact DEF IInv, Extend
<1>4. base..offset - 1 \subseteq Free
  BY DEF IInv, SearchExact, Extend
<1>5. ASSUME NEW n \in Run(base) PROVE n \in base..offset - 1 \/ n = offset
  BY <1>1 DEF Run
<1>6. 0..base - 1 \subseteq Numbers
  BY <1>1 DEF Numbers
<1>7. \A start \in 0..base - 1 : start < base
  BY <1>1
<1>8. ASSUME NEW start \in 0..base - 1, start % want.align = 0
      PROVE  ~ (Run(start) \subseteq Free)
  BY <1>6, <1>7, <1>8 DEF IInv, SearchExact, Extend
<1> QED BY <1>2, <1>3, <1>4, <1>5, <1>8 DEF IInv, SearchExact, Extend

\* Every step keeps the invariant.
LEMMA Stepping == IInv /\ [Next]_vars => IInv'
<1> SUFFICES ASSUME IInv, [Next]_vars PROVE IInv'
  OBVIOUS
<1> USE DEF IInv
<1>1. CASE Alloc
  <2>1. pc' = pc /\ pc = "ready" /\ UNCHANGED search
    BY <1>1 DEF Alloc, search
  <2>2. SearchExact'
    BY <2>1 DEF SearchExact
  <2>3. CASE bitset = {} /\ reply' = Nothing /\ UNCHANGED <<bitset, sub>>
    BY <2>1, <2>2, <2>3 DEF TypeOK, SummaryExact, search
  <2>4. ASSUME NEW i \in bitset, NEW b \in sub[i],
               IsLowest(i, bitset) /\ IsLowest(b, sub[i]),
               sub' = [sub EXCEPT ![i] = @ \ {b}],
               bitset' = Marked(i, sub[i] \ {b}),
               reply' = Number(i, b)
        PROVE  IInv'
    <3>1. Number(i, b) \in Numbers
      BY <2>4, AllocExact DEF IsLowest, Free
    <3>2. TypeOK'
      BY <2>1, <2>4, <3>1 DEF TypeOK, Marked, search
    <3>3. SummaryExact'
      BY <2>4 DEF TypeOK, SummaryExact, Marked, Subs
    <3> QED BY <2>2, <3>2, <3>3
  <2> QED BY <1>1, <2>3, <2>4 DEF Alloc
<1>2. ASSUME NEW k \in Numbers, Dealloc(k) PROVE IInv'
  <2>1. pc' = pc /\ pc = "ready" /\ UNCHANGED search
    BY <1>2 DEF Dealloc, search
  <2>2. Home(k) \in Subs /\ Place(k) \in Bits
    BY InRange, Split, Constants DEF Numbers
  <2>3. TypeOK'
    BY <1>2, <2>1, <2>2 DEF Dealloc, TypeOK, search
  <2>4. SummaryExact'
    BY <1>2, <2>2 DEF Dealloc, TypeOK, SummaryExact, Subs
  <2>5. SearchExact'
    BY <2>1 DEF SearchExact
  <2> QED BY <2>3, <2>4, <2>5
<1>3. ASSUME NEW start \in Numbers, NEW end \in start + 1..Cap,
             Insert(start, end) \/ Remove(start, end)
      PROVE  IInv'
  <2>1. pc' = pc /\ pc = "ready" /\ UNCHANGED <<search, reply>>
    BY <1>3 DEF Insert, Remove, search
  <2>2. bitset' \subseteq Subs /\ sub' \in [Subs -> SUBSET Bits] /\ SummaryExact'
    BY <1>3, RangeExact DEF Insert, Remove
  <2>3. TypeOK'
    BY <2>1, <2>2 DEF TypeOK, search
  <2>4. SearchExact'
    BY <2>1 DEF SearchExact
  <2> QED BY <2>2, <2>3, <2>4
<1>4. ASSUME NEW size \in Sizes, NEW align \in Aligns, AllocContiguous(size, align)
      PROVE  IInv'
  <2>1. size \in Nat \ {0} /\ align \in Nat \ {0}
    BY SizesAssumption, AlignsAssumption
  <2>2. CASE Cap < align \/ bitset = {}
    BY <1>4, <2>2 DEF AllocContiguous, TypeOK, SummaryExact, SearchExact, search
  <2>3. CASE ~ (Cap < align \/ bitset = {})
    <3>1. /\ want' = [size |-> size, align |-> align] /\ base' = 0 /\ offset' = 0
          /\ pc' = "search" /\ UNCHANGED <<bitset, sub, reply>>
      BY <1>4, <2>3 DEF AllocContiguous
    <3>2. TypeOK' /\ SummaryExact'
      BY <2>1, <3>1 DEF TypeOK, SummaryExact
    <3>3. SearchExact'
      <4>1. want'.align <= Cap /\ want'.size > 0 /\ 0 % want'.align = 0
        BY <2>1, <2>3, <3>1, Constants
      <4>2. \A start \in Numbers : ~ (start < 0)
        BY Constants DEF Numbers
      <4>3. base'..offset' - 1 = {}
        BY <3>1
      <4>4. want'.size \in Nat
        BY <2>1, <3>1
      <4> QED BY <3>1, <4>1, <4>2, <4>3, <4>4 DEF SearchExact
    <3> QED BY <3>2, <3>3
  <2> QED BY <2>2, <2>3
<1>5. CASE GiveUp
  BY <1>5 DEF GiveUp, Answer, TypeOK, SummaryExact, SearchExact, NoWant
<1>6. CASE Skip
  <2>0. PICK k \in Numbers : IsNext(offset, k) /\ k # offset /\ base' = AlignUp(k, want.align)
    BY <1>6 DEF Skip
  <2>1. /\ offset' = base' /\ pc = "search" /\ offset < Cap
        /\ UNCHANGED <<bitset, sub, pc, want, reply>>
    BY <1>6 DEF Skip, Resumed
  <2>2. offset \in Numbers /\ offset \in Nat /\ k \in Nat
    BY <2>1, Constants DEF Numbers, TypeOK
  <2>3. offset <= k /\ \A f \in Free : offset <= f => k <= f
    BY <2>0, <2>2, NextExact
  <2>4. offset < k /\ k > 0 /\ offset \notin Free
    BY <2>0, <2>2, <2>3
  <2>5. want.align \in Nat /\ want.align > 0 /\ want.size \in Nat /\ want.size > 0
    BY DEF TypeOK
  <2>6. /\ base' \in Nat /\ base' % want.align = 0
        /\ \A m \in Nat : m % want.align = 0 /\ m < base' => m < k
    BY <2>0, <2>2, <2>4, <2>5, Aligned
  <2>7. TypeOK' /\ SummaryExact'
    BY <2>1, <2>6 DEF TypeOK, SummaryExact
  <2>8. Free' = Free
    BY <2>1 DEF Free, Test
  <2>9. ASSUME NEW start \in Numbers, start < base', start % want.align = 0
        PROVE  ~ (Run(start) \subseteq Free)
    <3>1. start < k
      BY <2>6, <2>9, Constants DEF Numbers
    <3> QED BY <2>1, <2>2, <2>3, <2>4, <2>9, <3>1, NoRun
  <2>10. base'..offset' - 1 = {} /\ base' <= offset' /\ offset' < base' + want.size
    <3>1. base' \in Nat /\ offset' = base'
      BY <2>1, <2>6
    <3>2. base'..offset' - 1 = {}
      BY <3>1, EmptyRange
    <3>3. base' < base' + want.size
      BY <2>5, <3>1
    <3>4. base' <= offset' /\ offset' < base' + want.size
      BY <3>1, <3>3
    <3> QED BY <3>2, <3>4
  <2>11. SearchExact'
    BY <2>1, <2>6, <2>8, <2>9, <2>10 DEF SearchExact, Run
  <2> QED BY <2>7, <2>11
<1>7. CASE Extend
  <2>1. CASE offset + 1 - base = want.size
    <3>1. RemoveRange(base, base + want.size) /\ Answer(base)
      BY <1>7, <2>1 DEF Extend
    <3>2. base \in Numbers /\ base + want.size \in base + 1..Cap
      BY <1>7, <2>1, Taken
    <3>3. bitset' \subseteq Subs /\ sub' \in [Subs -> SUBSET Bits] /\ SummaryExact'
      BY <3>1, <3>2, RangeExact
    <3>4. TypeOK' /\ SearchExact'
      BY <3>1, <3>2, <3>3 DEF Answer, TypeOK, SearchExact, NoWant
    <3> QED BY <3>3, <3>4
  <2>2. CASE offset + 1 - base # want.size
    <3>1. /\ offset' = offset + 1 /\ UNCHANGED <<bitset, sub, pc, want, base, reply>>
          /\ pc = "search" /\ offset < Cap /\ IsNext(offset, offset)
      BY <1>7, <2>2 DEF Extend
    <3>2. TypeOK' /\ SummaryExact'
      BY <3>1 DEF TypeOK, SummaryExact
    <3>3. Free' = Free
      BY <3>1 DEF Free, Test
    <3>4. offset \in Nat /\ base \in Nat /\ want.size \in Nat /\ offset \in Numbers
      BY <3>1, Constants DEF TypeOK, Numbers
    <3>5. offset \in Free
      BY <3>1, <3>4, NextExact
    <3>6. base <= offset /\ offset < base + want.size /\ base..offset - 1 \subseteq Free
      BY <3>1 DEF SearchExact
    <3>7. base <= offset' /\ offset' < base + want.size
      BY <2>2, <3>1, <3>4, <3>6
    <3>8. base..offset' - 1 \subseteq Free
      <4>1. \A n \in base..offset' - 1 : n \in base..offset - 1 \/ n = offset
        BY <3>1, <3>4
      <4> QED BY <3>5, <3>6, <4>1
    <3>9. SearchExact'
      BY <3>1, <3>3, <3>7, <3>8 DEF SearchExact, Run
    <3> QED BY <3>2, <3>9
  <2> QED BY <2>1, <2>2
<1>8. CASE UNCHANGED vars
  BY <1>8 DEF vars, search, TypeOK, SummaryExact, SearchExact, Free, Test, Run
<1> QED BY <1>1, <1>2, <1>3, <1>4, <1>5, <1>6, <1>7, <1>8 DEF Next, Search

\* The types, the exact summary, and what the search has found out, hold for
\* every width, capacity, size and alignment.
THEOREM Inductive == Spec => []IInv
<1>1. Init => IInv
  BY Beginning
<1>2. IInv /\ [Next]_vars => IInv'
  BY Stepping
<1> QED BY <1>1, <1>2, PTL DEF Spec

\* Every variable stays in its range.
THEOREM Typing == Spec => []TypeOK
<1>1. IInv => TypeOK
  BY DEF IInv
<1> QED BY <1>1, Inductive, PTL

\* The summary has the bit of exactly the sub-allocators with free numbers.
THEOREM SummaryIsExact == Spec => []SummaryExact
<1>1. IInv => SummaryExact
  BY DEF IInv
<1> QED BY <1>1, Inductive, PTL

\* find_contiguous passes over no aligned run that is long enough.
THEOREM SearchIsExact == Spec => []SearchExact
<1>1. IInv => SearchExact
  BY DEF IInv
<1> QED BY <1>1, Inductive, PTL
-----------------------------------------------------------------------------
(* The refinement.                                                         *)

\* Every run the search can take fits in the sense of Bitmap, and no other.
LEMMA Fitting ==
  ASSUME SearchExact, pc = "search", NEW start
  PROVE  Abstract!Fits(start, want.size, want.align)
           <=> start % want.align = 0 /\ Run(start) \subseteq Free
BY DEF Abstract!Fits, SearchExact, Run

\* Every step is one of Bitmap, or changes nothing it knows of.
LEMMA Refines == IInv /\ [Next]_vars => [Abstract!Next]_(Abstract!vars)
<1> SUFFICES ASSUME IInv, [Next]_vars PROVE [Abstract!Next]_(Abstract!vars)
  OBVIOUS
<1> USE DEF IInv
<1>0. Abstract!Nothing = Nothing /\ Abstract!Numbers = Numbers
  BY DEF Abstract!Nothing, Nothing, Abstract!Numbers, Numbers
<1>1. CASE Alloc
  <2>1. CASE bitset = {} /\ reply' = Nothing /\ UNCHANGED <<bitset, sub>>
    <3>1. Free = {} /\ Free' = Free
      BY <2>1, AllocExact DEF Free, Test
    <3> QED BY <1>0, <2>1, <3>1 DEF Abstract!Next, Abstract!Alloc
  <2>2. ASSUME NEW i \in bitset, NEW b \in sub[i],
               IsLowest(i, bitset) /\ IsLowest(b, sub[i]),
               sub' = [sub EXCEPT ![i] = @ \ {b}],
               reply' = Number(i, b)
        PROVE  Abstract!Alloc
    <3>1. IsLowest(Number(i, b), Free) /\ Number(i, b) \in Free
      BY <2>2, AllocExact DEF IsLowest
    <3>2. i \in Subs /\ b \in Bits /\ i \in Nat
      BY Constants DEF TypeOK, Subs
    <3> DEFINE f == [sub EXCEPT ![i] = @ \ {b}]
    <3>3. f \in [Subs -> SUBSET Bits]
      BY <3>2 DEF TypeOK
    <3>4. Free' = {k \in Numbers : Place(k) \in f[Home(k)]}
      BY <2>2, <3>3, FreeAfter
    <3>5. ASSUME NEW k \in Numbers
          PROVE  Place(k) \in f[Home(k)] <=> k \in Free /\ k # Number(i, b)
      <4>1. k \in Nat
        BY Constants DEF Numbers
      <4>2. Home(k) \in Subs /\ Place(k) \in Bits /\ k = Number(Home(k), Place(k))
        BY <4>1, InRange, Split
      <4>3. k = Number(i, b) <=> Home(k) = i /\ Place(k) = b
        BY <3>2, <4>2, Joined
      <4>4. k \in Free <=> Place(k) \in sub[Home(k)]
        BY DEF Free, Test
      <4> QED BY <4>2, <4>3, <4>4 DEF TypeOK
    <3>6. Free' = Free \ {Number(i, b)}
      BY <3>4, <3>5 DEF Free
    <3> QED BY <2>2, <3>1, <3>6 DEF Abstract!Alloc, Abstract!IsLowest, IsLowest
  <2> QED BY <1>1, <2>1, <2>2 DEF Alloc, Abstract!Next
<1>2. ASSUME NEW k \in Numbers, Dealloc(k) PROVE Abstract!Dealloc(k)
  <2>1. k \in Nat
    BY Constants DEF Numbers
  <2>2. Home(k) \in Subs /\ Place(k) \in Bits /\ k = Number(Home(k), Place(k))
    BY <2>1, InRange, Split
  <2> DEFINE f == [sub EXCEPT ![Home(k)] = @ \cup {Place(k)}]
  <2>3. f \in [Subs -> SUBSET Bits]
    BY <2>2 DEF TypeOK
  <2>4. Free' = {n \in Numbers : Place(n) \in f[Home(n)]}
    BY <1>2, <2>3, FreeAfter DEF Dealloc
  <2>5. ASSUME NEW n \in Numbers
        PROVE  Place(n) \in f[Home(n)] <=> n \in Free \/ n = k
    <3>1. n \in Nat
      BY Constants DEF Numbers
    <3>2. Home(n) \in Subs /\ n = Number(Home(n), Place(n))
      BY <3>1, InRange, Split
    <3>3. n \in Free <=> Place(n) \in sub[Home(n)]
      BY DEF Free, Test
    <3> QED BY <2>2, <3>2, <3>3 DEF TypeOK
  <2>6. Free' = Free \cup {k}
    BY <2>4, <2>5 DEF Free
  <2>7. k \notin Free /\ reply' = reply
    BY <1>2 DEF Dealloc, Free
  <2> QED BY <2>6, <2>7 DEF Abstract!Dealloc
<1>3. ASSUME NEW start \in Numbers, NEW end \in start + 1..Cap
      PROVE  /\ Insert(start, end) => Abstract!Insert(start, end)
             /\ Remove(start, end) => Abstract!Remove(start, end)
  BY RangeExact DEF Insert, Remove, Abstract!Insert, Abstract!Remove
<1>4. ASSUME NEW size \in Sizes, NEW align \in Aligns, AllocContiguous(size, align)
      PROVE  Abstract!AllocContiguous(size, align) \/ UNCHANGED <<Free, reply>>
  <2>1. Free' = Free
    BY <1>4 DEF AllocContiguous, Free, Test
  <2>2. CASE Cap < align \/ bitset = {}
    <3>1. reply' = Nothing
      BY <1>4, <2>2 DEF AllocContiguous
    <3>2. size \in Nat /\ size > 0 /\ align \in Nat
      BY SizesAssumption, AlignsAssumption
    <3>3. ASSUME NEW start \in Numbers, Abstract!Fits(start, size, align) PROVE FALSE
      <4>1. align <= Cap /\ start..start + size - 1 \subseteq Free
        BY <3>3 DEF Abstract!Fits
      <4>2. start \in start..start + size - 1
        BY <3>2, Constants DEF Numbers
      <4>3. Free # {}
        BY <4>1, <4>2
      <4>4. bitset # {}
        BY <4>3, AllocExact
      <4>5. ~ (Cap < align)
        BY <3>2, <4>1, Constants
      <4> QED BY <2>2, <4>4, <4>5
    <3> QED BY <1>0, <2>1, <3>1, <3>3 DEF Abstract!AllocContiguous
  <2>3. CASE ~ (Cap < align \/ bitset = {})
    BY <1>4, <2>1, <2>3 DEF AllocContiguous
  <2> QED BY <2>2, <2>3
<1>5. CASE GiveUp
  <2>1. /\ reply' = Nothing /\ Free' = Free /\ pc = "search"
        /\ offset >= Cap \/ Hits(offset) = {}
    BY <1>5 DEF GiveUp, Answer, Free, Test
  <2>2. offset \in Nat /\ want.size \in Sizes /\ want.align \in Aligns
    BY <2>1 DEF TypeOK, SearchExact
  <2> DEFINE k == Cap + offset + 1
  <2>3. k \in Nat /\ offset < k /\ \A n \in Numbers : n < k
    BY <2>2, Constants DEF Numbers
  <2>4. \A f \in Free : f < offset
    <3>1. CASE offset >= Cap
      BY <2>2, <3>1, Constants DEF Free, Numbers
    <3>2. CASE ~ (offset >= Cap)
      <4>1. offset \in Numbers
        BY <2>2, <3>2, Constants DEF Numbers
      <4> QED BY <2>1, <3>2, <4>1, NextExact
    <3> QED BY <3>1, <3>2
  <2>5. Free \subseteq Nat
    BY Constants DEF Free, Numbers
  <2>6. offset \notin Free /\ \A f \in Free : offset <= f => k <= f
    BY <2>2, <2>4, <2>5
  <2> HIDE DEF k
  <2>7. ASSUME NEW start \in Numbers PROVE ~ Abstract!Fits(start, want.size, want.align)
    <3>1. start % want.align = 0 => ~ (Run(start) \subseteq Free)
      BY <2>1, <2>3, <2>6, NoRun
    <3> QED BY <2>1, <3>1, Fitting
  <2>8. Abstract!AllocContiguous(want.size, want.align)
    BY <1>0, <2>1, <2>7 DEF Abstract!AllocContiguous
  <2> QED BY <2>2, <2>8 DEF Abstract!Next
<1>6. CASE Skip
  BY <1>6 DEF Skip, Abstract!vars, Free, Test
<1>7. CASE Extend
  <2>1. CASE offset + 1 - base = want.size
    <3>1. RemoveRange(base, base + want.size) /\ reply' = base /\ pc = "search"
      BY <1>7, <2>1 DEF Extend, Answer
    <3>2. /\ base \in Numbers /\ base + want.size \in base + 1..Cap
          /\ Run(base) \subseteq Free /\ want.align <= Cap /\ base % want.align = 0
          /\ \A start \in 0..base - 1 : start % want.align = 0 => ~ (Run(start) \subseteq Free)
      BY <1>7, <2>1, Taken
    <3>3. Free' = Free \ (base..base + want.size - 1)
      <4>1. RemoveRange(base, base + want.size)
        BY <3>1
      <4>2. base \in Numbers /\ base + want.size \in base + 1..Cap
        BY <3>2
      <4>3. Free' = Free \ (base..(base + want.size) - 1)
        BY <4>1, <4>2, RangeExact
      <4>4. (base + want.size) - 1 = base + want.size - 1
        BY DEF TypeOK
      <4> QED BY <4>3, <4>4
    <3>4. Abstract!Fits(base, want.size, want.align)
      BY <3>1, <3>2, Fitting
    <3>5. \A lower \in 0..base - 1 : ~ Abstract!Fits(lower, want.size, want.align)
      BY <3>1, <3>2, Fitting
    <3>6. Abstract!AllocContiguous(want.size, want.align)
      BY <1>0, <3>1, <3>2, <3>3, <3>4, <3>5 DEF Abstract!AllocContiguous
    <3>7. want.size \in Sizes /\ want.align \in Aligns
      BY <3>1 DEF SearchExact
    <3> QED BY <3>6, <3>7 DEF Abstract!Next
  <2>2. CASE offset + 1 - base # want.size
    BY <1>7, <2>2 DEF Extend, Abstract!vars, Free, Test
  <2> QED BY <2>1, <2>2
<1>8. CASE UNCHANGED vars
  BY <1>8 DEF vars, Abstract!vars, Free, Test
<1>9. ASSUME NEW size \in Sizes, NEW align \in Aligns, AllocContiguous(size, align)
      PROVE  [Abstract!Next]_(Abstract!vars)
  BY <1>4, <1>9 DEF Abstract!Next, Abstract!vars
<1>10. ASSUME NEW start \in Numbers, NEW end \in start + 1..Cap,
              Insert(start, end) \/ Remove(start, end)
       PROVE  Abstract!Next
  BY <1>0, <1>3, <1>10 DEF Abstract!Next
<1>11. ASSUME NEW k \in Numbers, Dealloc(k) PROVE Abstract!Next
  BY <1>0, <1>2, <1>11 DEF Abstract!Next
<1>12. Alloc => Abstract!Next \/ UNCHANGED Abstract!vars
  BY <1>1
<1> QED BY <1>5, <1>6, <1>7, <1>8, <1>9, <1>10, <1>11, <1>12 DEF Next, Search

\* The cascade implements Bitmap: what is handed out was free, is the lowest,
\* or begins the lowest aligned run of the size asked for.
THEOREM Implements == Spec => IsBitmap
<1>1. Init => Abstract!Init
  BY Beginning DEF Init, Abstract!Init, Nothing, Abstract!Nothing
<1>2. IInv /\ [Next]_vars => [Abstract!Next]_(Abstract!vars)
  BY Refines
<1> QED BY <1>1, <1>2, Inductive, PTL DEF Spec, IsBitmap, Abstract!Spec
-----------------------------------------------------------------------------
(* The loop of find_contiguous.  That it comes back needs fairness, and    *)
(* TLC checks it; what it rests on needs none.                             *)

Less == {ss \in Nat \X Nat : ss[1] < ss[2]}

\* A set of numbers that is not empty has a lowest one.
LEMMA HasLowest ==
  ASSUME NEW S \in SUBSET Nat, S # {}
  PROVE  \E k \in S : IsLowest(k, S)
<1>1. IsWellFoundedOn(Less, Nat)
  BY NatLessThanWellFounded DEF OpToRel, Less
<1>2. PICK k \in S : \A j \in S : ~ (<<j, k>> \in Less)
  BY <1>1, WFMin
<1>3. \A j \in S : ~ (j < k)
  BY <1>2 DEF Less
<1> QED BY <1>3 DEF IsLowest

\* next has an answer if anything is left.
LEMMA NextAnswers ==
  ASSUME TypeOK, NEW key \in Numbers, Hits(key) # {}
  PROVE  \E k \in Numbers : IsNext(key, k)
<1>0. Hits(key) \subseteq Subs
  BY DEF Hits, TypeOK
<1>1. Hits(key) \in SUBSET Nat
  <2>1. Subs \subseteq Nat
    BY Constants DEF Subs
  <2> QED BY <1>0, <2>1
<1>2. PICK i \in Hits(key) : IsLowest(i, Hits(key))
  BY <1>1, HasLowest
<1>3. Found(i, key) # {} /\ Found(i, key) \subseteq sub[i] /\ i \in Subs
  BY <1>0 DEF Hits, Found
<1>4. sub[i] \subseteq Bits /\ Bits \subseteq Nat
  BY <1>3, Constants DEF TypeOK, Bits
<1>5. PICK b \in Found(i, key) : IsLowest(b, Found(i, key))
  BY <1>3, <1>4, HasLowest
<1>6. b \in Bits /\ b \in sub[i]
  BY <1>3, <1>4
<1>7. Number(i, b) \in Free
  BY <1>3, <1>6, FreeNumber
<1>8. Number(i, b) \in Numbers
  BY <1>7 DEF Free
<1>9. IsNext(key, Number(i, b))
  BY <1>2, <1>5 DEF IsNext
<1> QED BY <1>8, <1>9

\* One of the three ways to take a turn is open: the answer of next is the
\* offset itself, or one behind it, or there is none.
CanTurn ==
  \/ offset >= Cap \/ Hits(offset) = {}
  \/ offset < Cap /\ IsNext(offset, offset)
  \/ offset < Cap /\ \E k \in Numbers : IsNext(offset, k) /\ k # offset

\* find_contiguous is never stuck in its loop, whatever was handed out before.
THEOREM SearchCanTurn == Spec => [](pc = "search" => CanTurn)
<1>1. IInv => CanTurn
  <2>1. SUFFICES ASSUME IInv, offset < Cap, Hits(offset) # {} PROVE CanTurn
    BY Constants DEF CanTurn, IInv, TypeOK
  <2>2. offset \in Numbers
    BY <2>1, Constants DEF IInv, TypeOK, Numbers
  <2>3. \E k \in Numbers : IsNext(offset, k)
    BY <2>1, <2>2, NextAnswers DEF IInv
  <2> QED BY <2>1, <2>3 DEF CanTurn
<1> QED BY <1>1, Inductive, PTL

\* Every turn of the loop leaves it or takes the offset further, and no turn
\* begins behind the last number but the one that gives up: there are at most
\* Cap turns, with the mutex of the allocator held.
Advances == pc = "search" => \/ pc' = "ready"
                             \/ pc' = "search" /\ offset < Cap /\ offset' > offset

THEOREM SearchAdvances == Spec => [][Advances]_vars
<1>1. IInv /\ [Next]_vars => [Advances]_vars
  <2> SUFFICES ASSUME IInv, Next, pc = "search" PROVE Advances
    BY DEF Advances
  <2>1. GiveUp \/ Skip \/ Extend
    BY DEF Next, Search, Alloc, Dealloc, Insert, Remove, AllocContiguous
  <2>2. CASE GiveUp
    BY <2>2 DEF GiveUp, Answer, Advances
  <2>3. CASE Skip
    <3>1. PICK k \in Numbers : IsNext(offset, k) /\ k # offset /\ base' = AlignUp(k, want.align)
      BY <2>3 DEF Skip
    <3>2. offset' = base' /\ offset < Cap /\ pc' = pc
      BY <2>3 DEF Skip, Resumed
    <3>3. offset \in Numbers /\ offset \in Nat /\ k \in Nat
      BY <3>2, Constants DEF IInv, TypeOK, Numbers
    <3>4. offset <= k
      BY <3>1, <3>3, NextExact DEF IInv
    <3>5. offset < k /\ k > 0 /\ want.align \in Nat /\ want.align > 0
      BY <3>1, <3>3, <3>4 DEF IInv, TypeOK
    <3>6. AlignUp(k, want.align) \in Nat /\ k <= AlignUp(k, want.align)
      BY <3>3, <3>5, Aligned
    <3>7. offset < offset'
      BY <3>1, <3>2, <3>3, <3>5, <3>6
    <3> QED BY <3>2, <3>7 DEF Advances
  <2>4. CASE Extend
    <3>1. pc' = "ready" \/ (offset' = offset + 1 /\ pc' = pc)
      BY <2>4 DEF Extend, Answer
    <3>2. offset \in Nat /\ offset < Cap
      BY <2>4 DEF Extend, IInv, TypeOK
    <3> QED BY <3>1, <3>2 DEF Advances
  <2> QED BY <2>1, <2>2, <2>3, <2>4
<1> QED BY <1>1, Inductive, PTL DEF Spec
=============================================================================
