---------------------------- MODULE LocksProofs ----------------------------
(***************************************************************************)
(* Theorems about Locks, for any number of tasks, whatever they share, any *)
(* calls and any bound on how often a call suspends.                       *)
(*                                                                         *)
(* What a call does to the locks it holds follows from its path alone: a   *)
(* path runs from what is held before it to what is held after it.  Every  *)
(* call runs from nothing to something (CallsRun); in a harmless program   *)
(* it takes nothing it has and sleeps with no lock that others may want.   *)
(***************************************************************************)
EXTENDS Locks, SequenceTheorems, FiniteSetTheorems, WellFoundedInduction, TLAPS

(* How strictly a program is judged: as one with tables of its own, as one *)
(* that shares tables and calls nothing that sleeps with one, or, for the  *)
(* types, not at all.                                                      *)
Modes == {"own", "shared", "any"}

(* What a task may hold while another has the core.                        *)
Rests(m) == CASE m = "own" -> {{}, {"fd"}}
              [] m = "shared" -> {{}}
              [] OTHER -> SUBSET Kinds

(* A step of a path leads from holding K to holding L.                     *)
Leads(m, s, K, L) ==
  \/ s.op = "take" /\ (m = "any" \/ s.kind \notin K) /\ L = K \cup {s.kind}
  \/ s.op = "drop" /\ s.kind \in K /\ L = K \ {s.kind}
  \/ s.op = "nap" /\ K \in Rests(m) /\ L = K
  \/ s.op = "exit" /\ K = {} /\ L = K
  \/ s.op = "return" /\ L = {}

(* A path does: h is what is held between its steps.                       *)
RunBy(m, p, K, L, h) ==
  /\ h \in [0..Len(p) -> SUBSET Kinds]
  /\ h[0] = K /\ h[Len(p)] = L
  /\ \A i \in 1..Len(p) : Leads(m, p[i], h[i - 1], h[i])
Runs(m, p, K, L) == p \in Seq(Steps) /\ \E h : RunBy(m, p, K, L, h)

(* All paths of P do, or lead from K to something.                         *)
Goes(m, P, K, L) == \A p \in P : Runs(m, p, K, L)
Ends(m, P, K) == \A p \in P : \E L : Runs(m, p, K, L)

-----------------------------------------------------------------------------
(* Paths of one step.                                                      *)

(* The empty path changes nothing.                                         *)
LEMMA EmptyRun ==
  ASSUME NEW m, NEW K \in SUBSET Kinds
  PROVE  Runs(m, <<>>, K, K)
<1> DEFINE h == [i \in 0..0 |-> K]
<1>1. RunBy(m, <<>>, K, K, h)
  BY DEF RunBy
<1> QED
  BY <1>1 DEF Runs

(* It is the only one of no steps, and it does no more than that.          *)
LEMMA EmptyRunOnly ==
  ASSUME NEW m, NEW K, NEW L, Runs(m, <<>>, K, L)
  PROVE  K = L
BY DEF Runs, RunBy

(* A step by itself.                                                       *)
LEMMA StepRun ==
  ASSUME NEW m, NEW s \in Steps, NEW K \in SUBSET Kinds, NEW L \in SUBSET Kinds,
         Leads(m, s, K, L)
  PROVE  Runs(m, <<s>>, K, L)
<1> DEFINE h == [i \in 0..1 |-> IF i = 0 THEN K ELSE L]
<1>1. RunBy(m, <<s>>, K, L, h)
  BY DEF RunBy
<1> QED
  BY <1>1 DEF Runs

(* Runs stay within the kinds of locks.                                    *)
LEMMA RunKinds ==
  ASSUME NEW m, NEW p, NEW K, NEW L, Runs(m, p, K, L)
  PROVE  p \in Seq(Steps) /\ K \in SUBSET Kinds /\ L \in SUBSET Kinds
BY DEF Runs, RunBy

(* One path after another.                                                 *)
LEMMA CatRun ==
  ASSUME NEW m, NEW p, NEW q, NEW K, NEW L, NEW M,
         Runs(m, p, K, L), Runs(m, q, L, M)
  PROVE  Runs(m, p \o q, K, M)
<1>1. p \in Seq(Steps) /\ q \in Seq(Steps)
  BY DEF Runs
<1>2. PICK f : RunBy(m, p, K, L, f)
  BY DEF Runs
<1>3. PICK g : RunBy(m, q, L, M, g)
  BY DEF Runs
<1> DEFINE r == p \o q
           h == [i \in 0..Len(r) |-> IF i <= Len(p) THEN f[i] ELSE g[i - Len(p)]]
<1>4. r \in Seq(Steps) /\ Len(r) = Len(p) + Len(q) /\ Len(p) \in Nat /\ Len(q) \in Nat
  BY <1>1
<1>5. \A i \in 1..Len(r) : r[i] = IF i <= Len(p) THEN p[i] ELSE q[i - Len(p)]
  BY <1>1
<1> HIDE DEF r
<1>6. h \in [0..Len(r) -> SUBSET Kinds] /\ h[0] = K /\ h[Len(r)] = M
  BY <1>2, <1>3, <1>4 DEF RunBy
<1>7. ASSUME NEW i \in 1..Len(r) PROVE Leads(m, r[i], h[i - 1], h[i])
  <2>1. CASE i <= Len(p)
    <3>1. h[i - 1] = f[i - 1] /\ h[i] = f[i] /\ r[i] = p[i] /\ i \in 1..Len(p)
      BY <2>1, <1>4, <1>5
    <3> QED
      BY <3>1, <1>2 DEF RunBy
  <2>2. CASE i > Len(p)
    <3> DEFINE j == i - Len(p)
    <3>1. j \in 1..Len(q) /\ r[i] = q[j] /\ h[i] = g[j]
      BY <2>2, <1>4, <1>5
    <3>2. h[i - 1] = g[j - 1]
      <4>1. CASE j = 1
        BY <4>1, <3>1, <1>2, <1>3, <1>4 DEF RunBy
      <4>2. CASE j # 1
        BY <4>2, <3>1, <1>4
      <4> QED
        BY <4>1, <4>2
    <3> HIDE DEF j, h
    <3> QED
      BY <3>1, <3>2, <1>3 DEF RunBy
  <2> QED
    BY <2>1, <2>2, <1>4
<1>8. RunBy(m, r, K, M, h)
  BY <1>6, <1>7 DEF RunBy
<1> QED
  BY <1>4, <1>8 DEF Runs, r

(* A path that is not empty: its first step, and what is left of it.       *)
LEMMA HeadOfRun ==
  ASSUME NEW m, NEW p, NEW K, NEW L, Runs(m, p, K, L), p # <<>>
  PROVE  /\ Head(p) \in Steps /\ Tail(p) \in Seq(Steps)
         /\ \E M : Leads(m, Head(p), K, M) /\ Runs(m, Tail(p), M, L)
<1>1. PICK f : RunBy(m, p, K, L, f)
  BY DEF Runs
<1> DEFINE q == Tail(p)
           g == [i \in 0..Len(q) |-> f[i + 1]]
<1>2. p \in Seq(Steps) /\ Len(p) \in Nat /\ Len(p) > 0 /\ Head(p) = p[1] /\ p[1] \in Steps
  BY DEF Runs
<1>3. q \in Seq(Steps) /\ Len(q) = Len(p) - 1 /\ \A i \in 1..Len(q) : q[i] = p[i + 1]
  BY <1>2
<1>4. Leads(m, Head(p), K, f[1])
  BY <1>1, <1>2 DEF RunBy
<1> HIDE DEF q
<1>5. RunBy(m, q, f[1], L, g)
  <2>1. g \in [0..Len(q) -> SUBSET Kinds] /\ g[0] = f[1] /\ g[Len(q)] = L
    BY <1>1, <1>2, <1>3 DEF RunBy
  <2>2. ASSUME NEW i \in 1..Len(q) PROVE Leads(m, q[i], g[i - 1], g[i])
    <3>1. g[i - 1] = f[i] /\ g[i] = f[i + 1] /\ q[i] = p[i + 1] /\ i + 1 \in 1..Len(p)
      BY <1>2, <1>3
    <3>2. Leads(m, p[i + 1], f[(i + 1) - 1], f[i + 1])
      BY <3>1, <1>1 DEF RunBy
    <3> QED
      BY <3>1, <3>2
  <2> QED
    BY <2>1, <2>2 DEF RunBy
<1> QED
  BY <1>2, <1>3, <1>4, <1>5 DEF Runs, q
-----------------------------------------------------------------------------
(* Short paths.                                                            *)

(* The steps are steps.                                                    *)
LEMMA StepsOf ==
  /\ \A k \in Kinds : [op |-> "take", kind |-> k] \in Steps /\ [op |-> "drop", kind |-> k] \in Steps
  /\ [op |-> "nap"] \in Steps /\ [op |-> "exit"] \in Steps /\ [op |-> "return"] \in Steps
BY DEF Steps

(* Taking and dropping one lock, two or three.                             *)
LEMMA TakesOf ==
  ASSUME NEW a, NEW b
  PROVE  /\ Take(<<a>>) = <<[op |-> "take", kind |-> a]>>
         /\ Drop(<<a>>) = <<[op |-> "drop", kind |-> a]>>
         /\ Take(<<a, b>>) = Take(<<a>>) \o Take(<<b>>)
         /\ Drop(<<a, b>>) = Drop(<<a>>) \o Drop(<<b>>)
BY DEF Take, Drop

LEMMA TakesThreeOf ==
  ASSUME NEW a, NEW b, NEW c
  PROVE  Take(<<a, b, c>>) = Take(<<a>>) \o (Take(<<b>>) \o Take(<<c>>))
BY DEF Take

LEMMA TakeRun ==
  ASSUME NEW m, NEW K \in SUBSET Kinds, NEW a \in Kinds, m = "any" \/ a \notin K
  PROVE  Runs(m, Take(<<a>>), K, K \cup {a})
<1> DEFINE s == [op |-> "take", kind |-> a]
<1>1. Leads(m, s, K, K \cup {a})
  BY DEF Leads
<1>2. s \in Steps /\ K \cup {a} \in SUBSET Kinds
  BY StepsOf
<1> HIDE DEF s
<1>3. Runs(m, <<s>>, K, K \cup {a})
  BY <1>1, <1>2, StepRun
<1> QED
  BY <1>3, TakesOf DEF s

LEMMA DropRun ==
  ASSUME NEW m, NEW K \in SUBSET Kinds, NEW a \in K
  PROVE  Runs(m, Drop(<<a>>), K, K \ {a})
<1> DEFINE s == [op |-> "drop", kind |-> a]
<1>1. Leads(m, s, K, K \ {a})
  BY DEF Leads
<1>2. s \in Steps /\ K \ {a} \in SUBSET Kinds
  BY StepsOf
<1> HIDE DEF s
<1>3. Runs(m, <<s>>, K, K \ {a})
  BY <1>1, <1>2, StepRun
<1> QED
  BY <1>3, TakesOf DEF s

(* Two locks, or three, that are not held.                                 *)
LEMMA TakeTwoRun ==
  ASSUME NEW m, NEW K \in SUBSET Kinds, NEW a \in Kinds \ K, NEW b \in Kinds \ (K \cup {a})
  PROVE  Runs(m, Take(<<a, b>>), K, K \cup {a, b})
<1>1. Runs(m, Take(<<a>>), K, K \cup {a})
  BY TakeRun
<1>2. Runs(m, Take(<<b>>), K \cup {a}, (K \cup {a}) \cup {b})
  BY TakeRun
<1>3. (K \cup {a}) \cup {b} = K \cup {a, b}
  OBVIOUS
<1>4. Take(<<a, b>>) = Take(<<a>>) \o Take(<<b>>)
  BY TakesOf
<1>5. Runs(m, Take(<<a>>) \o Take(<<b>>), K, (K \cup {a}) \cup {b})
  BY <1>1, <1>2, CatRun
<1> QED
  BY <1>3, <1>4, <1>5

LEMMA TakeThreeRun ==
  ASSUME NEW m, NEW K \in SUBSET Kinds, NEW a \in Kinds \ K, NEW b \in Kinds \ (K \cup {a}),
         NEW c \in Kinds \ (K \cup {a, b})
  PROVE  Runs(m, Take(<<a, b, c>>), K, K \cup {a, b, c})
<1>1. Runs(m, Take(<<a>>), K, K \cup {a})
  BY TakeRun
<1>2. Runs(m, Take(<<b>>), K \cup {a}, (K \cup {a}) \cup {b})
  BY TakeRun
<1>3. Runs(m, Take(<<c>>), (K \cup {a}) \cup {b}, ((K \cup {a}) \cup {b}) \cup {c})
  BY TakeRun
<1>4. ((K \cup {a}) \cup {b}) \cup {c} = K \cup {a, b, c}
  OBVIOUS
<1>5. Runs(m, Take(<<b>>) \o Take(<<c>>), K \cup {a}, K \cup {a, b, c})
  BY <1>2, <1>3, <1>4, CatRun
<1>6. Runs(m, Take(<<a>>) \o (Take(<<b>>) \o Take(<<c>>)), K, K \cup {a, b, c})
  BY <1>1, <1>5, CatRun
<1>7. Take(<<a, b, c>>) = Take(<<a>>) \o (Take(<<b>>) \o Take(<<c>>))
  BY TakesThreeOf
<1> QED
  BY <1>6, <1>7

LEMMA DropTwoRun ==
  ASSUME NEW m, NEW K \in SUBSET Kinds, NEW a \in K, NEW b \in K \ {a}
  PROVE  Runs(m, Drop(<<a, b>>), K, K \ {a, b})
<1>1. Runs(m, Drop(<<a>>), K, K \ {a})
  BY DropRun
<1>2. Runs(m, Drop(<<b>>), K \ {a}, (K \ {a}) \ {b})
  BY DropRun
<1>3. (K \ {a}) \ {b} = K \ {a, b}
  OBVIOUS
<1>4. Drop(<<a, b>>) = Drop(<<a>>) \o Drop(<<b>>)
  BY TakesOf
<1>5. Runs(m, Drop(<<a>>) \o Drop(<<b>>), K, (K \ {a}) \ {b})
  BY <1>1, <1>2, CatRun
<1> QED
  BY <1>3, <1>4, <1>5

(* A lock taken for a moment: all is as before, unless it was held before. *)
LEMMA BrieflyRun ==
  ASSUME NEW m, NEW K \in SUBSET Kinds, NEW a \in Kinds, m = "any" \/ a \notin K
  PROVE  Runs(m, Briefly(a), K, K \ {a})
<1>1. Runs(m, Take(<<a>>), K, K \cup {a})
  BY TakeRun
<1>2. Runs(m, Drop(<<a>>), K \cup {a}, (K \cup {a}) \ {a})
  BY DropRun
<1>3. (K \cup {a}) \ {a} = K \ {a}
  OBVIOUS
<1> QED
  BY <1>1, <1>2, <1>3, CatRun DEF Briefly

LEMMA NapRun ==
  ASSUME NEW m, NEW K \in SUBSET Kinds, K \in Rests(m)
  PROVE  Runs(m, Nap, K, K)
<1> DEFINE s == [op |-> "nap"]
<1>1. s \in Steps /\ Leads(m, s, K, K)
  BY StepsOf DEF Leads
<1> HIDE DEF s
<1>2. Runs(m, <<s>>, K, K)
  BY <1>1, StepRun
<1> QED
  BY <1>2 DEF Nap, s

(* A task that holds nothing may always sleep.                             *)
LEMMA NothingRests == \A m \in Modes : {} \in Rests(m)
BY DEF Modes, Rests

-----------------------------------------------------------------------------
(* Sets of paths.                                                          *)

LEMMA GoesOne ==
  ASSUME NEW m, NEW p, NEW K, NEW L, Runs(m, p, K, L)
  PROVE  Goes(m, {p}, K, L) /\ Ends(m, {p}, K)
BY DEF Goes, Ends

LEMMA GoesNone ==
  ASSUME NEW m, NEW K \in SUBSET Kinds
  PROVE  Goes(m, None, K, K) /\ Ends(m, None, K)
BY EmptyRun DEF Goes, Ends, None

LEMMA GoesEnds ==
  ASSUME NEW m, NEW P, NEW K, NEW L, Goes(m, P, K, L)
  PROVE  Ends(m, P, K)
BY DEF Goes, Ends

LEMMA GoesUnion ==
  ASSUME NEW m, NEW P, NEW Q, NEW K, NEW L, Goes(m, P, K, L), Goes(m, Q, K, L)
  PROVE  Goes(m, P \cup Q, K, L)
BY DEF Goes

LEMMA EndsUnion ==
  ASSUME NEW m, NEW P, NEW Q, NEW K, Ends(m, P, K), Ends(m, Q, K)
  PROVE  Ends(m, P \cup Q, K)
BY DEF Ends

LEMMA ThenOf ==
  ASSUME NEW P, NEW Q, NEW r \in Then(P, Q)
  PROVE  \E p \in P, q \in Q : r = p \o q
BY DEF Then

LEMMA GoesThen ==
  ASSUME NEW m, NEW P, NEW Q, NEW K, NEW L, NEW M, Goes(m, P, K, L), Goes(m, Q, L, M)
  PROVE  Goes(m, Then(P, Q), K, M)
<1> SUFFICES ASSUME NEW r \in Then(P, Q) PROVE Runs(m, r, K, M)
  BY DEF Goes
<1>1. PICK p \in P, q \in Q : r = p \o q
  BY ThenOf
<1>2. Runs(m, p, K, L) /\ Runs(m, q, L, M)
  BY DEF Goes
<1> QED
  BY <1>1, <1>2, CatRun

LEMMA EndsThen ==
  ASSUME NEW m, NEW P, NEW Q, NEW K, NEW L, Goes(m, P, K, L), Ends(m, Q, L)
  PROVE  Ends(m, Then(P, Q), K)
<1> SUFFICES ASSUME NEW r \in Then(P, Q) PROVE \E M : Runs(m, r, K, M)
  BY DEF Ends
<1>1. PICK p \in P, q \in Q : r = p \o q
  BY ThenOf
<1>2. PICK M : Runs(m, q, L, M)
  BY DEF Ends
<1>3. Runs(m, p, K, L)
  BY DEF Goes
<1> QED
  BY <1>1, <1>2, <1>3, CatRun
-----------------------------------------------------------------------------
(* Loops.  A recursive function is one that meets its recursive equation,  *)
(* if there is one; that there is one is shown by a least counterexample.  *)

Less == {ss \in Nat \X Nat : ss[1] < ss[2]}

LEMMA HasLeast ==
  ASSUME NEW S \in SUBSET Nat, S # {}
  PROVE  \E n \in S : \A m \in S : n <= m
<1>1. IsWellFoundedOn(Less, Nat)
  BY NatLessThanWellFounded DEF OpToRel, Less
<1>2. PICK n \in S : \A m \in S : ~ (<<m, n>> \in Less)
  BY <1>1, WFMin
<1>3. \A m \in S : ~ (m < n)
  BY <1>2 DEF Less
<1> QED
  BY <1>3

(* f[n] is at most n rounds of P.                                          *)
Rounds(P, f, N) ==
  f = [n \in 0..N |-> IF n = 0 THEN None ELSE None \cup Then(P, f[n - 1])]

LEMMA RoundsExist ==
  ASSUME NEW P, NEW N \in Nat
  PROVE  \E f : Rounds(P, f, N)
<1> DEFINE S == {n \in Nat : ~ \E f : Rounds(P, f, n)}
<1> SUFFICES ASSUME S # {} PROVE FALSE
  OBVIOUS
<1>1. PICK n \in S : \A m \in S : n <= m
  BY HasLeast
<1>2. n \in Nat
  OBVIOUS
<1> HIDE DEF S
<1>3. CASE n = 0
  <2>1. Rounds(P, [i \in 0..0 |-> None], 0)
    BY DEF Rounds
  <2> QED
    BY <1>3, <2>1 DEF S
<1>4. CASE n # 0
  <2>1. n - 1 \in Nat /\ n - 1 \notin S
    BY <1>1, <1>2, <1>4
  <2>2. PICK f : Rounds(P, f, n - 1)
    BY <2>1 DEF S
  <2>3. \A i \in 0..(n - 1) : f[i] = IF i = 0 THEN None ELSE None \cup Then(P, f[i - 1])
    <3>1. f = [i \in 0..(n - 1) |-> IF i = 0 THEN None ELSE None \cup Then(P, f[i - 1])]
      BY <2>2 DEF Rounds
    <3> QED
      BY <3>1
  <2> DEFINE g == [i \in 0..n |-> IF i < n THEN f[i] ELSE None \cup Then(P, f[n - 1])]
  <2>4. \A i \in 0..n : g[i] = IF i < n THEN f[i] ELSE None \cup Then(P, f[n - 1])
    OBVIOUS
  <2>5. g = [i \in 0..n |-> g[i]]
    OBVIOUS
  <2> HIDE DEF g
  <2>6. ASSUME NEW i \in 0..n PROVE g[i] = IF i = 0 THEN None ELSE None \cup Then(P, g[i - 1])
    <3>1. CASE i = 0
      <4>1. i < n /\ i \in 0..(n - 1)
        BY <3>1, <1>2, <1>4
      <4>2. g[i] = f[i] /\ f[i] = None
        BY <4>1, <3>1, <2>3, <2>4
      <4> QED
        BY <4>2, <3>1
    <3>2. CASE i # 0
      <4>1. i \in Int /\ i - 1 \in 0..n /\ i - 1 < n /\ i - 1 \in 0..(n - 1)
        BY <3>2, <1>2
      <4>2. g[i - 1] = f[i - 1]
        BY <4>1, <2>4
      <4>3. CASE i < n
        <5>1. i \in 0..(n - 1)
          BY <4>1, <4>3, <1>2
        <5> QED
          BY <5>1, <3>2, <4>2, <4>3, <2>3, <2>4
      <4>4. CASE i = n
        BY <4>1, <4>2, <4>4, <3>2, <2>4
      <4> QED
        BY <4>3, <4>4, <1>2
    <3> QED
      BY <3>1, <3>2
  <2>7. Rounds(P, g, n)
    BY <2>5, <2>6 DEF Rounds
  <2> QED
    BY <2>7 DEF S
<1> QED
  BY <1>3, <1>4

LEMMA LoopIs ==
  ASSUME NEW P
  PROVE  \E f : Rounds(P, f, MaxNaps) /\ Loop(P) = f[MaxNaps]
<1> DEFINE f == CHOOSE f : Rounds(P, f, MaxNaps)
<1>1. Rounds(P, f, MaxNaps)
  BY RoundsExist, LocksAssumption
<1>2. Loop(P) = f[MaxNaps]
  BY DEF Loop, Rounds
<1> QED
  BY <1>1, <1>2

(* A loop comes out as it went in, if its body does.                       *)
LEMMA GoesLoop ==
  ASSUME NEW m, NEW P, NEW K \in SUBSET Kinds, Goes(m, P, K, K)
  PROVE  Goes(m, Loop(P), K, K)
<1>1. PICK f : Rounds(P, f, MaxNaps) /\ Loop(P) = f[MaxNaps]
  BY LoopIs
<1>2. \A i \in 0..MaxNaps : f[i] = IF i = 0 THEN None ELSE None \cup Then(P, f[i - 1])
  <2>1. f = [i \in 0..MaxNaps |-> IF i = 0 THEN None ELSE None \cup Then(P, f[i - 1])]
    BY <1>1 DEF Rounds
  <2> QED
    BY <2>1
<1> DEFINE S == {i \in 0..MaxNaps : ~ Goes(m, f[i], K, K)}
<1>3. S = {}
  <2> SUFFICES ASSUME S # {} PROVE FALSE
    OBVIOUS
  <2>0. S \in SUBSET Nat
    BY LocksAssumption
  <2>1. PICK n \in S : \A i \in S : n <= i
    <3> HIDE DEF S
    <3> QED
      BY <2>0, HasLeast
  <2>2. n \in 0..MaxNaps /\ n \in Nat /\ ~ Goes(m, f[n], K, K)
    BY LocksAssumption
  <2>3. CASE n = 0
    BY <2>2, <2>3, <1>2, GoesNone
  <2>4. CASE n # 0
    <3>1. n - 1 \in 0..MaxNaps
      BY <2>2, <2>4, LocksAssumption
    <3>2. n - 1 \notin S
      <4> HIDE DEF S
      <4> QED
        BY <2>1, <2>2
    <3>3. Goes(m, f[n - 1], K, K)
      BY <3>1, <3>2
    <3>4. Goes(m, None \cup Then(P, f[n - 1]), K, K)
      BY <3>3, GoesNone, GoesThen, GoesUnion
    <3> QED
      BY <3>4, <2>2, <2>4, <1>2
  <2> QED
    BY <2>3, <2>4
<1>4. MaxNaps \in 0..MaxNaps
  BY LocksAssumption
<1> QED
  BY <1>1, <1>3, <1>4

(* Sleeping again and again.                                               *)
LEMMA GoesNaps ==
  ASSUME NEW m, NEW K \in SUBSET Kinds, K \in Rests(m)
  PROVE  Goes(m, Naps, K, K)
BY NapRun, GoesOne, GoesLoop DEF Naps

(* Looking at the table and sleeping, with nothing else in hand.           *)
LEMMA GoesLookAgain ==
  ASSUME NEW m, NEW K \in SUBSET Kinds, K \in Rests(m), "fd" \notin K
  PROVE  Goes(m, LookAgain, K, K)
<1>1. Runs(m, Briefly("fd"), K, K)
  <2>1. K \ {"fd"} = K /\ "fd" \in Kinds
    BY DEF Kinds
  <2> QED
    BY <2>1, BrieflyRun
<1>2. Runs(m, Briefly("fd") \o Nap, K, K)
  BY <1>1, NapRun, CatRun
<1> QED
  BY <1>2, GoesOne, GoesLoop DEF LookAgain

(* Finding a file by its path.                                             *)
LEMMA GoesResolve ==
  ASSUME NEW m, NEW K \in SUBSET Kinds, "inner" \notin K
  PROVE  /\ Goes(m, Absolute \cup FromCwd, K, K)
         /\ "fd" \notin K => Goes(m, FromCwd \cup FromFd, K, K) /\ Goes(m, Resolve, K, K)
         /\ m = "any" => Ends(m, Resolve, K)
<1>0. "inner" \in Kinds /\ "fd" \in Kinds
  BY DEF Kinds
<1>1. Goes(m, Absolute, K, K)
  BY GoesNone DEF Absolute
<1>2. Goes(m, FromCwd, K, K)
  <2>1. K \ {"inner"} = K
    OBVIOUS
  <2>2. Runs(m, Briefly("inner"), K, K)
    BY <1>0, <2>1, BrieflyRun
  <2> QED
    BY <2>2, GoesOne DEF FromCwd
<1>3. ASSUME m = "any" \/ "fd" \notin K PROVE Goes(m, FromFd, K, K \ {"fd"})
  BY <1>0, <1>3, BrieflyRun, GoesOne DEF FromFd
<1>4. Goes(m, Absolute \cup FromCwd, K, K)
  BY <1>1, <1>2, GoesUnion
<1>5. ASSUME "fd" \notin K PROVE Goes(m, FromCwd \cup FromFd, K, K) /\ Goes(m, Resolve, K, K)
  <2>1. K \ {"fd"} = K
    BY <1>5
  <2>2. Goes(m, FromFd, K, K)
    BY <1>3, <1>5, <2>1
  <2> QED
    BY <1>2, <1>4, <2>2, GoesUnion DEF Resolve
<1>6. ASSUME m = "any" PROVE Ends(m, Resolve, K)
  <2>1. Ends(m, Absolute \cup FromCwd, K) /\ Ends(m, FromFd, K)
    BY <1>3, <1>4, <1>6, GoesEnds
  <2> QED
    BY <2>1, EndsUnion DEF Resolve
<1> QED
  BY <1>4, <1>5, <1>6
-----------------------------------------------------------------------------
(* The calls, one form after another, from nothing held.                   *)

LEMMA OneLock ==
  ASSUME NEW m
  PROVE  /\ \A k \in Kinds : Runs(m, Take(<<k>>), {}, {k}) /\ Runs(m, Briefly(k), {}, {})
         /\ Goes(m, OnlyVm, {}, {"vm"}) /\ Goes(m, OnlyFd, {}, {"fd"})
         /\ Goes(m, OnlyInner, {}, {"inner"})
<1>1. ASSUME NEW k \in Kinds PROVE Runs(m, Take(<<k>>), {}, {k}) /\ Runs(m, Briefly(k), {}, {})
  <2>1. {} \in SUBSET Kinds /\ {} \cup {k} = {k} /\ {} \ {k} = {}
    OBVIOUS
  <2>2. Runs(m, Take(<<k>>), {}, {} \cup {k}) /\ Runs(m, Briefly(k), {}, {} \ {k})
    BY <2>1, TakeRun, BrieflyRun
  <2> QED
    BY <2>1, <2>2
<1>2. "vm" \in Kinds /\ "fd" \in Kinds /\ "inner" \in Kinds
  BY DEF Kinds
<1> QED
  BY <1>1, <1>2, GoesOne DEF OnlyVm, OnlyFd, OnlyInner

LEMMA MoreLocks ==
  ASSUME NEW m
  PROVE  /\ Runs(m, Take(<<"vm", "fd">>), {}, {"vm", "fd"})
         /\ Runs(m, Take(<<"fd", "vm">>), {}, {"vm", "fd"})
         /\ Runs(m, Take(<<"inner", "vm">>), {}, {"inner", "vm"})
         /\ Runs(m, Take(<<"inner", "fd">>), {}, {"inner", "fd"})
         /\ Runs(m, Take(<<"inner", "vm", "fd">>), {}, {"inner", "vm", "fd"})
         /\ Runs(m, Take(<<"vm", "fd", "epoll">>), {}, {"vm", "fd", "epoll"})
<1>1. \A a, b \in Kinds : a # b => Runs(m, Take(<<a, b>>), {}, {a, b})
  <2> SUFFICES ASSUME NEW a \in Kinds, NEW b \in Kinds, a # b
               PROVE  Runs(m, Take(<<a, b>>), {}, {a, b})
    OBVIOUS
  <2>1. {} \in SUBSET Kinds /\ a \in Kinds \ {} /\ b \in Kinds \ ({} \cup {a})
        /\ {} \cup {a, b} = {a, b}
    OBVIOUS
  <2>2. Runs(m, Take(<<a, b>>), {}, {} \cup {a, b})
    BY <2>1, TakeTwoRun
  <2> QED
    BY <2>1, <2>2
<1>2. \A a, b, c \in Kinds : a # b /\ c \notin {a, b} => Runs(m, Take(<<a, b, c>>), {}, {a, b, c})
  <2> SUFFICES ASSUME NEW a \in Kinds, NEW b \in Kinds, NEW c \in Kinds, a # b, c \notin {a, b}
               PROVE  Runs(m, Take(<<a, b, c>>), {}, {a, b, c})
    OBVIOUS
  <2>1. {} \in SUBSET Kinds /\ a \in Kinds \ {} /\ b \in Kinds \ ({} \cup {a})
        /\ c \in Kinds \ ({} \cup {a, b}) /\ {} \cup {a, b, c} = {a, b, c}
    OBVIOUS
  <2>2. Runs(m, Take(<<a, b, c>>), {}, {} \cup {a, b, c})
    BY <2>1, TakeThreeRun
  <2> QED
    BY <2>1, <2>2
<1>3. "vm" \in Kinds /\ "fd" \in Kinds /\ "inner" \in Kinds /\ "epoll" \in Kinds
  BY DEF Kinds
<1>4. {"fd", "vm"} = {"vm", "fd"}
  OBVIOUS
<1> QED
  BY <1>1, <1>2, <1>3, <1>4

(* Calls that take locks, or sleep, and do nothing else.                   *)
LEMMA PlainCalls ==
  ASSUME NEW m \in Modes
  PROVE  /\ Ends(m, OnlyVm, {}) /\ Ends(m, OnlyFd, {}) /\ Ends(m, OnlyInner, {})
         /\ Ends(m, VmThenFd, {}) /\ Ends(m, {Take(<<"vm", "fd">>)}, {})
         /\ Ends(m, {Take(<<"inner", "vm">>)}, {})
         /\ Goes(m, Naps, {}, {}) /\ Ends(m, Naps, {}) /\ Ends(m, {Nap}, {})
<1>1. Ends(m, OnlyVm, {}) /\ Ends(m, OnlyFd, {}) /\ Ends(m, OnlyInner, {})
  BY OneLock, GoesEnds
<1>2. Ends(m, {Take(<<"vm", "fd">>)}, {}) /\ Ends(m, {Take(<<"inner", "vm">>)}, {})
  BY MoreLocks, GoesOne
<1>3. Ends(m, VmThenFd, {})
  BY <1>1, <1>2 DEF Ends, VmThenFd, OnlyVm
<1>4. {} \in SUBSET Kinds /\ {} \in Rests(m)
  BY NothingRests
<1>5. Goes(m, Naps, {}, {})
  BY <1>4, GoesNaps
<1>6. Ends(m, {Nap}, {})
  BY <1>4, NapRun, GoesOne
<1> QED
  BY <1>1, <1>2, <1>3, <1>5, <1>6, GoesEnds

(* Calls that find one file or two by path.                                *)
LEMMA PathCalls ==
  ASSUME NEW m \in Modes
  PROVE  /\ Ends(m, Resolve, {}) /\ Ends(m, Absolute \cup FromCwd, {})
         /\ Ends(m, Readlinkat, {}) /\ Ends(m, Renameat2, {}) /\ Ends(m, Linkat, {})
         /\ Ends(m, Mount, {}) /\ Ends(m, Getdents, {})
         /\ Ends(m, Open(Absolute \cup FromCwd), {})
         /\ Ends(m, Utimensat(Absolute \cup FromCwd), {})
<1> DEFINE V == {"vm"}  W == {"vm", "fd"}
<1>1. /\ {} \in SUBSET Kinds /\ "inner" \notin {} /\ "fd" \notin {}
      /\ V \in SUBSET Kinds /\ "inner" \notin V /\ "fd" \notin V
      /\ W \in SUBSET Kinds /\ "inner" \notin W
  BY DEF Kinds
<1>2. Goes(m, OnlyVm, {}, V)
  BY OneLock
<1>3. Goes(m, {Take(<<"vm", "fd">>)}, {}, W) /\ Goes(m, {Take(<<"fd", "vm">>)}, {}, W)
  BY MoreLocks, GoesOne
<1> HIDE DEF V, W
<1>4. \A K \in {{}, V} : Goes(m, Resolve, K, K)
  BY <1>1, GoesResolve
<1>5. Goes(m, Absolute \cup FromCwd, {}, {}) /\ Goes(m, Absolute \cup FromCwd, W, W)
      /\ Goes(m, FromCwd \cup FromFd, {}, {})
  BY <1>1, GoesResolve
<1>6. \A K \in {{}, V} : Goes(m, None \cup Resolve, K, K) /\ Goes(m, Then(Resolve, Resolve), K, K)
  BY <1>1, <1>4, GoesNone, GoesUnion, GoesThen
<1>7. Ends(m, Readlinkat, {})
  BY <1>2, <1>6, GoesThen, GoesEnds DEF Readlinkat
<1>8. Ends(m, Renameat2, {})
  BY <1>2, <1>6, GoesThen, GoesEnds, GoesUnion DEF Renameat2
<1>9. Ends(m, Linkat, {})
  BY <1>4, <1>6, GoesEnds, GoesUnion DEF Linkat
<1>10. Ends(m, Mount, {})
  BY <1>5, GoesThen, GoesEnds DEF Mount
<1>11. Ends(m, Getdents, {})
  <2>1. Ends(m, None \cup OnlyVm, {})
    BY <1>1, <1>2, GoesNone, GoesEnds, EndsUnion
  <2> QED
    BY <2>1, <1>5, EndsThen DEF Getdents
<1>12. Ends(m, Open(Absolute \cup FromCwd), {})
  BY <1>3, <1>5, GoesThen, GoesEnds, EndsUnion DEF Open
<1>13. Ends(m, Utimensat(Absolute \cup FromCwd), {})
  <2>1. Goes(m, None \cup (Absolute \cup FromCwd), W, W)
    BY <1>1, <1>5, GoesNone, GoesUnion
  <2>2. Ends(m, Then({Take(<<"vm", "fd">>)}, None \cup (Absolute \cup FromCwd)), {})
    BY <2>1, <1>3, GoesThen, GoesEnds
  <2> QED
    BY <2>2, <1>1, GoesNone, EndsUnion DEF Utimensat
<1> QED
  BY <1>1, <1>4, <1>5, <1>7, <1>8, <1>9, <1>10, <1>11, <1>12, <1>13, GoesEnds

(* epoll_wait, if looking again leaves the interest list locked.           *)
LEMMA EpollCall ==
  ASSUME NEW m \in Modes, NEW looks, Goes(m, looks, {"epoll"}, {"epoll"})
  PROVE  Ends(m, EpollWait(looks), {})
<1> DEFINE K == {"vm", "fd", "epoll"}
           p == Take(<<"vm", "fd", "epoll">>) \o Drop(<<"fd", "vm">>)
<1>1. /\ K \in SUBSET Kinds /\ "fd" \in K /\ "vm" \in K \ {"fd"} /\ K \ {"fd", "vm"} = {"epoll"}
      /\ {"epoll"} \in SUBSET Kinds /\ "fd" \in Kinds /\ "fd" \notin {"epoll"}
  BY DEF Kinds
<1>2. EpollWait(looks) = (OnlyVm \cup {Take(<<"vm", "fd">>)}) \cup Then({p}, Then(looks, OnlyFd))
  BY DEF EpollWait
<1>3. Runs(m, Take(<<"vm", "fd", "epoll">>), {}, K)
  BY MoreLocks
<1>4. Runs(m, Drop(<<"fd", "vm">>), K, K \ {"fd", "vm"})
  <2> HIDE DEF K
  <2> QED
    BY <1>1, DropTwoRun
<1>5. Runs(m, p, {}, {"epoll"})
  BY <1>1, <1>3, <1>4, CatRun
<1>6. Goes(m, {p}, {}, {"epoll"})
  BY <1>5, GoesOne
<1> HIDE DEF p, K
<1>7. Ends(m, OnlyFd, {"epoll"})
  <2>1. Runs(m, Take(<<"fd">>), {"epoll"}, {"epoll"} \cup {"fd"})
    BY <1>1, TakeRun
  <2> QED
    BY <2>1, GoesOne DEF OnlyFd
<1>8. Ends(m, Then({p}, Then(looks, OnlyFd)), {})
  BY <1>6, <1>7, EndsThen
<1>9. Ends(m, OnlyVm \cup {Take(<<"vm", "fd">>)}, {})
  BY PlainCalls, EndsUnion
<1> QED
  BY <1>2, <1>8, <1>9, EndsUnion

(* Calls that wait for something, or take what is on the way.              *)
LEMMA WaitingCalls ==
  ASSUME NEW m \in Modes
  PROVE  /\ Ends(m, Pselect6, {}) /\ Ends(m, Ppoll, {}) /\ Ends(m, Recvfrom, {})
         /\ Ends(m, Accept4, {}) /\ Ends(m, FutexWait, {}) /\ Ends(m, Wait4, {})
         /\ Ends(m, EpollCtl, {}) /\ Ends(m, EpollWait(None), {})
<1>1. {} \in SUBSET Kinds /\ {} \in Rests(m) /\ "fd" \notin {}
  BY NothingRests
<1>2. "vm" \in Kinds /\ "fd" \in Kinds /\ "inner" \in Kinds /\ "epoll" \in Kinds
  BY DEF Kinds
<1>3. Runs(m, Briefly("vm"), {}, {}) /\ Runs(m, Briefly("inner"), {}, {}) /\ Runs(m, Nap, {}, {})
  BY <1>1, <1>2, OneLock, NapRun
<1>4. Goes(m, LookAgain, {}, {})
  BY <1>1, GoesLookAgain
<1>5. Ends(m, {Take(<<"vm", "fd">>)}, {}) /\ Ends(m, OnlyVm, {}) /\ Ends(m, OnlyFd, {})
      /\ Ends(m, OnlyInner, {}) /\ Ends(m, Naps, {})
  BY PlainCalls
<1>6. Ends(m, Pselect6, {})
  <2>1. Runs(m, Drop(<<"vm", "fd">>), {"vm", "fd"}, {})
    <3>1. {"vm", "fd"} \in SUBSET Kinds /\ "vm" \in {"vm", "fd"} /\ "fd" \in {"vm", "fd"} \ {"vm"}
          /\ {"vm", "fd"} \ {"vm", "fd"} = {}
      BY <1>2
    <3>2. Runs(m, Drop(<<"vm", "fd">>), {"vm", "fd"}, {"vm", "fd"} \ {"vm", "fd"})
      BY <3>1, DropTwoRun
    <3> QED
      BY <3>1, <3>2
  <2>2. Runs(m, Take(<<"vm", "fd">>) \o Drop(<<"vm", "fd">>), {}, {})
    BY <2>1, MoreLocks, CatRun
  <2>3. Goes(m, {Take(<<"vm", "fd">>) \o Drop(<<"vm", "fd">>)}, {}, {})
    BY <2>2, GoesOne
  <2>4. Ends(m, Then({Take(<<"vm", "fd">>) \o Drop(<<"vm", "fd">>)}, Naps), {})
    BY <2>3, <1>5, EndsThen
  <2> QED
    BY <2>4, <1>5, EndsUnion DEF Pselect6
<1>7. Ends(m, Ppoll, {}) /\ Ends(m, Recvfrom, {}) /\ Ends(m, Accept4, {})
  <2>1. Goes(m, {Briefly("vm")}, {}, {})
    BY <1>3, GoesOne
  <2>2. Ends(m, Then({Briefly("vm")}, Then(LookAgain, OnlyFd)), {})
    BY <2>1, <1>4, <1>5, EndsThen
  <2> QED
    BY <2>2, <1>5, EndsUnion DEF Ppoll, Recvfrom, Accept4
<1>8. Ends(m, FutexWait, {})
  <2>1. Ends(m, {Briefly("vm") \o Nap}, {})
    BY <1>3, CatRun, GoesOne
  <2> QED
    BY <2>1, <1>5, EndsUnion DEF FutexWait
<1>9. Ends(m, Wait4, {})
  <2>1. Goes(m, {Briefly("inner") \o Nap}, {}, {})
    BY <1>3, CatRun, GoesOne
  <2>2. Goes(m, Loop({Briefly("inner") \o Nap}), {}, {})
    BY <2>1, <1>1, GoesLoop
  <2> QED
    BY <2>2, <1>5, EndsThen DEF Wait4
<1>10. Ends(m, EpollCtl, {})
  <2>1. Ends(m, {Take(<<"vm", "fd", "epoll">>)}, {})
    BY MoreLocks, GoesOne
  <2>2. EpollCtl = {Take(<<"vm", "fd">>)} \cup {Take(<<"vm", "fd", "epoll">>)}
    BY DEF EpollCtl
  <2> QED
    BY <2>1, <2>2, <1>5, EndsUnion
<1>11. Ends(m, EpollWait(None), {})
  <2>1. Goes(m, None, {"epoll"}, {"epoll"})
    BY <1>2, GoesNone
  <2> QED
    BY <2>1, EpollCall
<1> QED
  BY <1>6, <1>7, <1>8, <1>9, <1>10, <1>11

(* Calls on memory and on tasks.                                           *)
LEMMA TaskCalls ==
  ASSUME NEW m \in Modes
  PROVE  Ends(m, Mmap, {}) /\ Ends(m, Clone, {}) /\ Ends(m, Exec, {}) /\ Ends(m, Exit, {})
<1> DEFINE I == {"inner"}  F == {"inner", "fd"}
<1>1. /\ {} \in SUBSET Kinds /\ I \in SUBSET Kinds /\ F \in SUBSET Kinds
      /\ "vm" \in Kinds /\ "fd" \in Kinds /\ "inner" \in Kinds
      /\ "vm" \notin I /\ "fd" \notin I
  BY DEF Kinds
<1>2. /\ Runs(m, Take(<<"inner">>), {}, I) /\ Runs(m, Briefly("inner"), {}, {})
      /\ Runs(m, Briefly("vm"), {}, {}) /\ Runs(m, Take(<<"vm">>), {}, {"vm"})
  BY <1>1, OneLock
<1>3. Runs(m, Briefly("vm"), I, I) /\ Runs(m, Briefly("fd"), I, I)
  <2>1. I \ {"vm"} = I /\ I \ {"fd"} = I
    OBVIOUS
  <2>2. Runs(m, Briefly("vm"), I, I \ {"vm"}) /\ Runs(m, Briefly("fd"), I, I \ {"fd"})
    BY <1>1, BrieflyRun
  <2> QED
    BY <2>1, <2>2
<1>4. Runs(m, Take(<<"vm">>), I, I \cup {"vm"})
  BY <1>1, TakeRun
<1>5. Runs(m, Take(<<"inner", "fd">>), {}, F)
  BY MoreLocks
<1>6. Runs(m, Drop(<<"inner">>), F, F \ {"inner"})
  BY <1>1, DropRun
<1>7. Runs(m, Take(<<"vm">>), F \ {"inner"}, (F \ {"inner"}) \cup {"vm"})
  <2>1. F \ {"inner"} \in SUBSET Kinds /\ "vm" \notin F \ {"inner"}
    BY <1>1
  <2> QED
    BY <2>1, <1>1, TakeRun
<1> HIDE DEF I, F
<1>8. Ends(m, Mmap, {})
  <2>1. \E L : Runs(m, Briefly("inner") \o Take(<<"vm">>), {}, L)
    BY <1>2, CatRun
  <2>2. \E L : Runs(m, Take(<<"inner", "fd">>) \o Drop(<<"inner">>) \o Take(<<"vm">>), {}, L)
    BY <1>5, <1>6, <1>7, CatRun
  <2> QED
    BY <2>1, <2>2, <1>2, <1>5 DEF Ends, Mmap
<1>9. \A K \in {{}, I} : Goes(m, BrieflyIfAt("vm"), K, K)
  BY <1>1, <1>2, <1>3, GoesOne, GoesNone, GoesUnion DEF BrieflyIfAt
<1>10. Goes(m, BrieflyIfAt("fd"), I, I)
  BY <1>1, <1>3, GoesOne, GoesNone, GoesUnion DEF BrieflyIfAt
<1>11. Ends(m, Clone, {})
  <2>1. Goes(m, OnlyInner, {}, I)
    BY OneLock DEF I
  <2> DEFINE P == BrieflyIfAt("vm")  Q == BrieflyIfAt("fd")
  <2>2. Goes(m, P, I, I) /\ Goes(m, Q, I, I)
    BY <1>9, <1>10
  <2>3. Clone = Then(OnlyInner, Then(P, Then(Q, Then(P, P))))
    BY DEF Clone
  <2> HIDE DEF P, Q
  <2>4. Goes(m, Then(P, Then(Q, Then(P, P))), I, I)
    BY <2>2, GoesThen
  <2> QED
    BY <2>1, <2>3, <2>4, GoesThen, GoesEnds
<1>12. Ends(m, Exec, {})
  <2>1. Ends(m, OnlyInner, {})
    BY PlainCalls
  <2> DEFINE p == Take(<<"inner">>) \o Briefly("vm") \o Briefly("fd") \o Take(<<"vm">>)
  <2>2. Runs(m, p, {}, I \cup {"vm"})
    BY <1>2, <1>3, <1>4, CatRun
  <2>3. Exec = OnlyInner \cup {p}
    BY DEF Exec
  <2> HIDE DEF p
  <2> QED
    BY <2>1, <2>2, <2>3, GoesOne, EndsUnion
<1>13. Ends(m, Exit, {})
  <2> DEFINE s == [op |-> "exit"]
  <2>1. s \in Steps /\ Leads(m, s, {}, {})
    BY StepsOf DEF Leads
  <2>2. Exit = Then({Briefly("inner")}, Then(BrieflyIfAt("vm"), {<<s>>}))
    BY DEF Exit
  <2> HIDE DEF s
  <2>3. Goes(m, {<<s>>}, {}, {})
    BY <2>1, <1>1, StepRun, GoesOne
  <2>4. Goes(m, {Briefly("inner")}, {}, {})
    BY <1>2, GoesOne
  <2> QED
    BY <2>2, <2>3, <2>4, <1>9, GoesThen, GoesEnds
<1> QED
  BY <1>8, <1>11, <1>12, <1>13

(* What moves data sleeps, or not, with the locks it has then.             *)
LEMMA TransferCalls ==
  ASSUME NEW m \in Modes, NEW naps
  PROVE  /\ Ends(m, naps, {"fd"}) => Ends(m, Read(naps), {}) /\ Ends(m, Write(naps), {})
         /\ Ends(m, naps, {"vm", "fd"}) => Ends(m, Sendfile(naps), {})
<1> DEFINE K == {"inner", "vm", "fd"}  W == {"vm", "fd"}
           r == Take(<<"inner", "vm", "fd">>) \o Drop(<<"inner", "vm">>)
           w == Take(<<"vm", "fd">>) \o Drop(<<"vm">>)
<1>1. /\ K \in SUBSET Kinds /\ "inner" \in K /\ "vm" \in K \ {"inner"} /\ K \ {"inner", "vm"} = {"fd"}
      /\ W \in SUBSET Kinds /\ "vm" \in W /\ W \ {"vm"} = {"fd"}
  BY DEF Kinds
<1>2. Runs(m, Take(<<"inner", "vm", "fd">>), {}, K) /\ Runs(m, Take(<<"vm", "fd">>), {}, W)
      /\ Runs(m, Take(<<"inner", "vm">>), {}, {"inner", "vm"})
  BY MoreLocks
<1> HIDE DEF K, W
<1>3. Runs(m, Drop(<<"inner", "vm">>), K, {"fd"}) /\ Runs(m, Drop(<<"vm">>), W, {"fd"})
  <2>1. Runs(m, Drop(<<"inner", "vm">>), K, K \ {"inner", "vm"}) /\ Runs(m, Drop(<<"vm">>), W, W \ {"vm"})
    BY <1>1, DropTwoRun, DropRun
  <2> QED
    BY <2>1, <1>1
<1>4. Goes(m, {r}, {}, {"fd"}) /\ Goes(m, {w}, {}, {"fd"})
  BY <1>2, <1>3, CatRun, GoesOne
<1>5. ASSUME Ends(m, naps, {"fd"}) PROVE Ends(m, Read(naps), {})
  <2>1. Ends(m, {Take(<<"inner", "vm">>)}, {}) /\ Ends(m, {Take(<<"inner", "vm", "fd">>)}, {})
    BY <1>2, GoesOne
  <2>2. Ends(m, Then({r}, naps), {})
    BY <1>4, <1>5, EndsThen
  <2>3. Read(naps) = ({Take(<<"inner", "vm">>)} \cup {Take(<<"inner", "vm", "fd">>)}) \cup Then({r}, naps)
    BY DEF Read
  <2> HIDE DEF r
  <2>4. Ends(m, {Take(<<"inner", "vm">>)} \cup {Take(<<"inner", "vm", "fd">>)}, {})
    BY <2>1, EndsUnion
  <2> QED
    BY <2>2, <2>3, <2>4, EndsUnion
<1>6. ASSUME Ends(m, naps, {"fd"}) PROVE Ends(m, Write(naps), {})
  <2>1. Ends(m, Then({w}, naps), {})
    BY <1>4, <1>6, EndsThen
  <2> QED
    BY <2>1, PlainCalls, EndsUnion DEF Write
<1>7. ASSUME Ends(m, naps, {"vm", "fd"}) PROVE Ends(m, Sendfile(naps), {})
  <2>1. Goes(m, {Take(<<"vm", "fd">>)}, {}, {"vm", "fd"})
    BY MoreLocks, GoesOne
  <2>2. Ends(m, Then({Take(<<"vm", "fd">>)}, naps), {})
    BY <2>1, <1>7, EndsThen
  <2> QED
    BY <2>2, PlainCalls, EndsUnion DEF Sendfile
<1> QED
  BY <1>5, <1>6, <1>7

(* Reads and writes of files, and sendfile between files, do not sleep.    *)
LEMMA FileCalls ==
  ASSUME NEW m \in Modes
  PROVE  /\ Ends(m, Read(None), {}) /\ Ends(m, Write(None), {})
         /\ Ends(m, Sendfile(None), {})
<1>1. {"fd"} \in SUBSET Kinds /\ {"vm", "fd"} \in SUBSET Kinds
  BY DEF Kinds
<1>2. Ends(m, None, {"fd"}) /\ Ends(m, None, {"vm", "fd"})
  BY <1>1, GoesNone
<1> QED
  BY <1>2, TransferCalls

(* Those that sleep have the table, which is harmless if it is their own.  *)
LEMMA SleepingCalls ==
  ASSUME NEW m \in Modes, m # "shared"
  PROVE  Ends(m, Read(Naps), {}) /\ Ends(m, Write(Naps), {})
<1>1. {"fd"} \in SUBSET Kinds /\ {"fd"} \in Rests(m)
  BY DEF Kinds, Rests, Modes
<1>2. Ends(m, Naps, {"fd"})
  BY <1>1, GoesNaps, GoesEnds
<1> QED
  BY <1>2, TransferCalls

(* The calls that may stop the kernel at least end with what they took.    *)
LEMMA FaultyCalls ==
  /\ Ends("any", Open(Resolve), {}) /\ Ends("any", Utimensat(Resolve), {})
  /\ Ends("any", Sendfile(Naps), {}) /\ Ends("any", EpollWait(LookAgain), {})
<1> DEFINE m == "any"  W == {"vm", "fd"}  E == {"epoll"}
<1>1. /\ m \in Modes /\ {} \in SUBSET Kinds
      /\ W \in SUBSET Kinds /\ W \in Rests(m) /\ "inner" \notin W
      /\ E \in SUBSET Kinds /\ E \in Rests(m) /\ "fd" \notin E
  BY DEF Kinds, Rests, Modes
<1>2. Goes(m, {Take(<<"vm", "fd">>)}, {}, W) /\ Goes(m, {Take(<<"fd", "vm">>)}, {}, W)
  BY MoreLocks, GoesOne
<1>3. Ends(m, Naps, W) /\ Goes(m, LookAgain, E, E)
  <2> HIDE DEF W, E, m
  <2> QED
    BY <1>1, GoesNaps, GoesEnds, GoesLookAgain
<1>4. Ends(m, Resolve, W) /\ Ends(m, None \cup Resolve, W)
  <2> HIDE DEF W
  <2>1. Ends(m, Resolve, W)
    BY <1>1, GoesResolve
  <2> QED
    BY <2>1, <1>1, GoesNone, EndsUnion
<1>5. Ends(m, Open(Resolve), {})
  <2> HIDE DEF W
  <2> QED
    BY <1>2, <1>4, EndsThen, GoesEnds, EndsUnion DEF Open
<1>6. Ends(m, Utimensat(Resolve), {})
  <2> HIDE DEF W
  <2>1. Ends(m, Then({Take(<<"vm", "fd">>)}, None \cup Resolve), {})
    BY <1>2, <1>4, EndsThen
  <2> QED
    BY <2>1, <1>1, GoesNone, EndsUnion DEF Utimensat
<1> QED
  BY <1>1, <1>3, <1>5, <1>6, TransferCalls, EpollCall

-----------------------------------------------------------------------------
(* Every call leads from nothing held to something.                        *)
Fits(m, P) == Ends(m, P, {})
Judges(m, c) == m = "any" \/ (c \notin Faulty /\ (m = "own" \/ c \notin SleepWithTable))

LEMMA CallsRun ==
  ASSUME NEW m \in Modes, NEW c \in DOMAIN PathsOf, Judges(m, c)
  PROVE  Ends(m, PathsOf[c], {})
<1> SUFFICES Fits(m, PathsOf[c])
  BY DEF Fits
<1>1. /\ Fits(m, OnlyVm) /\ Fits(m, OnlyFd) /\ Fits(m, OnlyInner) /\ Fits(m, VmThenFd)
      /\ Fits(m, {Take(<<"vm", "fd">>)}) /\ Fits(m, {Take(<<"inner", "vm">>)})
      /\ Fits(m, Naps) /\ Fits(m, {Nap})
  BY PlainCalls DEF Fits
<1>2. /\ Fits(m, Resolve) /\ Fits(m, Absolute \cup FromCwd) /\ Fits(m, Readlinkat) /\ Fits(m, Renameat2)
      /\ Fits(m, Linkat) /\ Fits(m, Mount) /\ Fits(m, Getdents) /\ Fits(m, Open(Absolute \cup FromCwd))
      /\ Fits(m, Utimensat(Absolute \cup FromCwd))
  BY PathCalls DEF Fits
<1>3. /\ Fits(m, Pselect6) /\ Fits(m, Ppoll) /\ Fits(m, Recvfrom) /\ Fits(m, Accept4) /\ Fits(m, FutexWait)
      /\ Fits(m, Wait4) /\ Fits(m, EpollCtl) /\ Fits(m, EpollWait(None))
  BY WaitingCalls DEF Fits
<1>4. Fits(m, Mmap) /\ Fits(m, Clone) /\ Fits(m, Exec) /\ Fits(m, Exit)
  BY TaskCalls DEF Fits
<1>5. Fits(m, Read(None)) /\ Fits(m, Write(None)) /\ Fits(m, Sendfile(None))
  BY FileCalls DEF Fits
<1>6. c \in SleepWithTable => Fits(m, Read(Naps)) /\ Fits(m, Write(Naps))
  BY SleepingCalls DEF Fits, Judges, Faulty, SleepWithTable, Modes
<1>7. c \in Faulty => /\ Fits(m, Open(Resolve)) /\ Fits(m, Utimensat(Resolve))
                      /\ Fits(m, Sendfile(Naps)) /\ Fits(m, EpollWait(LookAgain))
  BY FaultyCalls DEF Fits, Judges
<1>8. /\ Fits(m, Fstat) /\ Fits(m, Close) /\ Fits(m, Pipe) /\ Fits(m, Dup) /\ Fits(m, Dup3) /\ Fits(m, Lseek)
      /\ Fits(m, Umask) /\ Fits(m, Fcntl) /\ Fits(m, EpollCreate) /\ Fits(m, Socket) /\ Fits(m, Listen)
      /\ Fits(m, Prlimit)
  BY <1>1 DEF Fstat, Close, Pipe, Dup, Dup3, Lseek, Umask, Fcntl, EpollCreate, Socket, Listen, Prlimit
<1>9. /\ Fits(m, Munmap) /\ Fits(m, PageFault) /\ Fits(m, Times) /\ Fits(m, SigCalls) /\ Fits(m, Brk)
      /\ Fits(m, SetTidAddress) /\ Fits(m, Bind) /\ Fits(m, Connect) /\ Fits(m, Ioctl) /\ Fits(m, Sendto)
      /\ Fits(m, Getcwd) /\ Fits(m, Chdir) /\ Fits(m, Nanosleep) /\ Fits(m, Yield) /\ Fits(m, FutexWake)
  BY <1>1 DEF Munmap, PageFault, Times, SigCalls, Brk, SetTidAddress, Bind, Connect, Ioctl, Sendto,
              Getcwd, Chdir, Nanosleep, Yield, FutexWake
<1>10. /\ Fits(m, Fstatat) /\ Fits(m, Unlinkat) /\ Fits(m, Mkdir) /\ Fits(m, Umount) /\ Fits(m, Access)
       /\ Fits(m, Pread)
  BY <1>2, <1>5 DEF Fstatat, Unlinkat, Mkdir, Umount, Access, Readlinkat, Pread
<1>11. CASE c \in SleepWithTable
  <2>1. PathsOf[c] \in {Read(Naps), Write(Naps)}
    BY <1>11 DEF PathsOf, SleepWithTable
  <2> QED
    BY <2>1, <1>6, <1>11
<1>12. CASE c \in Faulty
  <2>1. PathsOf[c] \in {Open(Resolve), Utimensat(Resolve), Sendfile(Naps), EpollWait(LookAgain)}
    BY <1>12 DEF PathsOf, Faulty
  <2> QED
    BY <2>1, <1>7, <1>12
<1>13. CASE c \notin SleepWithTable \cup Faulty
  BY <1>1, <1>2, <1>3, <1>4, <1>5, <1>8, <1>9, <1>10, <1>13, SMTT(60)
     DEF PathsOf, Faulty, SleepWithTable
<1> QED
  BY <1>11, <1>12, <1>13
-----------------------------------------------------------------------------
(* The inductive invariant.                                                *)

HeldBy(t) == {k \in Kinds : held[Lock(t, k)] = t}

Mode == IF ~ Harmless(program) THEN "any"
        ELSE IF OwnTables(program) THEN "own" ELSE "shared"

(* TypeOK but for its last line, which needs the paths.                    *)
Shape ==
  /\ program \in Programs
  /\ queue \in Seq(Tasks) /\ IsInjective(queue)
  /\ current \in Tasks \cup {Nobody} /\ current \notin Range(queue)
  /\ path \in [Tasks -> Seq(Steps)]
  /\ held \in [Kinds \X Tasks -> Tasks \cup {Nobody}]

(* Whoever has a lock has it as one of its own.                            *)
Accounted == \A l \in Kinds \X Tasks : ~ Free(l) => \E k \in Kinds : l = Lock(held[l], k)

(* What is left of a task's path fits what it holds, and ends with nothing *)
(* held.                                                                   *)
Disciplined == \A t \in Tasks : Runs(Mode, path[t], HeldBy(t), {})

(* Without the core a task holds only what it may sleep with.              *)
Asleep == \A t \in Tasks : t # current => HeldBy(t) \in Rests(Mode)

IInv == Shape /\ Accounted /\ Disciplined /\ Asleep

-----------------------------------------------------------------------------
LEMMA ModeType == Mode \in Modes
BY DEF Mode, Modes

(* Locks of different kinds differ, and inner locks are nobody else's.     *)
LEMMA LockFacts ==
  ASSUME program \in Programs
  PROVE  /\ \A t \in Tasks : \A k \in Kinds : Lock(t, k) \in Kinds \X Tasks
         /\ \A t, u \in Tasks : \A k, j \in Kinds : Lock(t, k) = Lock(u, j) => k = j
         /\ \A t, u \in Tasks : Lock(t, "inner") = Lock(u, "inner") => t = u
         /\ \A t, u \in Tasks : Lock(t, "fd") = Lock(u, "fd") => FdOf[t] = FdOf[u]
<1>1. VmOf \in [Tasks -> Tasks] /\ FdOf \in [Tasks -> Tasks] /\ EpollOf \in [Tasks -> Tasks]
  BY LocksAssumption DEF VmOf, FdOf, EpollOf
<1>2. \A t \in Tasks : /\ Lock(t, "inner") = <<"inner", t>> /\ Lock(t, "vm") = <<"vm", VmOf[t]>>
                       /\ Lock(t, "fd") = <<"fd", FdOf[t]>>
                       /\ Lock(t, "epoll") = <<"epoll", EpollOf[t]>>
  BY DEF Lock
<1>3. ASSUME NEW t \in Tasks, NEW k \in Kinds PROVE \E u \in Tasks : Lock(t, k) = <<k, u>>
  <2>1. VmOf[t] \in Tasks /\ FdOf[t] \in Tasks /\ EpollOf[t] \in Tasks
    BY <1>1
  <2>2. k \in {"inner", "vm", "fd", "epoll"}
    BY DEF Kinds
  <2> QED
    BY <1>2, <2>1, <2>2
<1> QED
  BY <1>2, <1>3

(* Clone has settled what is shared.                                       *)
LEMMA SameProgram ==
  ASSUME program' = program
  PROVE  Mode' = Mode /\ \A t, k : Lock(t, k)' = Lock(t, k)
BY DEF Mode, Harmless, OwnTables, Lock, VmOf, FdOf, EpollOf

LEMMA SameHeld ==
  ASSUME program' = program, held' = held
  PROVE  \A t : HeldBy(t)' = HeldBy(t)
BY SameProgram DEF HeldBy

(* What a task that stands at a step has done, and does with it.           *)
LEMMA AtStep ==
  ASSUME IInv, NEW t \in Tasks, NEW op, At(t, op)
  PROVE  /\ current = t /\ path[t] # <<>> /\ path[t] \in Seq(Steps)
         /\ Head(path[t]) \in Steps /\ Head(path[t]).op = op
         /\ Tail(path[t]) \in Seq(Steps) /\ HeldBy(t) \in SUBSET Kinds
         /\ \E L : /\ Leads(Mode, Head(path[t]), HeldBy(t), L)
                   /\ Runs(Mode, Tail(path[t]), L, {})
<1>1. current = t /\ path[t] # <<>> /\ Head(path[t]).op = op
  BY DEF At
<1>2. Runs(Mode, path[t], HeldBy(t), {})
  BY DEF IInv, Disciplined
<1>3. path[t] \in Seq(Steps) /\ HeldBy(t) \in SUBSET Kinds
  BY <1>2, RunKinds
<1> QED
  BY <1>1, <1>2, <1>3, HeadOfRun

(* A task in user mode holds nothing; a lock that is held is its holder's, *)
(* and the holder is in a call.                                            *)
LEMMA Holders ==
  ASSUME IInv
  PROVE  /\ \A t \in Tasks : path[t] = <<>> => HeldBy(t) = {}
         /\ \A l \in Kinds \X Tasks : ~ Free(l) =>
              /\ held[l] \in Tasks
              /\ \E k \in HeldBy(held[l]) : l = Lock(held[l], k)
<1>1. \A t \in Tasks : path[t] = <<>> => HeldBy(t) = {}
  BY EmptyRunOnly DEF IInv, Disciplined
<1>2. ASSUME NEW l \in Kinds \X Tasks, ~ Free(l)
      PROVE  held[l] \in Tasks /\ \E k \in HeldBy(held[l]) : l = Lock(held[l], k)
  <2>1. held[l] \in Tasks
    BY <1>2 DEF IInv, Shape, Free
  <2>2. PICK k \in Kinds : l = Lock(held[l], k)
    BY <1>2 DEF IInv, Accounted
  <2>3. k \in HeldBy(held[l])
    BY <2>2 DEF HeldBy
  <2> QED
    BY <2>1, <2>2, <2>3
<1> QED
  BY <1>1, <1>2

LEMMA IInvTypeOK == IInv => TypeOK
<1> SUFFICES ASSUME IInv PROVE TypeOK
  OBVIOUS
<1>1. ASSUME NEW l \in Kinds \X Tasks, ~ Free(l) PROVE path[held[l]] # <<>>
  BY <1>1, Holders
<1> QED
  BY <1>1 DEF IInv, Shape, TypeOK

(* In a harmless program every wanted lock is free.                        *)
LEMMA IInvNeverSpins ==
  ASSUME IInv, Harmless(program)
  PROVE  NeverSpins
<1> SUFFICES ASSUME NEW l \in Wanted, ~ Free(l) PROVE FALSE
  BY DEF NeverSpins
<1>1. program \in Programs /\ \A t \in Tasks : path[t] \in Seq(Steps)
  BY DEF IInv, Shape
<1>2. Mode \in {"own", "shared"} /\ (Mode = "own" => OwnTables(program))
  BY DEF Mode
<1>3. \A t \in Tasks : t # current => HeldBy(t) \subseteq {"fd"} /\ (Mode = "shared" => HeldBy(t) = {})
  BY <1>2 DEF IInv, Asleep, Rests
<1>4. "inner" \in Kinds /\ "vm" \in Kinds /\ "fd" \in Kinds
  BY DEF Kinds
(* No lock around inner fields or a memory set is held by a sleeper.       *)
<1>5. ASSUME NEW u \in Tasks, NEW k \in {"inner", "vm"}, l = Lock(u, k)
      PROVE  held[l] = current /\ k \in HeldBy(current) /\ current \in Tasks /\ l = Lock(current, k)
  <2>1. l \in Kinds \X Tasks
    BY <1>1, <1>4, <1>5, LockFacts
  <2>2. held[l] \in Tasks /\ \E j \in HeldBy(held[l]) : l = Lock(held[l], j)
    BY <2>1, Holders
  <2>3. k \in HeldBy(held[l]) /\ l = Lock(held[l], k)
    BY <2>2, <1>1, <1>4, <1>5, LockFacts DEF HeldBy
  <2> QED
    BY <2>2, <2>3, <1>3
<1>6. CASE current = Nobody
  <2>1. queue # <<>> /\ l \in ToResume(Head(queue)) /\ Head(queue) \in Tasks
    BY <1>6 DEF Wanted, IInv, Shape
  <2> QED
    BY <2>1, <1>5, <1>6, LocksAssumption DEF ToResume
<1>7. CASE current # Nobody
  <2>1. current \in Tasks
    BY <1>7 DEF IInv, Shape
  <2> DEFINE t == current
  <2>2. \/ At(t, "take") /\ l = Lock(t, Head(path[t]).kind)
        \/ At(t, "nap") /\ l = Lock(t, "inner")
        \/ At(t, "exit") /\ l \in ToBury(t)
    BY <1>7 DEF Wanted
  <2>3. CASE At(t, "take") /\ l = Lock(t, Head(path[t]).kind)
    <3> DEFINE k == Head(path[t]).kind
    <3>1. PICK L : Leads(Mode, Head(path[t]), HeldBy(t), L)
      BY <2>1, <2>3, AtStep
    <3>2. Head(path[t]) \in Steps /\ Head(path[t]).op = "take"
      BY <2>1, <2>3, AtStep
    <3>3. k \in Kinds /\ k \notin HeldBy(t)
      BY <3>1, <3>2, <1>2 DEF Leads, Steps
    <3>4. l \in Kinds \X Tasks
      BY <2>1, <2>3, <3>3, <1>1, LockFacts
    <3>5. PICK j \in HeldBy(held[l]) : held[l] \in Tasks /\ l = Lock(held[l], j)
      BY <3>4, Holders
    <3>6. j = k
      BY <2>1, <2>3, <3>3, <3>5, <1>1, LockFacts DEF HeldBy
    <3>7. held[l] # t
      BY <3>3, <3>5, <3>6
    <3>8. k = "fd" /\ Mode = "own"
      BY <3>5, <3>6, <3>7, <1>2, <1>3
    <3>9. FdOf[held[l]] = FdOf[t]
      BY <2>1, <2>3, <3>5, <3>6, <3>8, <1>1, LockFacts
    <3> QED
      BY <2>1, <3>5, <3>7, <3>8, <3>9, <1>2 DEF OwnTables, FdOf
  <2>4. CASE At(t, "nap") /\ l = Lock(t, "inner")
    <3>1. PICK L : Leads(Mode, Head(path[t]), HeldBy(t), L)
      BY <2>1, <2>4, AtStep
    <3>2. HeldBy(t) \in Rests(Mode)
      BY <2>4, <3>1 DEF At, Leads
    <3> QED
      BY <2>1, <2>4, <3>2, <1>2, <1>5 DEF Rests
  <2>5. CASE At(t, "exit") /\ l \in ToBury(t)
    <3>1. PICK L : Leads(Mode, Head(path[t]), HeldBy(t), L)
      BY <2>1, <2>5, AtStep
    <3>2. HeldBy(t) = {}
      BY <2>5, <3>1 DEF At, Leads
    <3> QED
      BY <2>1, <2>5, <3>2, <1>5 DEF ToBury
  <2> QED
    BY <2>2, <2>3, <2>4, <2>5
<1> QED
  BY <1>6, <1>7

-----------------------------------------------------------------------------
(* The kernel starts in the invariant.                                     *)
LEMMA InitIInv == Init => IInv
<1> SUFFICES ASSUME Init PROVE IInv
  OBVIOUS
<1> DEFINE N == Cardinality(Tasks)
<1>1. queue \in Seq(Tasks) /\ IsInjective(queue)
  <2>1. queue = CHOOSE f \in [1..N -> Tasks] : IsInjective(f)
    BY DEF Init, SetToSeq
  <2>2. PICK f : f \in Bijection(1..N, Tasks)
    BY FS_CardinalityType, LocksAssumption DEF ExistsBijection
  <2>3. f \in [1..N -> Tasks] /\ IsInjective(f)
    BY <2>2 DEF Bijection, Injection, IsInjective
  <2>4. queue \in [1..N -> Tasks] /\ IsInjective(queue)
    BY <2>1, <2>3
  <2>5. N \in Nat
    BY FS_CardinalityType, LocksAssumption
  <2> QED
    BY <2>4, <2>5
<1>2. Nobody \notin Range(queue)
  BY <1>1, LocksAssumption DEF Range
<1>3. \A t \in Tasks : path[t] = <<>> /\ path[t] \in Seq(Steps)
  BY DEF Init
<1>4. Shape
  BY <1>1, <1>2, <1>3 DEF Init, Shape
<1>5. \A t \in Tasks : HeldBy(t) = {}
  <2>1. program \in Programs /\ \A l \in Kinds \X Tasks : held[l] = Nobody
    BY DEF Init
  <2> QED
    BY <2>1, LockFacts, LocksAssumption DEF HeldBy
<1>6. Accounted
  BY DEF Init, Accounted, Free
<1>7. Disciplined
  BY <1>3, <1>5, EmptyRun DEF Disciplined
<1>8. Asleep
  BY <1>5, ModeType, NothingRests DEF Asleep
<1> QED
  BY <1>4, <1>6, <1>7, <1>8 DEF IInv

-----------------------------------------------------------------------------
(* A step that takes and drops nothing.                                    *)
LEMMA QuietStep ==
  ASSUME IInv, program' = program, held' = held, NEW t \in Tasks,
         \A u \in Tasks : u # t => path'[u] = path[u],
         Runs(Mode, path'[t], HeldBy(t), {})
  PROVE  Accounted' /\ Disciplined'
<1>1. Mode' = Mode /\ (\A u, k : Lock(u, k)' = Lock(u, k)) /\ \A u : HeldBy(u)' = HeldBy(u)
  BY SameProgram, SameHeld
<1>2. Accounted'
  BY <1>1 DEF IInv, Accounted, Free
<1>3. \A u \in Tasks : Runs(Mode, path'[u], HeldBy(u), {})
  BY DEF IInv, Disciplined
<1> QED
  BY <1>1, <1>2, <1>3 DEF Disciplined

LEMMA ResumeStep == ASSUME IInv, Resume PROVE IInv'
<1> DEFINE t == Head(queue)
<1>1. current = Nobody /\ queue # <<>> /\ current' = t /\ queue' = Tail(queue)
      /\ UNCHANGED <<program, path, held>>
  BY DEF Resume
<1>2. queue \in Seq(Tasks) /\ IsInjective(queue) /\ Len(queue) \in Nat /\ Len(queue) > 0
      /\ t = queue[1] /\ t \in Tasks
  BY <1>1 DEF IInv, Shape
<1>3. queue' \in Seq(Tasks) /\ IsInjective(queue') /\ t \notin Range(queue')
  <2>1. queue' \in Seq(Tasks) /\ Len(queue') = Len(queue) - 1
        /\ \A i \in 1..Len(queue') : queue'[i] = queue[i + 1]
    BY <1>1, <1>2
  <2>2. DOMAIN queue = 1..Len(queue) /\ DOMAIN queue' = 1..Len(queue')
    BY <1>2, <2>1
  <2>3. \A i, j \in 1..Len(queue) : queue[i] = queue[j] => i = j
    BY <1>2, <2>2 DEF IsInjective
  <2>4. \A i, j \in 1..Len(queue') : queue'[i] = queue'[j] => i = j
    BY <2>1, <2>3, <1>2
  <2>5. \A i \in 1..Len(queue') : queue'[i] # t
    BY <2>1, <2>3, <1>2
  <2> QED
    BY <2>1, <2>2, <2>4, <2>5 DEF IsInjective, Range
<1>4. Shape'
  BY <1>1, <1>2, <1>3 DEF IInv, Shape
<1>5. Mode' = Mode /\ \A u : HeldBy(u)' = HeldBy(u)
  BY <1>1, SameProgram, SameHeld
<1>6. Accounted' /\ Disciplined'
  <2>1. Runs(Mode, path'[t], HeldBy(t), {})
    BY <1>1, <1>2 DEF IInv, Disciplined
  <2> QED
    BY <2>1, <1>1, <1>2, QuietStep
<1>7. Asleep'
  <2>1. \A u \in Tasks : HeldBy(u) \in Rests(Mode)
    BY <1>1, LocksAssumption DEF IInv, Asleep
  <2> QED
    BY <2>1, <1>5 DEF Asleep
<1> QED
  BY <1>4, <1>6, <1>7 DEF IInv

LEMMA CallStep == ASSUME IInv, NEW t \in Tasks, Call(t) PROVE IInv'
<1> DEFINE r == <<[op |-> "return"]>>
<1>0. PICK c \in program.calls : \E p \in PathsOf[c] :
        path' = [path EXCEPT ![t] = p \o <<[op |-> "return"]>>]
  BY DEF Call
<1>1. PICK p \in PathsOf[c] : path' = [path EXCEPT ![t] = p \o <<[op |-> "return"]>>]
  BY <1>0
<1>2. current = t /\ path[t] = <<>> /\ UNCHANGED <<program, queue, current, held>>
  BY DEF Call
<1>3. program \in Programs /\ path \in [Tasks -> Seq(Steps)]
  BY DEF IInv, Shape
<1>4. HeldBy(t) = {}
  BY <1>2, Holders
<1>5. PICK L : Runs(Mode, p, {}, L)
  <2>1. c \in DOMAIN PathsOf
    BY <1>3, ProgramsAssumption
  <2>2. Judges(Mode, c)
    BY DEF Judges, Mode, Harmless
  <2> QED
    BY <2>1, <2>2, ModeType, CallsRun DEF Ends
<1>6. Runs(Mode, r, L, {})
  <2>1. L \in SUBSET Kinds
    BY <1>5, RunKinds
  <2> DEFINE s == [op |-> "return"]
  <2>2. s \in Steps /\ Leads(Mode, s, L, {})
    BY StepsOf DEF Leads
  <2> HIDE DEF s
  <2>3. Runs(Mode, <<s>>, L, {})
    BY <2>1, <2>2, StepRun
  <2> QED
    BY <2>3 DEF s
<1>7. Runs(Mode, p \o r, {}, {})
  BY <1>5, <1>6, CatRun
<1>8. path' = [path EXCEPT ![t] = p \o r]
  BY <1>1
<1> HIDE DEF r
<1>9. path'[t] = p \o r /\ path' \in [Tasks -> Seq(Steps)]
      /\ \A u \in Tasks : u # t => path'[u] = path[u]
  <2>1. p \o r \in Seq(Steps)
    BY <1>7, RunKinds
  <2> QED
    BY <2>1, <1>3, <1>8
<1>10. Shape'
  BY <1>2, <1>9 DEF IInv, Shape
<1>11. Accounted' /\ Disciplined'
  BY <1>2, <1>4, <1>7, <1>9, QuietStep
<1>12. Asleep'
  BY <1>2, SameProgram, SameHeld DEF IInv, Asleep
<1> QED
  BY <1>10, <1>11, <1>12 DEF IInv

LEMMA SuspendStep == ASSUME IInv, NEW t \in Tasks, Suspend(t) PROVE IInv'
<1>1. At(t, "nap") /\ current' = Nobody /\ queue' = Append(queue, t)
      /\ path' = [path EXCEPT ![t] = Tail(@)] /\ UNCHANGED <<program, held>>
  BY DEF Suspend, Advance
<1>2. PICK L : /\ Leads(Mode, Head(path[t]), HeldBy(t), L)
               /\ Runs(Mode, Tail(path[t]), L, {})
  BY <1>1, AtStep
<1>3. current = t /\ Head(path[t]).op = "nap" /\ Tail(path[t]) \in Seq(Steps)
  BY <1>1, AtStep
<1>4. HeldBy(t) \in Rests(Mode) /\ L = HeldBy(t)
  BY <1>2, <1>3 DEF Leads
<1>5. path'[t] = Tail(path[t]) /\ path' \in [Tasks -> Seq(Steps)]
      /\ \A u \in Tasks : u # t => path'[u] = path[u]
  BY <1>1, <1>3 DEF IInv, Shape
<1>6. Shape'
  <2>1. queue \in Seq(Tasks) /\ IsInjective(queue) /\ t \notin Range(queue)
    BY <1>3 DEF IInv, Shape
  <2>2. queue' \in Seq(Tasks) /\ Len(queue') = Len(queue) + 1 /\ Len(queue) \in Nat
        /\ queue'[Len(queue) + 1] = t /\ \A i \in 1..Len(queue) : queue'[i] = queue[i]
    BY <1>1, <2>1
  <2>3. DOMAIN queue = 1..Len(queue) /\ DOMAIN queue' = 1..(Len(queue) + 1)
    BY <2>1, <2>2
  <2>4. \A i, j \in 1..Len(queue) : queue[i] = queue[j] => i = j
    BY <2>1, <2>3 DEF IsInjective
  <2>5. \A i \in 1..Len(queue) : queue[i] # t
    BY <2>1, <2>3 DEF Range
  <2>6. \A i, j \in 1..(Len(queue) + 1) : queue'[i] = queue'[j] => i = j
    BY <2>2, <2>4, <2>5
  <2>7. IsInjective(queue')
    BY <2>3, <2>6 DEF IsInjective
  <2>8. Nobody \notin Range(queue')
    BY <2>2, <2>3, LocksAssumption DEF Range
  <2> QED
    BY <2>2, <2>7, <2>8, <1>1, <1>5 DEF IInv, Shape
<1>7. Accounted' /\ Disciplined'
  BY <1>1, <1>2, <1>4, <1>5, QuietStep
<1>8. Asleep'
  <2>1. \A u \in Tasks : HeldBy(u) \in Rests(Mode)
    BY <1>3, <1>4 DEF IInv, Asleep
  <2> QED
    BY <2>1, <1>1, SameProgram, SameHeld DEF Asleep
<1> QED
  BY <1>6, <1>7, <1>8 DEF IInv

LEMMA DieStep == ASSUME IInv, NEW t \in Tasks, Die(t) PROVE IInv'
<1>1. At(t, "exit") /\ current' = Nobody /\ path' = [path EXCEPT ![t] = <<>>]
      /\ UNCHANGED <<program, queue, held>>
  BY DEF Die
<1>2. PICK L : Leads(Mode, Head(path[t]), HeldBy(t), L)
  BY <1>1, AtStep
<1>3. current = t /\ Head(path[t]).op = "exit"
  BY <1>1, AtStep
<1>4. HeldBy(t) = {}
  BY <1>2, <1>3 DEF Leads
<1>5. path'[t] = <<>> /\ path' \in [Tasks -> Seq(Steps)]
      /\ \A u \in Tasks : u # t => path'[u] = path[u]
  BY <1>1 DEF IInv, Shape
<1>6. Shape'
  <2>1. Nobody \notin Range(queue)
    BY LocksAssumption DEF IInv, Shape, Range
  <2> QED
    BY <2>1, <1>1, <1>5 DEF IInv, Shape
<1>7. Accounted' /\ Disciplined'
  <2>1. Runs(Mode, <<>>, {}, {})
    BY EmptyRun
  <2> QED
    BY <2>1, <1>1, <1>4, <1>5, QuietStep
<1>8. Asleep'
  <2>1. \A u \in Tasks : HeldBy(u) \in Rests(Mode)
    BY <1>3, <1>4, ModeType, NothingRests DEF IInv, Asleep
  <2> QED
    BY <2>1, <1>1, SameProgram, SameHeld DEF Asleep
<1> QED
  BY <1>6, <1>7, <1>8 DEF IInv

(* A step in which only the task at the core changes what it holds, by a   *)
(* step of its path.                                                       *)
LEMMA HoldingStep ==
  ASSUME IInv, NEW t \in Tasks, current = t, UNCHANGED <<program, queue, current>>,
         path' = [path EXCEPT ![t] = Tail(@)], Tail(path[t]) \in Seq(Steps),
         held' \in [Kinds \X Tasks -> Tasks \cup {Nobody}], Accounted',
         \A u \in Tasks : u # t => HeldBy(u)' = HeldBy(u),
         Runs(Mode, Tail(path[t]), HeldBy(t)', {})
  PROVE  IInv'
<1>1. path'[t] = Tail(path[t]) /\ path' \in [Tasks -> Seq(Steps)]
      /\ \A u \in Tasks : u # t => path'[u] = path[u]
  BY DEF IInv, Shape
<1>2. Shape'
  BY <1>1 DEF IInv, Shape
<1>3. Mode' = Mode
  BY SameProgram
<1>4. Disciplined'
  <2>1. \A u \in Tasks : Runs(Mode, path'[u], HeldBy(u)', {})
    BY <1>1 DEF IInv, Disciplined
  <2> QED
    BY <2>1, <1>3 DEF Disciplined
<1>5. Asleep'
  BY <1>3 DEF IInv, Asleep
<1> QED
  BY <1>2, <1>4, <1>5 DEF IInv

LEMMA AccountedNext ==
  ASSUME program' = program,
         \A l \in Kinds \X Tasks : held'[l] # Nobody => \E k \in Kinds : l = Lock(held'[l], k)
  PROVE  Accounted'
BY DEF Accounted, Free, Lock, VmOf, FdOf, EpollOf

LEMMA TakeLockStep == ASSUME IInv, NEW t \in Tasks, TakeLock(t) PROVE IInv'
<1> DEFINE k == Head(path[t]).kind  l == Lock(t, k)
<1>1. At(t, "take") /\ held[l] = Nobody /\ held' = [held EXCEPT ![l] = t]
      /\ path' = [path EXCEPT ![t] = Tail(@)] /\ UNCHANGED <<program, queue, current>>
  BY DEF TakeLock, Advance, Free
<1>2. PICK L : /\ Leads(Mode, Head(path[t]), HeldBy(t), L)
               /\ Runs(Mode, Tail(path[t]), L, {})
  BY <1>1, AtStep
<1>3. current = t /\ Head(path[t]).op = "take" /\ Head(path[t]) \in Steps
      /\ Tail(path[t]) \in Seq(Steps)
  BY <1>1, AtStep
<1>4. k \in Kinds /\ L = HeldBy(t) \cup {k}
  BY <1>2, <1>3 DEF Leads, Steps
<1>5. program \in Programs /\ l \in Kinds \X Tasks
      /\ held \in [Kinds \X Tasks -> Tasks \cup {Nobody}]
  BY <1>4, LockFacts DEF IInv, Shape
<1> HIDE DEF k, l
<1>6. \A x \in Kinds \X Tasks : held'[x] = IF x = l THEN t ELSE held[x]
  BY <1>1, <1>5
<1>7. \A u \in Tasks : \A j \in Kinds : Lock(u, j)' = Lock(u, j) /\ Lock(u, j) \in Kinds \X Tasks
  BY <1>1, <1>5, SameProgram, LockFacts
<1>8. ASSUME NEW u \in Tasks, u # t PROVE HeldBy(u)' = HeldBy(u)
  <2>1. \A j \in Kinds : held'[Lock(u, j)] = u <=> held[Lock(u, j)] = u
    BY <1>1, <1>6, <1>7, <1>8, LocksAssumption
  <2> QED
    BY <2>1, <1>7 DEF HeldBy
<1>9. HeldBy(t)' = L
  <2>1. \A j \in Kinds : held'[Lock(t, j)] = t <=> held[Lock(t, j)] = t \/ j = k
    BY <1>4, <1>5, <1>6, <1>7, LockFacts DEF l
  <2> QED
    BY <2>1, <1>4, <1>7 DEF HeldBy
<1>10. Accounted'
  <2> SUFFICES ASSUME NEW x \in Kinds \X Tasks, held'[x] # Nobody
               PROVE  \E j \in Kinds : x = Lock(held'[x], j)
    BY <1>1, AccountedNext
  <2>1. CASE x = l
    BY <2>1, <1>4, <1>6 DEF l
  <2>2. CASE x # l
    <3>1. held'[x] = held[x] /\ held[x] \in Tasks
      BY <2>2, <1>5, <1>6
    <3>2. PICK j \in Kinds : x = Lock(held[x], j)
      BY <3>1 DEF IInv, Accounted, Free
    <3> QED
      BY <3>1, <3>2
  <2> QED
    BY <2>1, <2>2
<1>11. held' \in [Kinds \X Tasks -> Tasks \cup {Nobody}]
  BY <1>1, <1>5
<1> QED
  BY <1>1, <1>2, <1>3, <1>8, <1>9, <1>10, <1>11, HoldingStep

LEMMA DropLockStep == ASSUME IInv, NEW t \in Tasks, DropLock(t) PROVE IInv'
<1> DEFINE k == Head(path[t]).kind  l == Lock(t, k)
<1>1. At(t, "drop") /\ held' = [held EXCEPT ![l] = Nobody]
      /\ path' = [path EXCEPT ![t] = Tail(@)] /\ UNCHANGED <<program, queue, current>>
  BY DEF DropLock, Advance
<1>2. PICK L : /\ Leads(Mode, Head(path[t]), HeldBy(t), L)
               /\ Runs(Mode, Tail(path[t]), L, {})
  BY <1>1, AtStep
<1>3. current = t /\ Head(path[t]).op = "drop" /\ Head(path[t]) \in Steps
      /\ Tail(path[t]) \in Seq(Steps)
  BY <1>1, AtStep
<1>4. k \in Kinds /\ held[l] = t /\ L = HeldBy(t) \ {k}
  BY <1>2, <1>3 DEF Leads, HeldBy
<1>5. program \in Programs /\ l \in Kinds \X Tasks
      /\ held \in [Kinds \X Tasks -> Tasks \cup {Nobody}]
  BY <1>4, LockFacts DEF IInv, Shape
<1> HIDE DEF k, l
<1>6. \A x \in Kinds \X Tasks : held'[x] = IF x = l THEN Nobody ELSE held[x]
  BY <1>1, <1>5
<1>7. \A u \in Tasks : \A j \in Kinds : Lock(u, j)' = Lock(u, j) /\ Lock(u, j) \in Kinds \X Tasks
  BY <1>1, <1>5, SameProgram, LockFacts
<1>8. ASSUME NEW u \in Tasks, u # t PROVE HeldBy(u)' = HeldBy(u)
  <2>1. \A j \in Kinds : held'[Lock(u, j)] = u <=> held[Lock(u, j)] = u
    BY <1>4, <1>6, <1>7, <1>8, LocksAssumption
  <2> QED
    BY <2>1, <1>7 DEF HeldBy
<1>9. HeldBy(t)' = L
  <2>1. \A j \in Kinds : held'[Lock(t, j)] = t <=> held[Lock(t, j)] = t /\ j # k
    BY <1>4, <1>5, <1>6, <1>7, LockFacts, LocksAssumption DEF l
  <2> QED
    BY <2>1, <1>4, <1>7 DEF HeldBy
<1>10. Accounted'
  <2> SUFFICES ASSUME NEW x \in Kinds \X Tasks, held'[x] # Nobody
               PROVE  \E j \in Kinds : x = Lock(held'[x], j)
    BY <1>1, AccountedNext
  <2>1. held'[x] = held[x] /\ held[x] \in Tasks
    BY <1>5, <1>6
  <2>2. PICK j \in Kinds : x = Lock(held[x], j)
    BY <2>1 DEF IInv, Accounted, Free
  <2> QED
    BY <2>1, <2>2
<1>11. held' \in [Kinds \X Tasks -> Tasks \cup {Nobody}]
  BY <1>1, <1>5
<1> QED
  BY <1>1, <1>2, <1>3, <1>8, <1>9, <1>10, <1>11, HoldingStep

LEMMA ReturnStep == ASSUME IInv, NEW t \in Tasks, Return(t) PROVE IInv'
<1>1. /\ At(t, "return") /\ path' = [path EXCEPT ![t] = Tail(@)]
      /\ held' = [l \in DOMAIN held |-> IF held[l] = t THEN Nobody ELSE held[l]]
      /\ UNCHANGED <<program, queue, current>>
  BY DEF Return, Advance, Kept
<1>2. PICK L : /\ Leads(Mode, Head(path[t]), HeldBy(t), L)
               /\ Runs(Mode, Tail(path[t]), L, {})
  BY <1>1, AtStep
<1>3. current = t /\ Head(path[t]).op = "return" /\ Tail(path[t]) \in Seq(Steps)
  BY <1>1, AtStep
<1>4. L = {}
  BY <1>2, <1>3 DEF Leads
<1>5. program \in Programs /\ held \in [Kinds \X Tasks -> Tasks \cup {Nobody}]
  BY DEF IInv, Shape
<1>6. \A x \in Kinds \X Tasks : held'[x] = IF held[x] = t THEN Nobody ELSE held[x]
  BY <1>1, <1>5
<1>7. \A u \in Tasks : \A j \in Kinds : Lock(u, j)' = Lock(u, j) /\ Lock(u, j) \in Kinds \X Tasks
  BY <1>1, <1>5, SameProgram, LockFacts
<1>8. ASSUME NEW u \in Tasks, u # t PROVE HeldBy(u)' = HeldBy(u)
  <2>1. \A j \in Kinds : held'[Lock(u, j)] = u <=> held[Lock(u, j)] = u
    BY <1>6, <1>7, <1>8, LocksAssumption
  <2> QED
    BY <2>1, <1>7 DEF HeldBy
<1>9. HeldBy(t)' = L
  <2>1. \A j \in Kinds : held'[Lock(t, j)] # t
    BY <1>6, <1>7, LocksAssumption
  <2> QED
    BY <2>1, <1>4, <1>7 DEF HeldBy
<1>10. Accounted'
  <2> SUFFICES ASSUME NEW x \in Kinds \X Tasks, held'[x] # Nobody
               PROVE  \E j \in Kinds : x = Lock(held'[x], j)
    BY <1>1, AccountedNext
  <2>1. held'[x] = held[x] /\ held[x] \in Tasks
    BY <1>5, <1>6
  <2>2. PICK j \in Kinds : x = Lock(held[x], j)
    BY <2>1 DEF IInv, Accounted, Free
  <2> QED
    BY <2>1, <2>2
<1>11. held' \in [Kinds \X Tasks -> Tasks \cup {Nobody}]
  BY <1>5, <1>6, <1>1
<1> QED
  BY <1>1, <1>2, <1>3, <1>8, <1>9, <1>10, <1>11, HoldingStep

(* Every step keeps the invariant.                                         *)
LEMMA NextIInv == IInv /\ [Next]_vars => IInv'
<1> SUFFICES ASSUME IInv, [Next]_vars PROVE IInv'
  OBVIOUS
<1>1. CASE Resume
  BY <1>1, ResumeStep
<1>2. ASSUME NEW t \in Tasks,
             Call(t) \/ TakeLock(t) \/ DropLock(t) \/ Suspend(t) \/ Return(t) \/ Die(t)
      PROVE  IInv'
  BY <1>2, CallStep, TakeLockStep, DropLockStep, SuspendStep, ReturnStep, DieStep
<1>3. CASE UNCHANGED vars
  <2>1. UNCHANGED <<program, queue, current, path, held>>
    BY <1>3 DEF vars
  <2>2. Mode' = Mode /\ (\A u, k : Lock(u, k)' = Lock(u, k)) /\ \A u : HeldBy(u)' = HeldBy(u)
    BY <2>1, SameProgram, SameHeld
  <2> QED
    BY <2>1, <2>2 DEF IInv, Shape, Accounted, Free, Disciplined, Asleep
<1> QED
  BY <1>1, <1>2, <1>3 DEF Next

(* What is left of every call fits what its task holds, in every reachable *)
(* state, whatever the calls are.                                          *)
THEOREM Inductive == Spec => []IInv
BY InitIInv, NextIInv, PTL DEF Spec

(* Types; a task holds a lock only inside a call, also in a program that   *)
(* may stop the kernel.                                                    *)
THEOREM Typing == Spec => []TypeOK
BY Inductive, IInvTypeOK, PTL

(* If the programs leave out openat and utimensat by descriptor, sendfile  *)
(* that sleeps and epoll_wait that sleeps, and tasks that share a table    *)
(* also reads and writes that sleep, then every lock is free when the core *)
(* wants it: for any number of tasks, whatever else they share.            *)
THEOREM NoneSpins ==
  ASSUME \A p \in Programs : Harmless(p)
  PROVE  Spec => []NeverSpins
<1>1. IInv => NeverSpins
  <2> SUFFICES ASSUME IInv PROVE NeverSpins
    OBVIOUS
  <2>1. Harmless(program)
    BY DEF IInv, Shape
  <2> QED
    BY <2>1, IInvNeverSpins
<1> QED
  BY <1>1, Inductive, PTL
=============================================================================
