------------------------------ MODULE MirrorProofs ------------------------------
(***************************************************************************)
(* Merge groups, the verdicts on properties, and the composition of both   *)
(* with the crawls.                                                        *)
(*                                                                         *)
(* Merging: the walk over adjacent plots, a recursion over the numbers,    *)
(* reaches all plots exactly if no way to part them in two keeps the parts *)
(* more than two blocks from each other; and the invariant MergeInv says   *)
(* of every moment of a rebuild which groups are written.                  *)
(*                                                                         *)
(* Verdicts: the at-risk table, the headline, the exclusions page, the     *)
(* limits, the pages of a plot and of a player and the channel write their *)
(* predicates out once each; they are equivalent whatever is stored.       *)
(***************************************************************************)
EXTENDS MCMirror, ForumListingProofs, RealtySyncProofs, FiniteSetTheorems,
        WellFoundedInduction, TLAPS

-----------------------------------------------------------------------------
(* A set of numbers has a least one, ...                                    *)
LEMMA LeastNumber ==
  ASSUME NEW S \in SUBSET Nat, S # {}
  PROVE  \E m \in S : \A n \in S : m <= n
<1> DEFINE R == OpToRel(<, Nat)
<1>1. IsWellFoundedOn(R, Nat)
  BY NatLessThanWellFounded
<1>2. \A x, y \in Nat : x < y => <<x, y>> \in R
  BY DEF OpToRel
<1> HIDE DEF R
<1>3. PICK m \in S : \A n \in S : <<n, m>> \notin R
  BY <1>1, WFMin
<1>4. \A n \in S : ~(n < m)
  BY <1>2, <1>3
<1> QED BY <1>4

(* ... and one that holds zero and with a number the next holds them all.   *)
LEMMA AllNumbers ==
  ASSUME NEW S \in SUBSET Nat, 0 \in S, \A n \in S : n + 1 \in S
  PROVE  S = Nat
<1> DEFINE T == Nat \ S
<1>1. SUFFICES ASSUME T # {} PROVE FALSE
  OBVIOUS
<1>2. PICK n \in T : \A m \in T : n <= m
  <2>1. T \in SUBSET Nat
    OBVIOUS
  <2> HIDE DEF T
  <2> QED BY <1>1, <2>1, LeastNumber
<1>3. n \in Nat /\ n # 0
  BY <1>2
<1>4. n - 1 \in Nat /\ ~(n <= n - 1) /\ (n - 1) + 1 = n
  BY <1>3
<1>5. n - 1 \notin T
  BY <1>2, <1>4
<1> QED BY <1>2, <1>4, <1>5

(* A walk from s along st exists: the recursion has a solution.             *)
Runs(T, s, st, n) == {g \in [0..n -> T] : g[0] = s /\ \A i \in 1..n : g[i] = st[g[i - 1]]}

LEMMA RunsExist ==
  ASSUME NEW T, NEW s \in T, NEW st \in [T -> T]
  PROVE  \A n \in Nat : Runs(T, s, st, n) # {}
<1> DEFINE S == {n \in Nat : Runs(T, s, st, n) # {}}
<1>1. 0 \in S
  <2> DEFINE g == [i \in 0..0 |-> s]
  <2>1. g \in Runs(T, s, st, 0)
    BY DEF Runs
  <2> QED BY <2>1
<1>2. ASSUME NEW n \in S PROVE n + 1 \in S
  <2>1. PICK g \in [0..n -> T] : g[0] = s /\ \A i \in 1..n : g[i] = st[g[i - 1]]
    BY <1>2 DEF Runs
  <2> DEFINE h == [i \in 0..(n + 1) |-> IF i = n + 1 THEN st[g[n]] ELSE g[i]]
  <2>2. n \in Nat
    OBVIOUS
  <2>3. h \in [0..(n + 1) -> T]
    BY <2>1, <2>2
  <2>4. h[0] = s
    BY <2>1, <2>2
  <2>5. ASSUME NEW i \in 1..(n + 1) PROVE h[i] = st[h[i - 1]]
    BY <2>1, <2>2
  <2>6. h \in Runs(T, s, st, n + 1)
    <3> HIDE DEF h
    <3> QED BY <2>3, <2>4, <2>5 DEF Runs
  <2> QED BY <2>2, <2>6
<1>3. S = Nat
  <2> HIDE DEF S
  <2>1. S \in SUBSET Nat
    BY DEF S
  <2> QED BY <1>1, <1>2, <2>1, AllNumbers
<1> QED BY <1>3

LEMMA RunsAgree ==
  ASSUME NEW T, NEW s \in T, NEW st \in [T -> T], NEW n \in Nat, NEW m \in Nat, n <= m,
         NEW g \in Runs(T, s, st, n), NEW h \in Runs(T, s, st, m)
  PROVE  g[n] = h[n]
<1> DEFINE S == {i \in Nat : i <= n => g[i] = h[i]}
<1>1. 0 \in S
  BY DEF Runs
<1>2. ASSUME NEW i \in S PROVE i + 1 \in S
  <2>1. CASE i + 1 <= n
    <3>1. i + 1 \in 1..n /\ i + 1 \in 1..m /\ (i + 1) - 1 = i /\ i <= n
      BY <2>1
    <3>2. g[i + 1] = st[g[i]] /\ h[i + 1] = st[h[i]]
      BY <3>1 DEF Runs
    <3> QED BY <3>1, <3>2
  <2>2. CASE ~(i + 1 <= n)
    BY <2>2
  <2> QED BY <2>1, <2>2
<1>3. S = Nat
  <2> HIDE DEF S
  <2>1. S \in SUBSET Nat
    BY DEF S
  <2> QED BY <1>1, <1>2, <2>1, AllNumbers
<1> QED BY <1>3

LEMMA WalkExists ==
  ASSUME NEW T, NEW s \in T, NEW st \in [T -> T]
  PROVE  \E f : f = [n \in Nat |-> IF n = 0 THEN s ELSE st[f[n - 1]]]
<1> DEFINE run(n) == CHOOSE g \in Runs(T, s, st, n) : TRUE
           f == [n \in Nat |-> run(n)[n]]
<1>1. \A n \in Nat : run(n) \in Runs(T, s, st, n)
  BY RunsExist
<1>2. ASSUME NEW n \in Nat PROVE f[n] = IF n = 0 THEN s ELSE st[f[n - 1]]
  <2>1. f[n] = run(n)[n] /\ run(n) \in Runs(T, s, st, n)
    BY <1>1
  <2> HIDE DEF run
  <2>2. CASE n = 0
    BY <2>1, <2>2 DEF Runs
  <2>3. CASE n # 0
    <3>1. n - 1 \in Nat /\ n - 1 <= n /\ n \in 1..n
      BY <2>3
    <3>2. run(n)[n] = st[run(n)[n - 1]]
      BY <2>1, <3>1 DEF Runs
    <3>3. run(n - 1)[n - 1] = run(n)[n - 1]
      <4>1. run(n - 1) \in Runs(T, s, st, n - 1)
        BY <1>1, <3>1
      <4> QED BY <2>1, <3>1, <4>1, RunsAgree
    <3>4. f[n - 1] = run(n - 1)[n - 1]
      BY <3>1
    <3> QED BY <2>1, <2>3, <3>2, <3>3, <3>4
  <2> QED BY <2>2, <2>3
<1>3. f = [n \in Nat |-> IF n = 0 THEN s ELSE st[f[n - 1]]]
  <2>1. f = [n \in Nat |-> f[n]]
    OBVIOUS
  <2> HIDE DEF f
  <2>2. [n \in Nat |-> f[n]] = [n \in Nat |-> IF n = 0 THEN s ELSE st[f[n - 1]]]
    BY <1>2
  <2> QED BY <2>1, <2>2
<1> QED BY <1>3

-----------------------------------------------------------------------------
(* Plots as a report's candidates, each once.                               *)
MergeCandidates == [plot : SubPlots, owner : PlotOwners \cup {NoOwner},
               bounds : Footprints \cup {NoBounds}]
CandidateSets == {cs \in SUBSET MergeCandidates : \A c, d \in cs : c.plot = d.plot => c = d}

LEMMA CandidatesAreFinite ==
  ASSUME NEW cs \in CandidateSets
  PROVE  IsFiniteSet(cs) /\ Cardinality(cs) \in Nat
<1> DEFINE f == [c \in cs |-> c.plot]
<1>1. IsFiniteSet(SubPlots)
  BY MergeAssumption
<1>2. f \in Injection(cs, SubPlots)
  BY DEF CandidateSets, MergeCandidates, Injection, IsInjective
<1>3. IsFiniteSet(cs)
  <2> HIDE DEF f
  <2> QED BY <1>1, <1>2, FS_Injection
<1> QED BY <1>3, FS_CardinalityType

LEMMA FirstIsOne ==
  ASSUME NEW cs \in CandidateSets, cs # {}
  PROVE  First(cs) \in cs
<1> DEFINE T == {c.plot : c \in cs}
<1>1. T \in SUBSET Nat /\ T # {}
  <2>1. \A c \in cs : c.plot \in SubPlots
    BY DEF CandidateSets, MergeCandidates
  <2> QED BY <2>1, MergeAssumption
<1>2. PICK n \in T : \A m \in T : n <= m
  <2> HIDE DEF T
  <2> QED BY <1>1, LeastNumber
<1>3. PICK c \in cs : c.plot = n
  OBVIOUS
<1>4. \A d \in cs : c.plot <= d.plot
  BY <1>2, <1>3
<1> QED BY <1>4 DEF First

(* Whatever parts two boxes parts them both ways.                           *)
LEMMA AdjacencyIsMutual ==
  ASSUME NEW c, NEW d
  PROVE  AreAdjacent(c, d) <=> AreAdjacent(d, c)
<1>1. \A a, b : {a, b} = {b, a}
  OBVIOUS
<1>2. \A a, b : Gap(a, b) = Gap(b, a)
  BY <1>1 DEF Gap
<1> QED BY <1>2 DEF AreAdjacent

(* One more round of the walk.                                              *)
Near(cs, W) == {d \in cs : \E c \in W : c = d \/ AreAdjacent(c, d)}

LEMMA ReachedByRounds ==
  ASSUME NEW cs \in CandidateSets, cs # {}
  PROVE  \E f \in [Nat -> SUBSET cs] :
           /\ f[0] = {First(cs)}
           /\ \A n \in Nat : f[n + 1] = Near(cs, f[n])
           /\ Reached(cs) = f[Cardinality(cs)]
<1> DEFINE st == [W \in SUBSET cs |-> Near(cs, W)]
           T == SUBSET cs
           s == {First(cs)}
           Def(f) == f = [n \in Nat |-> IF n = 0 THEN {First(cs)}
                            ELSE {d \in cs : \E c \in f[n - 1] : c = d \/ AreAdjacent(c, d)}]
           w == CHOOSE f : Def(f)
<1>1. s \in T /\ st \in [T -> T]
  BY FirstIsOne DEF Near
<1>2. PICK f : f = [n \in Nat |-> IF n = 0 THEN s ELSE st[f[n - 1]]]
  <2> HIDE DEF T, s, st
  <2> QED BY <1>1, WalkExists
<1>3. \A n \in Nat : f[n] \in T
  <2> DEFINE S == {n \in Nat : f[n] \in T}
  <2>0. ASSUME NEW n \in Nat PROVE f[n] = IF n = 0 THEN s ELSE st[f[n - 1]]
    <3> HIDE DEF s, st
    <3> QED BY <1>2
  <2>1. 0 \in S
    BY <1>1, <2>0
  <2>2. ASSUME NEW n \in S PROVE n + 1 \in S
    <3>1. n \in Nat /\ f[n] \in T /\ n + 1 \in Nat /\ n + 1 # 0 /\ (n + 1) - 1 = n
      OBVIOUS
    <3>2. f[n + 1] = st[f[n]]
      <4> HIDE DEF s, st, T, S
      <4> QED BY <2>0, <3>1
    <3>3. st[f[n]] \in T
      <4> HIDE DEF st, T
      <4> QED BY <1>1, <3>1
    <3> QED BY <3>1, <3>2, <3>3
  <2>3. S = Nat
    <3>1. S \in SUBSET Nat
      OBVIOUS
    <3> HIDE DEF S
    <3> QED BY <2>1, <2>2, <3>1, AllNumbers
  <2> QED BY <2>3
<1>4. Def(f)
  <2>1. ASSUME NEW n \in Nat, n # 0
        PROVE  st[f[n - 1]] = {d \in cs : \E c \in f[n - 1] : c = d \/ AreAdjacent(c, d)}
    <3>1. n - 1 \in Nat
      BY <2>1
    <3>2. f[n - 1] \in SUBSET cs
      BY <1>3, <3>1
    <3> QED BY <3>2 DEF Near
  <2>2. [n \in Nat |-> IF n = 0 THEN s ELSE st[f[n - 1]]]
          = [n \in Nat |-> IF n = 0 THEN {First(cs)}
                            ELSE {d \in cs : \E c \in f[n - 1] : c = d \/ AreAdjacent(c, d)}]
    <3> HIDE DEF st
    <3> QED BY <2>1
  <2> QED BY <1>2, <2>2
<1>5. Def(w)
  <2> HIDE DEF Def
  <2> QED BY <1>4
<1>6. Reached(cs) = w[Cardinality(cs)]
  BY DEF Reached
<1>7. /\ w[0] = {First(cs)} /\ w = [n \in Nat |-> w[n]]
      /\ \A n \in Nat : w[n + 1] = Near(cs, w[n])
  <2> HIDE DEF w
  <2>1. \A n \in Nat : w[n] = IF n = 0 THEN {First(cs)}
                      ELSE {d \in cs : \E c \in w[n - 1] : c = d \/ AreAdjacent(c, d)}
    BY <1>5
  <2>2. w[0] = {First(cs)} /\ w = [n \in Nat |-> w[n]]
    BY <1>5
  <2>3. ASSUME NEW n \in Nat PROVE w[n + 1] = Near(cs, w[n])
    <3>1. n + 1 \in Nat /\ n + 1 # 0 /\ (n + 1) - 1 = n
      OBVIOUS
    <3> HIDE DEF Def
    <3> QED BY <2>1, <3>1 DEF Near
  <2> QED BY <2>2, <2>3
<1>8. \A n \in Nat : w[n] \in SUBSET cs
  <2> HIDE DEF w
  <2> TAKE n \in Nat
  <2>1. CASE n = 0
    BY <1>7, <2>1, FirstIsOne
  <2>2. CASE n # 0
    <3>1. n - 1 \in Nat /\ (n - 1) + 1 = n
      BY <2>2
    <3>2. w[n] = Near(cs, w[n - 1])
      BY <1>7, <3>1
    <3> QED BY <3>2 DEF Near
  <2> QED BY <2>1, <2>2
<1>9. w \in [Nat -> SUBSET cs]
  <2> HIDE DEF w
  <2> QED BY <1>7, <1>8
<1> HIDE DEF w
<1> QED BY <1>6, <1>7, <1>9

(* The walk ends with all of the plots exactly if no cut parts them.        *)
LEMMA NothingParted ==
  ASSUME NEW cs \in CandidateSets, cs # {}
  PROVE  Reached(cs) = cs <=>
           \A part \in (SUBSET cs) \ {{}, cs} : \E c \in part, d \in cs \ part : AreAdjacent(c, d)
<1>1. PICK f \in [Nat -> SUBSET cs] :
           /\ f[0] = {First(cs)}
           /\ \A n \in Nat : f[n + 1] = Near(cs, f[n])
           /\ Reached(cs) = f[Cardinality(cs)]
  BY ReachedByRounds
<1>2. IsFiniteSet(cs) /\ Cardinality(cs) \in Nat /\ First(cs) \in cs
  BY CandidatesAreFinite, FirstIsOne
<1>3. ASSUME NEW part \in (SUBSET cs) \ {{}, cs}, Reached(cs) = cs,
             \A c \in part, d \in cs \ part : ~AreAdjacent(c, d)
      PROVE  FALSE
  <2> DEFINE side == IF First(cs) \in part THEN part ELSE cs \ part
             S == {n \in Nat : f[n] \subseteq side}
  <2>1. side \subseteq cs /\ side # cs /\ First(cs) \in side
    <3>1. part \in SUBSET cs /\ part # {} /\ part # cs
      OBVIOUS
    <3>2. CASE First(cs) \in part
      BY <3>1, <3>2
    <3>3. CASE First(cs) \notin part
      BY <1>2, <3>1, <3>3
    <3> QED BY <3>2, <3>3
  <2>2. \A c \in side, d \in cs : AreAdjacent(c, d) => d \in side
    BY <1>3, AdjacencyIsMutual
  <2> HIDE DEF side
  <2>3. 0 \in S
    BY <1>1, <2>1
  <2>4. ASSUME NEW n \in S PROVE n + 1 \in S
    <3>1. f[n + 1] = Near(cs, f[n])
      BY <1>1
    <3> QED BY <2>1, <2>2, <3>1 DEF Near
  <2>5. S = Nat
    <3>1. S \in SUBSET Nat
      OBVIOUS
    <3> HIDE DEF S
    <3> QED BY <2>3, <2>4, <3>1, AllNumbers
  <2> QED BY <1>1, <1>2, <1>3, <2>1, <2>5
<1>4. ASSUME \A part \in (SUBSET cs) \ {{}, cs} :
               \E c \in part, d \in cs \ part : AreAdjacent(c, d),
             Reached(cs) # cs
      PROVE  FALSE
  <2> DEFINE S == {n \in Nat : /\ IsFiniteSet(f[n]) /\ f[n] # {}
                               /\ f[n] # cs => Cardinality(f[n]) >= n + 1}
  <2>1. 0 \in S
    <3>1. IsFiniteSet({First(cs)}) /\ Cardinality({First(cs)}) = 1
      BY FS_Singleton
    <3>2. IsFiniteSet(f[0]) /\ f[0] # {} /\ Cardinality(f[0]) >= 0 + 1
      BY <1>1, <3>1
    <3> QED BY <3>2
  <2>2. ASSUME NEW n \in S PROVE n + 1 \in S
    <3>1. n \in Nat /\ f[n] \in SUBSET cs /\ f[n + 1] \in SUBSET cs /\ f[n + 1] = Near(cs, f[n])
      BY <1>1
    <3>2. f[n] \subseteq f[n + 1]
      BY <3>1 DEF Near
    <3>3. IsFiniteSet(f[n + 1])
      BY <1>2, <3>1, FS_Subset
    <3>4. CASE f[n] = cs
      BY <3>1, <3>2, <3>3, <3>4
    <3>5. CASE f[n] # cs
      <4>1. f[n] \in (SUBSET cs) \ {{}, cs}
        <5>1. f[n] # {}
          OBVIOUS
        <5> QED BY <3>1, <3>5, <5>1, Zenon
      <4>2. PICK c \in f[n], d \in cs \ f[n] : AreAdjacent(c, d)
        BY <1>4, <4>1
      <4>3. d \in f[n + 1]
        BY <3>1, <4>2 DEF Near
      <4>4. Cardinality(f[n + 1]) \in Nat /\ Cardinality(f[n]) \in Nat
            /\ Cardinality(f[n]) <= Cardinality(f[n + 1])
            /\ Cardinality(f[n]) # Cardinality(f[n + 1])
        BY <3>2, <3>3, <4>2, <4>3, FS_Subset, FS_CardinalityType
      <4>5. Cardinality(f[n]) >= n + 1
        BY <3>5
      <4> QED BY <3>1, <3>2, <3>3, <4>4, <4>5
    <3> QED BY <3>4, <3>5
  <2>3. S = Nat
    <3>1. S \in SUBSET Nat
      OBVIOUS
    <3> HIDE DEF S
    <3> QED BY <2>1, <2>2, <3>1, AllNumbers
  <2>4. Cardinality(Reached(cs)) >= Cardinality(cs) + 1
    BY <1>1, <1>2, <1>4, <2>3
  <2>5. Reached(cs) \in SUBSET cs
    BY <1>1, <1>2
  <2>6. Cardinality(Reached(cs)) <= Cardinality(cs) /\ Cardinality(Reached(cs)) \in Nat
    BY <1>2, <2>5, FS_Subset, FS_CardinalityType
  <2> QED BY <1>2, <2>4, <2>6
<1> QED BY <1>3, <1>4

(* What the code finds merged is one property, and nothing else.            *)
LEMMA MergedIsGenuine ==
  ASSUME NEW cs \in CandidateSets
  PROVE  EvaluateMerge(cs).status = "merged" <=> Genuine(cs)
<1> DEFINE owners == {c.owner : c \in cs}
<1>1. CASE Cardinality(cs) < 2
  <2>1. ~(Cardinality(cs) >= 2)
    BY <1>1, CandidatesAreFinite
  <2> QED BY <1>1, <2>1 DEF EvaluateMerge, Genuine, Rejected, Result
<1>2. CASE ~(Cardinality(cs) < 2)
  <2>1. Cardinality(cs) >= 2 /\ cs # {}
    BY <1>2, CandidatesAreFinite, FS_EmptySet
  <2>2. CASE NoOwner \in owners
    <3>1. ~Genuine(cs)
      BY <2>2, MergeAssumption DEF Genuine
    <3> QED BY <1>2, <2>2, <3>1 DEF EvaluateMerge, Rejected, Result
  <2>3. CASE NoOwner \notin owners /\ Cardinality(owners) > 1
    <3>1. ~Genuine(cs)
      <4> SUFFICES ASSUME NEW u \in PlotOwners, \A c \in cs : c.owner = u PROVE FALSE
        BY DEF Genuine
      <4>1. owners = {u}
        BY <2>1
      <4>2. Cardinality(owners) = 1
        <5> HIDE DEF owners
        <5> QED BY <4>1, FS_Singleton
      <4> QED BY <2>3, <4>2
    <3> QED BY <1>2, <2>3, <3>1 DEF EvaluateMerge, Rejected, Result
  <2>4. CASE NoOwner \notin owners /\ ~(Cardinality(owners) > 1)
    <3>1. \E u \in PlotOwners : \A c \in cs : c.owner = u
      <4>1. IsFiniteSet(owners)
        <5> DEFINE g == [c \in cs |-> c.owner]
        <5>1. g \in Surjection(cs, owners)
          BY DEF Surjection
        <5> HIDE DEF g, owners
        <5> QED BY <5>1, CandidatesAreFinite, FS_Surjection
      <4>2. owners # {} /\ owners \subseteq PlotOwners
        <5>1. \A c \in cs : c.owner \in PlotOwners \cup {NoOwner}
          BY DEF CandidateSets, MergeCandidates
        <5> QED BY <2>1, <2>4, <5>1
      <4>3. Cardinality(owners) = 1
        <5> HIDE DEF owners
        <5> QED BY <2>4, <4>1, <4>2, FS_CardinalityType, FS_EmptySet
      <4>4. PICK u : owners = {u}
        <5> HIDE DEF owners
        <5> QED BY <4>1, <4>3, FS_Singleton
      <4> QED BY <4>2, <4>4
    <3>2. CASE \E c \in cs : c.bounds = NoBounds
      <4>1. ~Genuine(cs)
        BY <3>2 DEF Genuine
      <4> QED BY <1>2, <2>4, <3>2, <4>1 DEF EvaluateMerge, Rejected, Result
    <3>3. CASE ~\E c \in cs : c.bounds = NoBounds
      <4>1. Genuine(cs) <=> IsContiguous(cs)
        BY <2>1, <3>1, <3>3, NothingParted DEF Genuine, IsContiguous
      <4> QED BY <1>2, <2>4, <3>3, <4>1 DEF EvaluateMerge, Rejected, Result
    <3> QED BY <3>2, <3>3
  <2> QED BY <2>2, <2>3, <2>4
<1> QED BY <1>1, <1>2

-----------------------------------------------------------------------------
(* What a report names now, and which reports name several plots.           *)
Named(f) == {Candidate(x) : x \in naming[f]}
Several == {f \in Filings : Cardinality(naming[f]) > 1}
Phases == {"idle", "read", "group", "members"}
Rebuilds == [phase : Phases, read : [Filings -> CandidateSets], left : SUBSET Filings]

MergeShapes ==
  /\ naming \in [Filings -> SUBSET SubPlots]
  /\ holder \in [SubPlots -> PlotOwners \cup {NoOwner}]
  /\ footprint \in [SubPlots -> Footprints \cup {NoBounds}]
  /\ DOMAIN groups \subseteq Filings /\ members \subseteq (DOMAIN groups) \X SubPlots
  /\ formed \in [Filings -> CandidateSets]
  /\ rebuild \in Rebuilds /\ rebuild.left \subseteq {f \in Filings : rebuild.read[f] # {}}
  /\ mergeEvents \in Nat /\ untouched \in BOOLEAN

PlotsOf(cs) == {c.plot : c \in cs}
Written == {f \in Filings : rebuild.read[f] # {}} \ rebuild.left

(* A group is the verdict on the candidates it came from, whose plots are   *)
(* its members or are still to be inserted; ...                             *)
GroupsInv ==
  \A f \in DOMAIN groups : /\ groups[f] = EvaluateMerge(formed[f])
                           /\ MembersOf(f) = {} \/ MembersOf(f) = PlotsOf(formed[f])

(* ... a job between two reports has written the groups of those it has     *)
(* done, and no other, each with all members, ...                           *)
RebuildInv ==
  /\ rebuild.phase \in {"group", "members"} =>
       /\ \A f \in Written : formed[f] = rebuild.read[f] /\ MembersOf(f) = PlotsOf(rebuild.read[f])
       /\ \A m \in members : m[1] \notin rebuild.left
  /\ rebuild.phase = "group" => DOMAIN groups = Written
  /\ rebuild.phase = "members" =>
       /\ Turn \in rebuild.left /\ formed[Turn] = rebuild.read[Turn]
       /\ DOMAIN groups = Written \cup {Turn}
  /\ rebuild.phase = "read" => rebuild.left = {f \in Filings : rebuild.read[f] # {}}

(* ... and while nothing has changed since it read, what it read is what is *)
(* stored, which the groups say once it has finished.                       *)
FreshInv ==
  untouched =>
    /\ rebuild.phase # "idle" =>
         \A f \in Filings : rebuild.read[f] = IF f \in Several THEN Named(f) ELSE {}
    /\ rebuild.phase = "idle" =>
         /\ DOMAIN groups = Several
         /\ \A f \in Several : formed[f] = Named(f) /\ MembersOf(f) = naming[f]

MergeInv == MergeShapes /\ GroupsInv /\ RebuildInv /\ FreshInv

-----------------------------------------------------------------------------
LEMMA NamedAreCandidates ==
  ASSUME MergeShapes, NEW f \in Filings
  PROVE  /\ Named(f) \in CandidateSets
         /\ Cardinality(naming[f]) > 1 => Named(f) # {}
         /\ PlotsOf(Named(f)) = naming[f]
         /\ IsFiniteSet(naming[f])
<1>1. naming[f] \subseteq SubPlots
  BY DEF MergeShapes
<1>2. \A x \in naming[f] : Candidate(x) \in MergeCandidates /\ Candidate(x).plot = x
  BY <1>1 DEF MergeShapes, Candidate, MergeCandidates
<1>3. Named(f) \in CandidateSets
  BY <1>2 DEF Named, CandidateSets
<1>4. PlotsOf(Named(f)) = naming[f]
  BY <1>2 DEF PlotsOf, Named
<1>5. Cardinality(naming[f]) > 1 => Named(f) # {}
  <2>1. naming[f] = {} => Cardinality(naming[f]) = 0
    BY FS_EmptySet
  <2> QED BY <2>1, <1>4 DEF PlotsOf
<1>6. IsFiniteSet(naming[f])
  BY <1>1, MergeAssumption, FS_Subset
<1> QED BY <1>3, <1>4, <1>5, <1>6

(* The report the job is at.                                                *)
LEMMA TurnIsLeft ==
  ASSUME MergeShapes, rebuild.left # {}
  PROVE  Turn \in rebuild.left
<1>1. rebuild.left \in SUBSET Nat
  BY MergeAssumption DEF MergeShapes, Rebuilds
<1>2. \E f \in rebuild.left : \A g \in rebuild.left : f <= g
  BY <1>1, LeastNumber
<1> QED BY <1>2 DEF Turn

LEMMA NobodyIsACandidate == {} \in CandidateSets /\ PlotsOf({}) = {}
BY DEF CandidateSets, PlotsOf

LEMMA MergeInvInit == MergeInit => MergeInv
<1> SUFFICES ASSUME MergeInit PROVE MergeInv
  OBVIOUS
<1>1. DOMAIN groups = {} /\ members = {}
  BY DEF MergeInit
<1>2. IdleRebuild \in Rebuilds /\ IdleRebuild.left = {}
  BY NobodyIsACandidate DEF IdleRebuild, Rebuilds, Phases
<1>3. MergeShapes
  BY <1>1, <1>2, MergeAssumption, NobodyIsACandidate DEF MergeInit, MergeShapes
<1>4. GroupsInv /\ RebuildInv /\ FreshInv
  BY <1>1 DEF MergeInit, IdleRebuild, GroupsInv, RebuildInv, FreshInv
<1> QED BY <1>3, <1>4 DEF MergeInv

-----------------------------------------------------------------------------
(* A change of the data leaves what is written as it is.                    *)
LEMMA AfterChange ==
  ASSUME MergeInv, MergeShapes', ~untouched',
         UNCHANGED <<mergeTables, formed>>, rebuild' \in {rebuild, IdleRebuild}
  PROVE  MergeInv'
<1>1. GroupsInv'
  BY DEF MergeInv, GroupsInv, mergeTables, MembersOf
<1>2. RebuildInv'
  <2>1. CASE rebuild' = rebuild
    BY <2>1 DEF MergeInv, RebuildInv, Written, Turn, mergeTables, MembersOf
  <2>2. CASE rebuild' = IdleRebuild
    BY <2>2 DEF RebuildInv, IdleRebuild
  <2> QED BY <2>1, <2>2
<1> QED BY <1>1, <1>2 DEF MergeInv, FreshInv

LEMMA ChangesKeep ==
  ASSUME MergeInv,
         \/ \E x \in SubPlots : ChangeHolder(x) \/ Remeasure(x)
         \/ \E f \in Filings, x \in SubPlots : LinkMerged(f, x) \/ Unname(f, x)
  PROVE  MergeInv'
<1>1. ~untouched' /\ UNCHANGED <<mergeTables, formed, rebuild>> /\ untouched' \in BOOLEAN
      /\ mergeEvents' \in Nat
  <2>1. ChangeData
    BY DEF ChangeHolder, Remeasure, LinkMerged, Unname
  <2>2. mergeEvents \in Nat
    BY DEF MergeInv, MergeShapes
  <2>3. ~untouched' /\ UNCHANGED <<mergeTables, formed, rebuild>> /\ untouched' \in BOOLEAN
    BY <2>1 DEF ChangeData
  <2> QED BY <2>1, <2>2, <2>3 DEF ChangeData
<1>2. /\ naming' \in [Filings -> SUBSET SubPlots]
      /\ holder' \in [SubPlots -> PlotOwners \cup {NoOwner}]
      /\ footprint' \in [SubPlots -> Footprints \cup {NoBounds}]
  <2>1. ASSUME NEW x \in SubPlots, ChangeHolder(x)
        PROVE  <1>2!1 /\ <1>2!2 /\ <1>2!3
    BY <2>1 DEF MergeInv, MergeShapes, ChangeHolder
  <2>2. ASSUME NEW x \in SubPlots, Remeasure(x)
        PROVE  <1>2!1 /\ <1>2!2 /\ <1>2!3
    BY <2>2 DEF MergeInv, MergeShapes, Remeasure
  <2>3. ASSUME NEW f \in Filings, NEW x \in SubPlots, LinkMerged(f, x) \/ Unname(f, x)
        PROVE  <1>2!1 /\ <1>2!2 /\ <1>2!3
    BY <2>3 DEF MergeInv, MergeShapes, LinkMerged, Unname, Siblings
  <2> QED BY <2>1, <2>2, <2>3
<1>3. MergeShapes'
  BY <1>1, <1>2 DEF MergeInv, MergeShapes, mergeTables
<1> QED BY <1>1, <1>3, AfterChange

-----------------------------------------------------------------------------
(* The statements of the job.                                               *)
LEMMA ReadKeeps ==
  ASSUME MergeInv, ReadCandidates
  PROVE  MergeInv'
<1> DEFINE read == [f \in Filings |-> IF f \in Several THEN Named(f) ELSE {}]
<1>1. /\ rebuild' = [phase |-> "read", left |-> Several, read |-> read]
      /\ untouched' = TRUE /\ rebuild.phase = "idle"
      /\ UNCHANGED <<mergeData, mergeTables, mergeEvents, formed>>
  BY DEF ReadCandidates, Several, Named
<1>2. read \in [Filings -> CandidateSets] /\ Several \subseteq {f \in Filings : read[f] # {}}
  <2>1. ASSUME NEW f \in Filings
        PROVE  read[f] \in CandidateSets /\ (f \in Several <=> read[f] # {})
    BY NamedAreCandidates, NobodyIsACandidate DEF MergeInv, Several
  <2> HIDE DEF read
  <2>2. read = [f \in Filings |-> read[f]]
    BY DEF read
  <2>3. Several \subseteq Filings
    BY DEF Several
  <2> QED BY <2>1, <2>2, <2>3
<1>3. {f \in Filings : read[f] # {}} = Several
  BY NamedAreCandidates DEF MergeInv, Several
<1> HIDE DEF read
<1>4. MergeShapes'
  <2>1. rebuild' \in Rebuilds
    BY <1>1, <1>2 DEF Rebuilds, Phases, Several
  <2>2. rebuild'.left \subseteq {f \in Filings : rebuild'.read[f] # {}}
    BY <1>1, <1>2
  <2> QED BY <1>1, <2>1, <2>2 DEF MergeInv, MergeShapes, mergeData, mergeTables
<1>5. GroupsInv'
  BY <1>1 DEF MergeInv, GroupsInv, mergeTables, MembersOf
<1>6. RebuildInv'
  BY <1>1, <1>3 DEF RebuildInv
<1>7. FreshInv'
  BY <1>1 DEF FreshInv, read, Several, Named, Candidate, mergeData
<1> QED BY <1>4, <1>5, <1>6, <1>7 DEF MergeInv

LEMMA DeleteKeeps ==
  ASSUME MergeInv, DeleteGroups
  PROVE  MergeInv'
<1>1. /\ rebuild.phase = "read" /\ rebuild' = [rebuild EXCEPT !.phase = "group"]
      /\ groups' = <<>> /\ members' = {} /\ DOMAIN groups' = {}
      /\ formed' = [f \in Filings |-> {}]
      /\ UNCHANGED <<mergeData, mergeEvents, untouched>>
  BY DEF DeleteGroups
<1>2. /\ rebuild' \in Rebuilds /\ rebuild'.phase = "group"
      /\ rebuild'.left = rebuild.left /\ rebuild'.read = rebuild.read
  BY <1>1 DEF MergeInv, MergeShapes, Rebuilds, Phases
<1>3. MergeShapes'
  BY <1>1, <1>2, NobodyIsACandidate DEF MergeInv, MergeShapes, mergeData
<1>4. GroupsInv'
  BY <1>1 DEF GroupsInv
<1>5. RebuildInv'
  BY <1>1, <1>2 DEF MergeInv, RebuildInv, Written
<1>6. FreshInv'
  <2>1. untouched => \A f \in Filings : rebuild.read[f] = IF f \in Several THEN Named(f) ELSE {}
    BY <1>1 DEF MergeInv, FreshInv
  <2>2. Several' = Several /\ \A f : Named(f)' = Named(f)
    BY <1>1 DEF Several, Named, Candidate, mergeData
  <2> QED BY <1>1, <1>2, <2>1, <2>2 DEF FreshInv
<1> QED BY <1>3, <1>4, <1>5, <1>6 DEF MergeInv

LEMMA InsertGroupKeeps ==
  ASSUME MergeInv, InsertGroup
  PROVE  MergeInv'
<1>1. PICK t \in Filings : t = Turn /\ t \in rebuild.left
  BY TurnIsLeft DEF MergeInv, MergeShapes, Rebuilds, InsertGroup
<1>2. /\ rebuild.phase = "group" /\ rebuild' = [rebuild EXCEPT !.phase = "members"]
      /\ groups' = [f \in DOMAIN groups \cup {t} |->
                      IF f = t THEN EvaluateMerge(rebuild.read[f]) ELSE groups[f]]
      /\ formed' = [formed EXCEPT ![t] = rebuild.read[t]]
      /\ UNCHANGED <<mergeData, members, mergeEvents, untouched>>
  BY <1>1 DEF InsertGroup
<1>3. /\ rebuild' \in Rebuilds /\ rebuild'.phase = "members"
      /\ rebuild'.left = rebuild.left /\ rebuild'.read = rebuild.read /\ Turn' = t
  BY <1>1, <1>2 DEF MergeInv, MergeShapes, Rebuilds, Phases, Turn
<1>4. /\ rebuild.read[t] \in CandidateSets /\ formed \in [Filings -> CandidateSets]
      /\ DOMAIN groups = Written /\ DOMAIN groups' = Written \cup {t} /\ Written' = Written
      /\ t \notin Written /\ Written \subseteq Filings
  BY <1>1, <1>2, <1>3 DEF MergeInv, MergeShapes, Rebuilds, RebuildInv, Written
<1>5. \A f \in Filings : formed'[f] = IF f = t THEN rebuild.read[t] ELSE formed[f]
  BY <1>2, <1>4
<1>6. MembersOf(t) = {} /\ \A f : MembersOf(f)' = MembersOf(f)
  BY <1>1, <1>2 DEF MergeInv, RebuildInv, MembersOf
<1>7. MergeShapes'
  <2>1. formed' \in [Filings -> CandidateSets]
    BY <1>2, <1>4
  <2>2. DOMAIN groups' \subseteq Filings /\ members' \subseteq (DOMAIN groups') \X SubPlots
    BY <1>1, <1>2, <1>4 DEF MergeInv, MergeShapes
  <2> QED BY <1>2, <1>3, <2>1, <2>2 DEF MergeInv, MergeShapes, mergeData
<1>8. GroupsInv'
  <2>1. ASSUME NEW f \in DOMAIN groups'
        PROVE  /\ groups'[f] = EvaluateMerge(formed'[f])
               /\ MembersOf(f) = {} \/ MembersOf(f) = PlotsOf(formed'[f])
    <3>1. CASE f = t
      BY <1>2, <1>4, <1>5, <1>6, <3>1
    <3>2. CASE f # t
      <4>1. f \in DOMAIN groups /\ f \in Filings /\ formed'[f] = formed[f] /\ groups'[f] = groups[f]
        BY <1>2, <1>4, <1>5, <3>2
      <4> QED BY <4>1 DEF MergeInv, GroupsInv
    <3> QED BY <3>1, <3>2
  <2>2. \A f : /\ EvaluateMerge(formed'[f]) = EvaluateMerge(formed[f])'
              /\ PlotsOf(formed'[f]) = PlotsOf(formed[f])'
    BY DEF EvaluateMerge, PlotsOf
  <2> QED BY <1>6, <2>1, <2>2 DEF GroupsInv
<1>9. RebuildInv'
  BY <1>1, <1>2, <1>3, <1>4, <1>5, <1>6 DEF MergeInv, RebuildInv, PlotsOf
<1>10. FreshInv'
  BY <1>2, <1>3 DEF MergeInv, FreshInv, Several, Named, Candidate, mergeData
<1> QED BY <1>7, <1>8, <1>9, <1>10 DEF MergeInv

LEMMA InsertMembersKeeps ==
  ASSUME MergeInv, InsertMembers
  PROVE  MergeInv'
<1>1. PICK t \in Filings : t = Turn /\ t \in rebuild.left
  BY DEF MergeInv, MergeShapes, RebuildInv, Rebuilds, InsertMembers
<1>2. /\ rebuild.phase = "members"
      /\ rebuild' = [rebuild EXCEPT !.phase = "group", !.left = @ \ {t}]
      /\ members' = members \cup {<<t, c.plot>> : c \in rebuild.read[t]}
      /\ UNCHANGED <<mergeData, groups, mergeEvents, untouched, formed>>
  BY <1>1 DEF InsertMembers
<1>3. /\ rebuild' \in Rebuilds /\ rebuild'.phase = "group"
      /\ rebuild'.left = rebuild.left \ {t} /\ rebuild'.read = rebuild.read
  BY <1>2 DEF MergeInv, MergeShapes, Rebuilds, Phases
<1>4. /\ rebuild.read[t] \in CandidateSets /\ rebuild.read[t] # {} /\ formed[t] = rebuild.read[t]
      /\ DOMAIN groups = Written \cup {t} /\ Written' = Written \cup {t} /\ t \notin Written
  BY <1>1, <1>2, <1>3 DEF MergeInv, MergeShapes, Rebuilds, RebuildInv, Written
<1>5. /\ MembersOf(t) = {} /\ MembersOf(t)' = PlotsOf(rebuild.read[t])
      /\ \A f : f # t => MembersOf(f)' = MembersOf(f)
  <2>1. \A m \in members : m[1] # t
    BY <1>1, <1>2 DEF MergeInv, RebuildInv
  <2>2. MembersOf(t) = {}
    BY <2>1 DEF MembersOf
  <2>3. MembersOf(t)' = PlotsOf(rebuild.read[t])
    <3>1. {n \in members' : n[1] = t} = {<<t, c.plot>> : c \in rebuild.read[t]}
      BY <1>2, <2>1
    <3>2. MembersOf(t)' = {m[2] : m \in {<<t, c.plot>> : c \in rebuild.read[t]}}
      BY <3>1 DEF MembersOf
    <3>3. \A c \in rebuild.read[t] : <<t, c.plot>>[2] = c.plot
      OBVIOUS
    <3>4. ASSUME NEW x
          PROVE  x \in MembersOf(t)' <=> x \in PlotsOf(rebuild.read[t])
      <4>1. x \in MembersOf(t)' <=> \E c \in rebuild.read[t] : x = <<t, c.plot>>[2]
        BY <3>2, Zenon
      <4> QED BY <3>3, <4>1 DEF PlotsOf
    <3> QED BY <3>4
  <2>4. ASSUME NEW f, f # t PROVE MembersOf(f)' = MembersOf(f)
    <3>1. {n \in members' : n[1] = f} = {n \in members : n[1] = f}
      BY <1>2, <2>4
    <3> QED BY <3>1 DEF MembersOf
  <2> QED BY <2>2, <2>3, <2>4
<1>6. MergeShapes'
  <2>1. \A c \in rebuild.read[t] : c.plot \in SubPlots
    BY <1>4 DEF CandidateSets, MergeCandidates
  <2>2. members' \subseteq (DOMAIN groups') \X SubPlots
    BY <1>2, <1>4, <2>1 DEF MergeInv, MergeShapes
  <2> QED BY <1>2, <1>3, <2>2 DEF MergeInv, MergeShapes, mergeData
<1>7. GroupsInv'
  <2>1. ASSUME NEW f \in DOMAIN groups
        PROVE  /\ groups[f] = EvaluateMerge(formed[f])
               /\ MembersOf(f)' = {} \/ MembersOf(f)' = PlotsOf(formed[f])
    BY <1>4, <1>5 DEF MergeInv, GroupsInv
  <2> QED BY <1>2, <2>1 DEF GroupsInv
<1>8. RebuildInv'
  <2>1. ASSUME NEW f \in Written'
        PROVE  formed[f] = rebuild.read[f] /\ MembersOf(f)' = PlotsOf(rebuild.read[f])
    BY <1>2, <1>4, <1>5, <2>1 DEF MergeInv, RebuildInv
  <2>2. \A m \in members' : m[1] \notin rebuild'.left
    BY <1>2, <1>3 DEF MergeInv, RebuildInv
  <2> QED BY <1>2, <1>3, <1>4, <2>1, <2>2 DEF RebuildInv
<1>9. FreshInv'
  BY <1>2, <1>3 DEF MergeInv, FreshInv, Several, Named, Candidate, mergeData
<1> QED BY <1>6, <1>7, <1>8, <1>9 DEF MergeInv

LEMMA FinishKeeps ==
  ASSUME MergeInv, FinishRebuild
  PROVE  MergeInv'
<1>1. /\ rebuild.phase = "group" /\ rebuild.left = {} /\ rebuild' = IdleRebuild
      /\ UNCHANGED <<mergeData, mergeTables, mergeEvents, untouched, formed>>
  BY DEF FinishRebuild
<1>2. IdleRebuild \in Rebuilds /\ IdleRebuild.left = {} /\ IdleRebuild.phase = "idle"
  BY NobodyIsACandidate DEF IdleRebuild, Rebuilds, Phases
<1>3. MergeShapes'
  BY <1>1, <1>2 DEF MergeInv, MergeShapes, mergeData, mergeTables
<1>4. GroupsInv'
  BY <1>1 DEF MergeInv, GroupsInv, mergeTables, MembersOf
<1>5. RebuildInv'
  BY <1>1, <1>2 DEF RebuildInv
<1>6. FreshInv'
  <2> SUFFICES ASSUME untouched
               PROVE  /\ DOMAIN groups = Several
                      /\ \A f \in Several : formed[f] = Named(f) /\ MembersOf(f) = naming[f]
    BY <1>1, <1>2 DEF FreshInv, mergeData, mergeTables, Several, Named, Candidate, MembersOf
  <2>1. \A f \in Filings : rebuild.read[f] = IF f \in Several THEN Named(f) ELSE {}
    BY <1>1 DEF MergeInv, FreshInv
  <2>2. Written = Several
    BY <1>1, <2>1, NamedAreCandidates DEF MergeInv, Written, Several
  <2>3. \A f \in Several : f \in Filings
    BY DEF Several
  <2> QED BY <1>1, <2>1, <2>2, <2>3, NamedAreCandidates DEF MergeInv, RebuildInv
<1> QED BY <1>3, <1>4, <1>5, <1>6 DEF MergeInv

LEMMA CutKeeps ==
  ASSUME MergeInv, CutRebuild
  PROVE  MergeInv'
<1>1. /\ mergeEvents > 0 /\ mergeEvents' = mergeEvents - 1 /\ rebuild' = IdleRebuild
      /\ untouched' = FALSE /\ UNCHANGED <<mergeData, mergeTables, formed>>
  BY DEF CutRebuild
<1>2. IdleRebuild \in Rebuilds /\ IdleRebuild.left = {}
  BY NobodyIsACandidate DEF IdleRebuild, Rebuilds, Phases
<1>3. mergeEvents' \in Nat
  BY <1>1 DEF MergeInv, MergeShapes
<1>4. MergeShapes'
  BY <1>1, <1>2, <1>3 DEF MergeInv, MergeShapes, mergeData, mergeTables
<1> QED BY <1>1, <1>4, AfterChange

LEMMA MergeInvNext == MergeInv /\ [MergeNext]_mergeVars => MergeInv'
<1> SUFFICES ASSUME MergeInv, [MergeNext]_mergeVars PROVE MergeInv'
  OBVIOUS
<1>1. CASE UNCHANGED mergeVars
  <2>1. /\ naming' = naming /\ holder' = holder /\ footprint' = footprint /\ groups' = groups
        /\ members' = members /\ rebuild' = rebuild /\ mergeEvents' = mergeEvents
        /\ untouched' = untouched /\ formed' = formed
    BY <1>1 DEF mergeVars, mergeData, mergeTables
  <2>2. MergeShapes' /\ GroupsInv'
    BY <2>1 DEF MergeInv, MergeShapes, GroupsInv, MembersOf
  <2>3. RebuildInv'
    BY <2>1 DEF MergeInv, RebuildInv, Written, Turn, MembersOf
  <2>4. FreshInv'
    BY <2>1 DEF MergeInv, FreshInv, Several, Named, Candidate, MembersOf
  <2> QED BY <2>2, <2>3, <2>4 DEF MergeInv
<1>2. CASE MergeNext
  BY <1>2, ChangesKeep, ReadKeeps, DeleteKeeps, InsertGroupKeeps, InsertMembersKeeps, FinishKeeps,
     CutKeeps DEF MergeNext
<1> QED BY <1>1, <1>2

-----------------------------------------------------------------------------
LEMMA MergeInvTypes ==
  ASSUME MergeInv
  PROVE  MergeTypeOK
<1>1. ASSUME NEW f \in DOMAIN groups PROVE groups[f].reason \in Rejection \cup {"none"}
  <2>1. groups[f] = EvaluateMerge(formed[f])
    BY DEF MergeInv, GroupsInv
  <2> QED BY <2>1 DEF EvaluateMerge, Rejected, Result, Rejection
<1>2. rebuild.phase = "group" => rebuild.left \cap DOMAIN groups = {}
  BY DEF MergeInv, RebuildInv, Written
<1> QED BY <1>1, <1>2 DEF MergeInv, MergeShapes, Rebuilds, MergeTypeOK

LEMMA MergeInvGenuine ==
  ASSUME MergeInv
  PROVE  MergesAreGenuine
<1>1. \A f \in DOMAIN groups : groups[f].status = "merged" <=> Genuine(formed[f])
  <2> TAKE f \in DOMAIN groups
  <2>1. f \in Filings /\ formed[f] \in CandidateSets /\ groups[f] = EvaluateMerge(formed[f])
    BY DEF MergeInv, MergeShapes, GroupsInv
  <2> QED BY <2>1, MergedIsGenuine
<1>2. ASSUME NEW f \in DOMAIN groups, groups[f].status = "merged", MembersOf(f) # {}
      PROVE  Genuine(formed[f]) /\ MembersOf(f) = {c.plot : c \in formed[f]}
  BY <1>1, <1>2 DEF MergeInv, GroupsInv, PlotsOf
<1>3. ASSUME rebuild.phase = "idle", untouched, NEW x \in SubPlots
      PROVE  Siblings(x) = {y \in SubPlots \ {x} :
                             \E f \in Filings : /\ {x, y} \subseteq naming[f]
                                                /\ Genuine({Candidate(r) : r \in naming[f]})}
  <2>1. /\ DOMAIN groups = Several
        /\ \A f \in Several : formed[f] = Named(f) /\ MembersOf(f) = naming[f]
    BY <1>3 DEF MergeInv, FreshInv
  <2>2. ASSUME NEW y \in SubPlots \ {x}, NEW f \in Filings
        PROVE  (/\ f \in DOMAIN groups /\ groups[f].status = "merged"
                /\ {<<f, x>>, <<f, y>>} \subseteq members)
                 <=> ({x, y} \subseteq naming[f] /\ Genuine(Named(f)))
    <3>1. ASSUME {x, y} \subseteq naming[f] PROVE f \in Several
      <4>1. IsFiniteSet(naming[f]) /\ {x, y} \in SUBSET naming[f]
        BY <3>1, NamedAreCandidates DEF MergeInv
      <4>2. IsFiniteSet({x}) /\ Cardinality({x}) = 1 /\ {x, y} = {x} \cup {y} /\ y \notin {x}
        BY FS_Singleton
      <4>3. Cardinality({x, y}) = 2
        BY <4>2, FS_AddElement
      <4>4. Cardinality(naming[f]) \in Nat /\ 2 <= Cardinality(naming[f])
        BY <4>1, <4>3, FS_Subset, FS_CardinalityType
      <4> QED BY <4>4 DEF Several
    <3>2. ASSUME f \in Several
          PROVE  \A z : <<f, z>> \in members <=> z \in naming[f]
      <4>1. MembersOf(f) = naming[f]
        BY <2>1, <3>2
      <4>2. \A m \in members : m = <<m[1], m[2]>>
        BY DEF MergeInv, MergeShapes
      <4>3. \A z : <<f, z>> \in members <=> z \in MembersOf(f)
        BY <4>2 DEF MembersOf
      <4> QED BY <4>1, <4>3
    <3>3. CASE f \in Several
      BY <1>1, <2>1, <3>2, <3>3
    <3>4. CASE f \notin Several
      BY <2>1, <3>1, <3>4
    <3> QED BY <3>3, <3>4
  <2>3. DOMAIN groups \subseteq Filings
    BY DEF MergeInv, MergeShapes
  <2> QED BY <2>2, <2>3 DEF Siblings, Named
<1> QED BY <1>2, <1>3 DEF MergesAreGenuine

(* Whatever the job, its crashes and the edits between its statements: the  *)
(* plots shown as merged are one property by the data of one moment, and    *)
(* when a job has finished undisturbed the pages show exactly those         *)
(* (plots/merge.ts, sync/handlers/merges.ts).                               *)
THEOREM ShownMergesAreGenuine == MergeSpec => [](MergeTypeOK /\ MergesAreGenuine)
<1>1. MergeInv => MergeTypeOK /\ MergesAreGenuine
  BY MergeInvTypes, MergeInvGenuine
<1> QED BY <1>1, MergeInvInit, MergeInvNext, PTL DEF MergeSpec

-----------------------------------------------------------------------------
(* What the filters come to of a reviewer who chose nothing, ...            *)
DefaultsOf(f) ==
  /\ f.reasons = FlagReason /\ f.roles = OWNERSHIP_ROLES /\ f.hours = ThresholdHours
  /\ f.contract = "any" /\ f.unknown = FALSE /\ f.excluded = FALSE /\ f.reported = FALSE

LEMMA DefaultFilters ==
  LET f == ParseAtRiskFilters(EmptyQuery)
  IN DefaultsOf(f) /\ f.world = DEFAULT_WORLD_UUID /\ f.authority = DEFAULT_AUTHORITY
BY DEF ParseAtRiskFilters, EmptyQuery, DefaultsOf

(* ... or asked for every world and authority, ...                          *)
LEMMA WidestFilters ==
  LET f == ParseAtRiskFilters(WidestQuery)
  IN DefaultsOf(f) /\ f.world = "all" /\ f.authority = "all"
BY DEF ParseAtRiskFilters, WidestQuery, EmptyQuery, DefaultsOf

(* ... is the condition of the channel, within the world and the authority. *)
LEMMA FilterIsFlagged ==
  ASSUME NEW w \in Rows, NEW f, DefaultsOf(f)
  PROVE  BuildWhere(f, w) <=> /\ w \in Alerted /\ f.world \in {"all", WorldOf[w[1]]}
                              /\ f.authority \in {"all", stake[w[1]]["authority"]}
<1> USE DEF DefaultsOf
<1> DEFINE u == Holder(w)
<1>1. Flagged(w) <=>
        \/ "inactive" \in f.reasons /\ Inactive(u, f.hours, f.unknown)
        \/ "banned" \in f.reasons /\ IsBanned(u)
        \/ "deported" \in f.reasons /\ IsLongDeported(u)
        \/ "over-limit" \in f.reasons /\ RowOverLimit(w)
  BY DEF Flagged, FlagReason
<1>2. w \in Alerted <=>
        w[2] \in f.roles /\ Flagged(w) /\ u \notin excluded /\ w[1] \notin reported
  BY DEF Alerted, OWNERSHIP_ROLES
<1> QED
  BY <1>1, <1>2 DEF BuildWhere

LEMMA WidestIsAlerted == WidestRows = Alerted
<1>1. \A w \in Rows : BuildWhere(ParseAtRiskFilters(WidestQuery), w) <=> w \in Alerted
  BY WidestFilters, FilterIsFlagged
<1> QED BY <1>1 DEF WidestRows, FindAtRiskProperties, Alerted

LEMMA ReasonsAreShown ==
  ASSUME NEW w \in Rows, Flagged(w)
  PROVE  FlagReasons(w) # {} /\ AlertReasons(w) # {}
<1> DEFINE u == Holder(w)
<1>1. CASE IsBanned(u)
  BY <1>1 DEF FlagReasons, AlertReasons, FlagReason
<1>2. CASE IsLongDeported(u)
  BY <1>2 DEF FlagReasons, AlertReasons, FlagReason
<1>3. CASE RowOverLimit(w)
  BY <1>3 DEF FlagReasons, AlertReasons, FlagReason
<1>4. CASE ~IsBanned(u) /\ Inactive(u, ThresholdHours, FALSE)
  BY <1>4 DEF FlagReasons, AlertReasons, FlagReason, Inactive, IsLimitedDeported
<1> QED BY <1>1, <1>2, <1>3, <1>4 DEF Flagged

(* The verdict on a row does not depend on who states it.                   *)
LEMMA TablesAlwaysAgree == TablesAgree
<1> DEFINE stats == OverviewStats
           opened(w) == /\ WorldOf[w[1]] = DEFAULT_WORLD_UUID
                        /\ stake[w[1]]["authority"] = DEFAULT_AUTHORITY
<1>1. DefaultRows = {w \in Alerted : opened(w)}
  <2> DEFINE f == ParseAtRiskFilters(EmptyQuery)
  <2>1. DefaultsOf(f) /\ f.world = DEFAULT_WORLD_UUID /\ f.authority = DEFAULT_AUTHORITY
    BY DefaultFilters
  <2> HIDE DEF f
  <2>2. \A w \in Rows : BuildWhere(f, w) <=> w \in Alerted /\ opened(w)
    BY <2>1, FilterIsFlagged, PropertyAssumption
  <2>3. DefaultRows = {w \in Rows : BuildWhere(f, w)}
    BY DEF DefaultRows, FindAtRiskProperties, f
  <2>4. Alerted \subseteq Rows
    BY DEF Alerted
  <2> HIDE DEF opened
  <2> QED BY <2>2, <2>3, <2>4
<1>2. stats.atRisk = Alerted
  BY DEF OverviewStats, Alerted, OWNERSHIP_ROLES
<1>3. \A w \in Alerted : FlagReasons(w) # {} /\ AlertReasons(w) # {}
  BY ReasonsAreShown DEF Alerted
<1>4. stats.overLimit = {w \in Alerted : "over-limit" \in FlagReasons(w)}
  BY <1>2 DEF OverviewStats, FlagReasons, FlagReason
<1>5. stats.flagged = Alerted \cup stats.excluded \cup stats.reported
  BY DEF OverviewStats, Alerted, OWNERSHIP_ROLES
<1>6. ASSUME NEW u \in excluded
      PROVE  HiddenProperties(u) = {w \in stats.excluded : Holder(w) = u}
  BY DEF HiddenProperties, OverviewStats, Flagged, Inactive, RowOverLimit, OWNERSHIP_ROLES
<1> QED BY <1>1, <1>2, <1>3, <1>4, <1>5, <1>6, WidestIsAlerted DEF TablesAgree

-----------------------------------------------------------------------------
(* What is held is counted.                                                 *)
LEMMA CountsArePlots ==
  ASSUME NEW u \in Citizens, NEW c \in Category
  PROVE  CountedPlots(u, c) \in Nat
<1>1. IsFiniteSet({x \in Holdings(u, c) : Counts(x)})
  BY PropertyAssumption, FS_Subset DEF Holdings
<1>2. Elsewhere[u][c] \in Nat
  BY PropertyAssumption
<1> QED BY <1>1, <1>2, FS_CardinalityType DEF CountedPlots

LEMMA LimitsAreNumbers ==
  ASSUME NEW c \in Category
  PROVE  /\ PlotLimit(c) \in Int /\ EffectiveLimit(c, TRUE) \in Int
         /\ EffectiveLimit(c, TRUE) >= PlotLimit(c)
<1>1. DEFINITIONS[c].limit \in Int
  BY DEF DEFINITIONS, Definition, NoLimit, Category
<1> QED BY <1>1 DEF PlotLimit, EffectiveLimit, NoLimit, REALTOR_BONUS

(* Of a limit and a higher one: what is over the lower is over both or      *)
(* between them.                                                            *)
LEMMA BreachSplits ==
  \A n \in Nat, l \in Int, e \in Int : e >= l =>
    (/\ n > l <=> (n > e \/ (n > l /\ n <= e))
     /\ ~(n > e /\ n <= e))
OBVIOUS

(* A limit is broken exactly if its breach is a violation or waits for a    *)
(* realtor check, and never both (plots/limits-sql.ts).                     *)
THEOREM BreachesAreClassified ==
  ASSUME NEW u \in Citizens, NEW c \in Category
  PROVE  /\ OverLimit(u, c) <=> IsViolation(u, c) \/ NeedsRealtorCheck(u, c)
         /\ ~(IsViolation(u, c) /\ NeedsRealtorCheck(u, c))
<1>1. CountedPlots(u, c) \in Nat /\ PlotLimit(c) \in Int /\ EffectiveLimit(c, TRUE) \in Int
      /\ EffectiveLimit(c, TRUE) >= PlotLimit(c)
  BY CountsArePlots, LimitsAreNumbers
<1>2. CASE u \in realtors
  <2>1. EffectiveLimit(c, u \in realtors) = EffectiveLimit(c, TRUE)
    BY <1>2 DEF EffectiveLimit
  <2> QED BY <1>1, <1>2, <2>1 DEF OverLimit, IsViolation, NeedsRealtorCheck
<1>3. CASE u \notin realtors
  <2>1. PlotLimit(c) # NoLimit => EffectiveLimit(c, u \in realtors) = PlotLimit(c)
    BY <1>1, <1>3 DEF EffectiveLimit
  <2>2. CASE PlotLimit(c) = NoLimit
    BY <2>2 DEF OverLimit, IsViolation, NeedsRealtorCheck
  <2>3. CASE PlotLimit(c) # NoLimit
    <3>1. OverLimit(u, c) <=> CountedPlots(u, c) > PlotLimit(c)
      BY <2>1, <2>3 DEF OverLimit
    <3>2. IsViolation(u, c) <=> CountedPlots(u, c) > EffectiveLimit(c, TRUE)
      BY <2>3 DEF IsViolation
    <3>3. NeedsRealtorCheck(u, c) <=> /\ CountedPlots(u, c) > PlotLimit(c)
                                      /\ CountedPlots(u, c) <= EffectiveLimit(c, TRUE)
      BY <1>3, <2>3 DEF NeedsRealtorCheck
    <3>4. /\ CountedPlots(u, c) > PlotLimit(c)
               <=> \/ CountedPlots(u, c) > EffectiveLimit(c, TRUE)
                   \/ /\ CountedPlots(u, c) > PlotLimit(c)
                      /\ CountedPlots(u, c) <= EffectiveLimit(c, TRUE)
          /\ ~ (/\ CountedPlots(u, c) > EffectiveLimit(c, TRUE)
                /\ CountedPlots(u, c) <= EffectiveLimit(c, TRUE))
      BY <1>1, BreachSplits, Zenon
    <3> QED BY <3>1, <3>2, <3>3, <3>4, Zenon
  <2> QED BY <2>2, <2>3
<1> QED BY <1>2, <1>3

-----------------------------------------------------------------------------
(* The first entry of a table that matches is one of its entries.           *)
LEMMA FirstHitIsAHit ==
  ASSUME NEW table, NEW keys, Hits(table, keys) # {}, DOMAIN table \subseteq Nat
  PROVE  \E i \in DOMAIN table : FirstHit(table, keys) = table[i][2]
<1> DEFINE m == CHOOSE i \in Hits(table, keys) : \A j \in Hits(table, keys) : i <= j
<1>1. Hits(table, keys) \in SUBSET Nat /\ Hits(table, keys) \subseteq DOMAIN table
  BY DEF Hits
<1>2. \E i \in Hits(table, keys) : \A j \in Hits(table, keys) : i <= j
  BY <1>1, LeastNumber
<1>3. m \in Hits(table, keys)
  BY <1>2
<1>4. FirstHit(table, keys) = table[m][2]
  BY DEF FirstHit
<1> HIDE DEF m
<1> QED BY <1>1, <1>3, <1>4

Zonings == [category : Category, area : Area \cup {NoArea}, source : {"tag", "prefix", "none"}]

LEMMA TablesOfCategories ==
  /\ \A i \in DOMAIN ZONING_TAGS : i \in Nat /\ ZONING_TAGS[i][2] \in Category
  /\ \A i \in DOMAIN FALLBACK_PREFIXES : i \in Nat /\ FALLBACK_PREFIXES[i][2] \in Category
  /\ \A i \in DOMAIN COMBINATION_TAGS : i \in Nat /\ COMBINATION_TAGS[i][2] \in Category
  /\ \A i \in DOMAIN AREA_TAGS : i \in Nat /\ AREA_TAGS[i][2] \in Area
  /\ \A i \in DOMAIN AREA_PREFIXES : i \in Nat /\ AREA_PREFIXES[i][2] \in Area
<1>1. \A i \in DOMAIN ZONING_TAGS : i \in Nat /\ ZONING_TAGS[i][2] \in Category
  BY DEF ZONING_TAGS, Category
<1>2. \A i \in DOMAIN FALLBACK_PREFIXES : i \in Nat /\ FALLBACK_PREFIXES[i][2] \in Category
  BY DEF FALLBACK_PREFIXES, Category
<1>3. \A i \in DOMAIN COMBINATION_TAGS : i \in Nat /\ COMBINATION_TAGS[i][2] \in Category
  BY DEF COMBINATION_TAGS, Category
<1>4. \A i \in DOMAIN AREA_TAGS : i \in Nat /\ AREA_TAGS[i][2] \in Area
  BY DEF AREA_TAGS, Area, TOWNS
<1>5. \A i \in DOMAIN AREA_PREFIXES : i \in Nat /\ AREA_PREFIXES[i][2] \in Area
  BY DEF AREA_PREFIXES, Area, TOWNS
<1> QED BY <1>1, <1>2, <1>3, <1>4, <1>5

(* Every plot is classified whole, whatever its id and its tags.            *)
LEMMA ClassifiedWhole ==
  ASSUME NEW prefix, NEW tags
  PROVE  ClassifyPlot(prefix, tags) \in Zonings
<1> DEFINE area == IF Hits(AREA_TAGS, tags) # {} THEN FirstHit(AREA_TAGS, tags)
                   ELSE IF Hits(AREA_PREFIXES, {prefix}) # {} THEN FirstHit(AREA_PREFIXES, {prefix})
                   ELSE NoArea
           combined == {i \in DOMAIN COMBINATION_TAGS : COMBINATION_TAGS[i][1] \subseteq tags}
           pick == CHOOSE i \in combined : \A j \in combined : i <= j
<1>1. area \in Area \cup {NoArea}
  <2>1. Hits(AREA_TAGS, tags) # {} => FirstHit(AREA_TAGS, tags) \in Area
    BY FirstHitIsAHit, TablesOfCategories
  <2>2. Hits(AREA_PREFIXES, {prefix}) # {} => FirstHit(AREA_PREFIXES, {prefix}) \in Area
    BY FirstHitIsAHit, TablesOfCategories
  <2> QED BY <2>1, <2>2
<1>2. combined # {} => COMBINATION_TAGS[pick][2] \in Category
  <2>1. combined # {} => combined = {1}
    BY DEF COMBINATION_TAGS
  <2>2. combined # {} => pick \in combined
    <3> HIDE DEF combined
    <3> QED BY <2>1
  <2>3. combined \subseteq DOMAIN COMBINATION_TAGS
    OBVIOUS
  <2> HIDE DEF combined, pick
  <2> QED BY <2>2, <2>3, TablesOfCategories
<1>3. Hits(ZONING_TAGS, tags) # {} => FirstHit(ZONING_TAGS, tags) \in Category
  BY FirstHitIsAHit, TablesOfCategories
<1>4. Hits(FALLBACK_PREFIXES, {prefix}) # {} => FirstHit(FALLBACK_PREFIXES, {prefix}) \in Category
  BY FirstHitIsAHit, TablesOfCategories
<1>5. \A c \in Category, src \in {"tag", "prefix", "none"} :
        Classification(c, area, src) \in Zonings
  <2> HIDE DEF area
  <2> QED BY <1>1 DEF Classification, Zonings
<1>6. "other" \in Category
  BY DEF Category
<1>7. ClassifyPlot(prefix, tags) =
       CASE combined # {} -> Classification(COMBINATION_TAGS[pick][2], area, "tag")
         [] combined = {} /\ Hits(ZONING_TAGS, tags) # {} ->
              Classification(FirstHit(ZONING_TAGS, tags), area, "tag")
         [] OTHER -> IF Hits(FALLBACK_PREFIXES, {prefix}) # {}
                     THEN Classification(FirstHit(FALLBACK_PREFIXES, {prefix}), area, "prefix")
                     ELSE Classification("other", area, "none")
  BY DEF ClassifyPlot
<1> HIDE DEF combined, pick, area
<1> QED BY <1>2, <1>3, <1>4, <1>5, <1>6, <1>7

-----------------------------------------------------------------------------
(* The tables.                                                              *)
Dates == (0..(LastMonth + LongDeportation)) \cup {Never}
Sentences == [victim : Citizens, type : {"BAN", "WARN"}, deportation : BOOLEAN, start : Months,
              end : Dates, expires : Dates, completed : BOOLEAN, withdrawn : BOOLEAN]

FlagsInv ==
  /\ zoning \in [Properties -> Zonings \cup {Unclassified}]
  /\ tenure \in [Properties -> Tenure] /\ stake \in [Properties -> [Role -> Someone]]
  /\ sentences \subseteq Sentences
  /\ seen \in [Citizens -> Nat \cup {Never}] /\ playtime \in [Citizens -> Nat \cup {Never}]
  /\ excluded \subseteq Citizens /\ realtors \subseteq Citizens /\ reported \subseteq Properties
  /\ month \in Months /\ propertyEdits \in Nat

LEMMA FlagsInvInit == FlagsInit => FlagsInv
<1> SUFFICES ASSUME FlagsInit PROVE FlagsInv
  OBVIOUS
<1>1. zoning \in [Properties -> Zonings \cup {Unclassified}]
  BY ClassifiedWhole DEF FlagsInit
<1>2. tenure \in [Properties -> Tenure] /\ stake \in [Properties -> [Role -> Someone]]
  BY PropertyAssumption DEF FlagsInit, Tenure, Someone
<1>3. seen \in [Citizens -> Nat \cup {Never}] /\ playtime \in [Citizens -> Nat \cup {Never}]
  BY DEF FlagsInit
<1>4. month \in Months /\ propertyEdits \in Nat
  BY PropertyAssumption DEF FlagsInit, Months
<1>5. /\ sentences \subseteq Sentences /\ excluded \subseteq Citizens /\ realtors \subseteq Citizens
      /\ reported \subseteq Properties
  BY DEF FlagsInit
<1> QED BY <1>1, <1>2, <1>3, <1>4, <1>5 DEF FlagsInv

(* What a step leaves alone keeps its type.                                 *)
LEMMA FlagsInvNext == FlagsInv /\ [FlagsNext]_flagVars => FlagsInv'
<1> SUFFICES ASSUME FlagsInv, [FlagsNext]_flagVars PROVE FlagsInv'
  OBVIOUS
<1> USE DEF FlagsInv
<1>1. ASSUME EditTables PROVE propertyEdits' \in Nat
  BY <1>1 DEF EditTables
<1>2. ASSUME NEW x \in Properties, NEW tags \in TagSets, NEW kind \in Tenure,
             StoreRegionRow(x, tags, kind)
      PROVE  FlagsInv'
  BY <1>1, <1>2, ClassifiedWhole DEF StoreRegionRow, playerTables, curation
<1>3. ASSUME NEW x \in Properties, NEW t \in Someone, NEW a \in Someone, StoreFreehold(x, t, a)
      PROVE  FlagsInv'
  <2>1. stake' \in [Properties -> [Role -> Someone]]
    BY <1>3 DEF StoreFreehold
  <2> QED BY <1>1, <1>3, <2>1 DEF StoreFreehold, playerTables, curation
<1>4. ASSUME NEW x \in Properties, NEW l \in Someone, NEW t \in Someone, StoreLeasehold(x, l, t)
      PROVE  FlagsInv'
  <2>1. stake' \in [Properties -> [Role -> Someone]]
    BY <1>4 DEF StoreLeasehold
  <2> QED BY <1>1, <1>4, <2>1 DEF StoreLeasehold, playerTables, curation
<1>5. ASSUME NEW x \in Properties, Undetailed(x)
      PROVE  FlagsInv'
  BY <1>1, <1>5 DEF Undetailed, playerTables, curation, Tenure, Someone
<1>6. ASSUME NEW x \in Properties, ToggleReport(x)
      PROVE  FlagsInv'
  BY <1>1, <1>6 DEF ToggleReport, Toggle, regionTables, playerTables
<1>7. ASSUME NEW u \in Citizens, NEW kind \in {"ban", "deportation"},
             NEW d \in Terms \cup {Never}, Convict(u, kind, IF d = Never THEN Never ELSE month + d)
      PROVE  FlagsInv'
  <2> DEFINE until == IF d = Never THEN Never ELSE month + d
  <2>1. until \in Dates /\ Never \in Dates
    BY PropertyAssumption DEF Terms, LongDeportation, Dates, Months
  <2> HIDE DEF until
  <2>2. Sentence(u, kind, until) \in Sentences
    BY <2>1 DEF Sentence, Sentences
  <2>3. Convict(u, kind, until)
    BY <1>7 DEF until
  <2> QED BY <1>1, <2>2, <2>3 DEF Convict, regionTables, curation
<1>8. ASSUME NEW s \in sentences, Release(s)
      PROVE  FlagsInv'
  <2>1. [s EXCEPT !.withdrawn = TRUE] \in Sentences /\ [s EXCEPT !.completed = TRUE] \in Sentences
    BY DEF Sentences
  <2> QED BY <1>1, <1>8, <2>1 DEF Release, regionTables, curation
<1>9. ASSUME NEW u \in Citizens, LogIn(u) \/ ToggleExcluded(u) \/ ToggleRealtor(u)
      PROVE  FlagsInv'
  <2>1. CASE LogIn(u)
    BY <1>1, <2>1 DEF LogIn, regionTables, curation, Months
  <2>2. CASE ToggleExcluded(u)
    BY <1>1, <2>2 DEF ToggleExcluded, Toggle, regionTables, playerTables
  <2>3. CASE ToggleRealtor(u)
    BY <1>1, <2>3 DEF ToggleRealtor, Toggle, regionTables, playerTables
  <2> QED BY <1>9, <2>1, <2>2, <2>3
<1>10. ASSUME NEW u \in Citizens, NEW h \in Hours, Measure(u, h)
       PROVE  FlagsInv'
  BY <1>1, <1>10 DEF Measure, Hours, regionTables, curation
<1>11. CASE PassMonth
  BY <1>11, PropertyAssumption DEF PassMonth, Months, regionTables, playerTables, curation
<1>12. CASE UNCHANGED flagVars
  BY <1>12 DEF flagVars, regionTables, playerTables, curation
<1> QED
  BY <1>2, <1>3, <1>4, <1>5, <1>6, <1>7, <1>8, <1>9, <1>10, <1>11, <1>12 DEF FlagsNext

(* The category and the area of a plot, classified or not yet.              *)
LEMMA PlotsHaveCategories ==
  ASSUME FlagsInv, NEW x \in Properties
  PROVE  /\ CategoryOf(x) \in Category /\ AreaOf(x) \in Area \cup {NoArea}
         /\ OwnerOf(x) \in Citizens \cup {Nobody}
<1>1. zoning[x] \in Zonings \cup {Unclassified} /\ stake[x] \in [Role -> Someone]
  BY DEF FlagsInv
<1>2. "other" \in Category
  BY DEF Category
<1>3. "titleholder" \in Role /\ "tenant" \in Role
  BY DEF Role
<1> QED BY <1>1, <1>2, <1>3 DEF CategoryOf, AreaOf, OwnerOf, Zonings, Someone

LEMMA FlagsInvTypes ==
  ASSUME FlagsInv
  PROVE  FlagsTypeOK
<1>1. \A s \in sentences : s.victim \in Citizens /\ s.start \in Months
  BY DEF FlagsInv, Sentences
<1> QED BY <1>1, PlotsHaveCategories DEF FlagsInv, FlagsTypeOK

-----------------------------------------------------------------------------
(* A breach is one that the summary has, of a category with a plot.         *)
LEMMA BreachIsListed ==
  ASSUME FlagsInv, NEW x \in Properties, OwnerOf(x) # Nobody
  PROVE  OverLimit(OwnerOf(x), CategoryOf(x)) <=>
           CategoryOf(x) \in BuildHolder(OwnerOf(x)).violations \cup BuildHolder(OwnerOf(x)).checks
<1> DEFINE u == OwnerOf(x)
           c == CategoryOf(x)
<1>1. u \in Citizens /\ c \in Category
  BY PlotsHaveCategories
<1>2. c \in CategoriesOf(u)
  BY DEF CategoriesOf
<1>3. /\ BuildHolder(u).violations = {k \in CategoriesOf(u) : IsViolation(u, k)}
      /\ BuildHolder(u).checks = {k \in CategoriesOf(u) : NeedsRealtorCheck(u, k)}
  BY DEF BuildHolder
<1>4. OverLimit(u, c) <=> IsViolation(u, c) \/ NeedsRealtorCheck(u, c)
  BY <1>1, BreachesAreClassified
<1> HIDE DEF u, c
<1> QED BY <1>2, <1>3, <1>4 DEF u, c

LEMMA SummaryAlwaysAgrees ==
  ASSUME FlagsInv
  PROVE  SummaryAgrees
<1> DEFINE listed == LimitsSummary.over \cup LimitsSummary.needRealtorCheck
<1>1. listed = FindLimitBreaches
  BY DEF LimitsSummary, FindLimitBreaches
<1>2. ASSUME NEW x \in Properties, Counts(x), OwnerOf(x) \notin excluded \cup {Nobody}
      PROVE  (\E h \in listed :
                h.player = OwnerOf(x) /\ CategoryOf(x) \in h.violations \cup h.checks)
             <=> \E w \in Rows : /\ Holder(w) = OwnerOf(x) /\ w[2] \in {"titleholder", "tenant"}
                                 /\ RowCategory(w) = CategoryOf(x) /\ RowOverLimit(w)
  <2> DEFINE u == OwnerOf(x)
             c == CategoryOf(x)
  <2>1. u \in Citizens \ excluded
    BY <1>2, PlotsHaveCategories
  <2>2. (\E h \in listed : h.player = u /\ c \in h.violations \cup h.checks)
          <=> c \in BuildHolder(u).violations \cup BuildHolder(u).checks
    <3>1. \A k \in Citizens : BuildHolder(k).player = k
      BY DEF BuildHolder
    <3>2. ASSUME NEW h \in listed, h.player = u PROVE h = BuildHolder(u)
      BY <1>1, <3>1, <3>2 DEF FindLimitBreaches
    <3>3. ASSUME c \in BuildHolder(u).violations \cup BuildHolder(u).checks
          PROVE  BuildHolder(u) \in listed
      BY <1>1, <2>1, <3>3 DEF FindLimitBreaches
    <3> HIDE DEF listed, u, c
    <3> QED BY <2>1, <3>1, <3>2, <3>3
  <2>3. OverLimit(u, c) <=> c \in BuildHolder(u).violations \cup BuildHolder(u).checks
    BY <1>2, BreachIsListed
  <2>4. ASSUME OverLimit(u, c)
        PROVE  \E w \in Rows : /\ Holder(w) = u /\ w[2] \in {"titleholder", "tenant"}
                               /\ RowCategory(w) = c /\ RowOverLimit(w)
    <3>1. PICK r \in {"titleholder", "tenant"} : stake[x][r] = u
      BY DEF OwnerOf
    <3>2. <<x, r>> \in Rows /\ Holder(<<x, r>>) = u /\ RowCategory(<<x, r>>) = c
      BY <1>2, <3>1 DEF Rows, Holder, RowCategory, Role
    <3>3. RowOverLimit(<<x, r>>)
      BY <1>2, <2>4, <3>2 DEF RowOverLimit
    <3> QED BY <3>1, <3>2, <3>3
  <2>5. ASSUME NEW w \in Rows, Holder(w) = u, RowCategory(w) = c, RowOverLimit(w)
        PROVE  OverLimit(u, c)
    BY <2>5 DEF RowOverLimit
  <2> HIDE DEF listed, u, c
  <2> QED BY <2>2, <2>3, <2>4, <2>5 DEF u, c
<1> QED BY <1>2 DEF SummaryAgrees

-----------------------------------------------------------------------------
(* The reason of a kit is one of those the plot's page finds.               *)
LEMMA ReasonIsDetected ==
  ASSUME NEW x \in Properties, ReportReason(x) # "none"
  PROVE  ReportReason(x) \in DetectReportReasons(x)
BY DEF ReportReason

LEMMA ProposalsAlwaysAgree == ProposalsAgree
<1>1. ASSUME NEW x \in Properties
      PROVE  ReportReason(x) # "none" <=>
               \E w \in Rows : w[1] = x /\ Holder(w) = OwnerOf(x) /\ Flagged(w)
                               /\ w[2] \in {"titleholder", "tenant"}
  <2> DEFINE u == OwnerOf(x)
             o == PlayerProfile(u)
             inactive == \/ IsBanned(u) \/ IsLongDeported(u)
                         \/ /\ ~(IsDeported(u) /\ ~IsLongDeported(u))
                            /\ Playtime30d(u) # Never /\ Playtime30d(u) < ThresholdHours
             over == OverLimit(u, CategoryOf(x)) /\ Counts(x)
  <2>1. DetectReportReasons(x) # {} <=> inactive \/ over
    <3>1. DetectReportReasons(x) =
            {r \in {"inactivity", "rental-limitations", "plot-fairness"} :
               \/ r = "inactivity" /\ inactive
               \/ r = "rental-limitations" /\ over /\ tenure[x] = "leasehold"
               \/ r = "plot-fairness" /\ over /\ tenure[x] # "leasehold"}
      BY DEF DetectReportReasons, GetRegion, PlayerProfile
    <3> HIDE DEF inactive, over
    <3> QED BY <3>1
  <2>2. ASSUME NEW w \in Rows, w[1] = x, Holder(w) = u
        PROVE  Flagged(w) <=> inactive \/ over
    BY <2>2 DEF Flagged, Inactive, IsLimitedDeported, RowOverLimit, RowCategory
  <2>3. ReportReason(x) # "none" <=> u # Nobody /\ DetectReportReasons(x) # {}
    <3>1. "none" \notin DetectReportReasons(x)
      BY DEF DetectReportReasons
    <3>2. "inactivity" # "none"
      OBVIOUS
    <3> QED BY <3>1, <3>2 DEF ReportReason
  <2>4. ASSUME u # Nobody
        PROVE  \E w \in Rows : w[1] = x /\ Holder(w) = u /\ w[2] \in {"titleholder", "tenant"}
    <3>1. PICK r \in {"titleholder", "tenant"} : stake[x][r] = u
      BY DEF OwnerOf
    <3>2. <<x, r>> \in Rows /\ Holder(<<x, r>>) = u
      BY <2>4, <3>1 DEF Rows, Holder, Role
    <3> QED BY <3>1, <3>2
  <2>5. \A w \in Rows : Holder(w) # Nobody
    BY DEF Rows
  <2> HIDE DEF u, inactive, over
  <2> QED BY <2>1, <2>2, <2>3, <2>4, <2>5 DEF u
<1>2. ASSUME NEW x \in Properties, ReportReason(x) # "none", ResolveDays(ReportReason(x)) = 0
      PROVE  tenure[x] = "leasehold"
  <2>1. ReportReason(x) \in DetectReportReasons(x)
    BY <1>2, ReasonIsDetected
  <2>2. ReportReason(x) = "rental-limitations"
    BY <1>2, <2>1 DEF DetectReportReasons, ResolveDays
  <2> QED BY <2>1, <2>2 DEF DetectReportReasons, GetRegion
<1> QED BY <1>1, <1>2 DEF ProposalsAgree

-----------------------------------------------------------------------------
(* A set of months has a last one.                                          *)
LEMMA LastDate ==
  ASSUME NEW D \in SUBSET (0..(LastMonth + LongDeportation)), D # {}
  PROVE  Max(D) \in D
<1> DEFINE N == LastMonth + LongDeportation
           T == {N - e : e \in D}
<1>1. \A e \in D : e \in Nat /\ N - e \in Nat /\ N \in Nat
  BY PropertyAssumption DEF LongDeportation
<1> HIDE DEF N
<1>2. PICK t \in T : \A n \in T : t <= n
  <2>1. T \in SUBSET Nat /\ T # {}
    BY <1>1
  <2> HIDE DEF T
  <2> QED BY <2>1, LeastNumber
<1>3. PICK m \in D : t = N - m
  OBVIOUS
<1>4. \A e \in D : m >= e
  <2> TAKE e \in D
  <2>1. t <= N - e
    BY <1>2
  <2> QED BY <1>1, <1>3, <2>1
<1>5. Max(D) = CHOOSE x \in D : \A y \in D : x >= y
  BY DEF Max
<1> QED BY <1>4, <1>5

(* What is said of a deportation.                                           *)
LEMMA DeportationsAreSaid ==
  ASSUME FlagsInv, NEW u \in Citizens
  PROVE  /\ IsLongDeported(u) <=> KindOf(u) \in {"long", "indefinite"}
         /\ IsDeported(u) => (DeportationEndsAt(u) = Never <=> KindOf(u) = "indefinite")
<1> DEFINE D == {d \in ActiveOf(u) : d.deportation}
           kinds == {DeportationKind(s) : s \in D}
           ends == {Ends(s) : s \in D}
<1>1. \A s \in D : /\ DeportationKind(s) \in {"indefinite", "long", "limited"}
                   /\ DeportationKind(s) = "indefinite" <=> Ends(s) = Never
  BY DEF DeportationKind
<1>2. KindOf(u) = CASE "indefinite" \in kinds -> "indefinite"
                    [] "long" \in kinds /\ "indefinite" \notin kinds -> "long"
                    [] kinds = {"limited"} -> "limited"
                    [] OTHER -> "none"
  BY DEF KindOf
<1>3. KindOf(u) = "indefinite" <=> "indefinite" \in kinds
  <2> HIDE DEF kinds
  <2> QED BY <1>2
<1>4. KindOf(u) \in {"long", "indefinite"} <=> "long" \in kinds \/ "indefinite" \in kinds
  <2> HIDE DEF kinds
  <2> QED BY <1>2
<1>5. IsLongDeported(u) <=> \E s \in D : DeportationKind(s) # "limited"
  BY DEF IsLongDeported
<1>6. IsDeported(u) <=> D # {}
  BY DEF IsDeported
<1>7. DeportationEndsAt(u) = IF ends = {} \/ Never \in ends THEN Never ELSE Max(ends)
  BY DEF DeportationEndsAt
<1>8. ends \subseteq Dates
  BY DEF FlagsInv, Sentences, ActiveOf, Ends
<1>9. Never \in ends <=> "indefinite" \in kinds
  BY <1>1
<1>10. ASSUME ends # {}, Never \notin ends PROVE Max(ends) # Never
  <2>1. ends \in SUBSET (0..(LastMonth + LongDeportation))
    BY <1>8, <1>10 DEF Dates
  <2> HIDE DEF ends
  <2>2. Max(ends) \in ends
    BY <1>10, <2>1, LastDate
  <2> QED BY <1>10, <2>2
<1>11. D # {} <=> ends # {}
  OBVIOUS
<1>12. (\E s \in D : DeportationKind(s) # "limited") <=> "long" \in kinds \/ "indefinite" \in kinds
  BY <1>1
<1> HIDE DEF D, kinds, ends
<1> QED BY <1>3, <1>4, <1>5, <1>6, <1>7, <1>9, <1>10, <1>11, <1>12

LEMMA PagesOfPlayers ==
  ASSUME FlagsInv, NEW u \in Citizens
  PROVE  LET profile == PlayerProfile(u)
             said == {s \in Announced : s.victim = u}
         IN /\ profile.isBanned <=> \E s \in said : s.type = "BAN"
            /\ profile.isLongDeported <=> \E s \in said : GroundsToEvict(s)
            /\ profile.isLongDeported <=> profile.deportationKind \in {"long", "indefinite"}
            /\ profile.isDeported =>
                 (profile.deportationEndsAt = Never <=> profile.deportationKind = "indefinite")
            /\ profile.playtime = Never <=> profile.playtimeSource = "unknown"
<1> DEFINE said == {s \in Announced : s.victim = u}
<1>1. IsBanned(u) <=> \E s \in said : s.type = "BAN"
  BY DEF IsBanned, ActiveOf, Announced
<1>2. IsLongDeported(u) <=> \E s \in said : GroundsToEvict(s)
  BY DEF IsLongDeported, ActiveOf, Announced, GroundsToEvict
<1>3. Playtime30d(u) = Never <=> PlaytimeSource(u) = "unknown"
  BY PropertyAssumption DEF Playtime30d, PlaytimeSource
<1> HIDE DEF said
<1> QED BY <1>1, <1>2, <1>3, DeportationsAreSaid DEF PlayerProfile, said

LEMMA PlayerPagesAlwaysAgree ==
  ASSUME FlagsInv
  PROVE  PlayerPagesAgree
<1> DEFINE alerts == GroupByPlayer(Alerted)
<1>1. ASSUME NEW w \in WidestRows
      PROVE  \E g \in alerts : w \in g.properties /\ \A h \in alerts \ {g} : h.player # g.player
  <2>1. w \in Alerted
    BY WidestIsAlerted
  <2> DEFINE alert(u) == [player |-> u, properties |-> {v \in Alerted : Holder(v) = u}]
  <2>2. alerts = {alert(u) : u \in {Holder(v) : v \in Alerted}}
    BY DEF GroupByPlayer
  <2>3. alert(Holder(w)) \in alerts /\ w \in alert(Holder(w)).properties
    BY <2>1, <2>2
  <2>4. \A h \in alerts : h = alert(h.player)
    BY <2>2
  <2>5. alert(Holder(w)).player = Holder(w)
    OBVIOUS
  <2> HIDE DEF alerts, alert
  <2> QED BY <2>3, <2>4, <2>5
<1>2. ASSUME NEW x \in Properties, OwnerOf(x) # Nobody
      PROVE  LET marked == HolderLimits(OwnerOf(x))
             IN GetRegion(x).limit.overLimit
                  <=> CategoryOf(x) \in marked.violations \cup marked.checks
  <2>1. GetRegion(x).limit.overLimit = OverLimit(OwnerOf(x), CategoryOf(x))
    BY DEF GetRegion
  <2> QED BY <1>2, <2>1, BreachIsListed DEF HolderLimits
<1> QED BY <1>1, <1>2, PagesOfPlayers DEF PlayerPagesAgree

LEMMA FlagsInvVerdicts ==
  ASSUME FlagsInv
  PROVE  VerdictsAgree
BY TablesAlwaysAgree, SummaryAlwaysAgrees, ProposalsAlwaysAgree, PlayerPagesAlwaysAgree
   DEF VerdictsAgree

(* Whatever the crawls and the operators store and whenever one looks, the  *)
(* table, its counts, the exclusions, the limits, the page of a plot, that  *)
(* of a player and the channel say the same (insights/*.ts,                 *)
(* plots/limits-sql.ts, plots/report-kit.ts, notify/channels.ts).           *)
THEOREM VerdictsAlwaysAgree == FlagsSpec => []VerdictsAgree
<1>1. FlagsInv => VerdictsAgree
  BY FlagsInvVerdicts
<1> QED BY <1>1, FlagsInvInit, FlagsInvNext, PTL DEF FlagsSpec

-----------------------------------------------------------------------------
(* The composition.  A step of it is a step of one part, and of the others  *)
(* none, so that a behaviour of it is one of each part.                     *)
LEMMA PartsStep ==
  [Next]_vars => /\ [ForumNext]_forumVars /\ [RealtyNext]_realtyVars
                 /\ [MergeNext]_mergeVars /\ [FlagsNext]_flagVars /\ UNCHANGED focus
BY DEF Next, vars

LEMMA PartsBehave == Spec => ForumSpec /\ RealtySpec /\ MergeSpec /\ FlagsSpec
<1>1. Init => ForumInit /\ RealtyInit /\ MergeInit /\ FlagsInit
  BY DEF Init
<1> QED BY <1>1, PartsStep, PTL DEF Spec, ForumSpec, RealtySpec, MergeSpec, FlagsSpec

(* The tables of the forum, the regions, the merge groups and the flags     *)
(* keep their types (db/schema.ts).                                         *)
THEOREM MirrorTypes == Spec => []TypeOK
<1> DEFINE Focused == focus \in {"forum", "realty", "merges", "flags"}
<1>1. Init => Focused
  BY DEF Init
<1>2. Focused /\ [Next]_vars => Focused'
  BY PartsStep
<1>3. FlagsSpec => []FlagsTypeOK
  <2>1. FlagsInv => FlagsTypeOK
    BY FlagsInvTypes
  <2> QED BY <2>1, FlagsInvInit, FlagsInvNext, PTL DEF FlagsSpec
<1>4. Focused /\ ForumTypeOK /\ RealtyTypeOK /\ MergeTypeOK /\ FlagsTypeOK => TypeOK
  BY DEF TypeOK
<1> QED
  BY <1>1, <1>2, <1>3, <1>4, PartsBehave, ForumTypes, RealtyTypes, ShownMergesAreGenuine, PTL
     DEF Spec

(* In the composition, too, the pages show genuine merges, ...              *)
THEOREM MergesStayGenuine == Spec => []PagesShowGenuineMerges
<1>1. MergesAreGenuine => PagesShowGenuineMerges
  BY DEF PagesShowGenuineMerges
<1> QED BY <1>1, PartsBehave, ShownMergesAreGenuine, PTL

(* ... everything that says which properties are at risk agrees, ...        *)
THEOREM VerdictsStayAgreed == Spec => []EveryVerdictAgrees
<1>1. VerdictsAgree => EveryVerdictAgrees
  BY DEF EveryVerdictAgrees
<1> QED BY <1>1, PartsBehave, VerdictsAlwaysAgree, PTL

(* ... and the crawls of forum and regions keep what they promise alone:    *)
(* gaps and staleness are excused or pending, a complete backfill is one,   *)
(* and manual links outlive them (sync/handlers/forum.ts, realty.ts).       *)
THEOREM CrawlsStayHonest ==
  Spec => /\ [](ForumGapsAreExcused /\ StalenessIsPending)
          /\ BackfillIsHonest /\ ManualLinksOutlive
BY PartsBehave, ListedThreadsAreInStep, NoStaleRegionIsForgotten, BackfillsAreHonest,
   ManualLinksStay, PTL
=============================================================================
