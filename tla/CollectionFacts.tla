-------------------------- MODULE CollectionFacts --------------------------
(***************************************************************************)
(* What the proofs need to know of bags, sets of numbers and sums.         *)
(*                                                                         *)
(* The messages in flight of the screens are bags: one is put in or taken  *)
(* out at a time.  The node's next nonce is the least free number.  The    *)
(* amounts of an audit are added up with the fold of the community         *)
(* modules, whose equation is proved here for any finite set: an induction *)
(* over finite sets, written as a search for the smallest counterexample.  *)
(***************************************************************************)
EXTENDS Integers, Bags, FiniteSetsExt, FiniteSetTheorems, WellFoundedInduction,
        TLAPS

\* One more copy of an element; the others stay.
LEMMA BagAdd ==
  ASSUME NEW B, IsABag(B), NEW n
  PROVE  /\ IsABag(B (+) SetToBag({n}))
         /\ BagToSet(B (+) SetToBag({n})) = BagToSet(B) \cup {n}
         /\ \A e \in BagToSet(B) \ {n} : (B (+) SetToBag({n}))[e] = B[e]
         /\ (B (+) SetToBag({n}))[n] = IF n \in BagToSet(B) THEN B[n] + 1 ELSE 1
BY DEF IsABag, BagToSet, SetToBag, (+)

\* One copy less of an element that is there; the others stay.
LEMMA BagRemove ==
  ASSUME NEW B, IsABag(B), NEW n \in BagToSet(B)
  PROVE  /\ IsABag(B (-) SetToBag({n}))
         /\ BagToSet(B (-) SetToBag({n})) = IF B[n] = 1 THEN BagToSet(B) \ {n} ELSE BagToSet(B)
         /\ \A e \in BagToSet(B) \ {n} : (B (-) SetToBag({n}))[e] = B[e]
         /\ B[n] # 1 => (B (-) SetToBag({n}))[n] = B[n] - 1
BY DEF IsABag, BagToSet, SetToBag, (-)

\* The empty bag has no element.
LEMMA BagNone == IsABag(EmptyBag) /\ BagToSet(EmptyBag) = {}
BY DEF IsABag, BagToSet, EmptyBag, SetToBag
----------------------------------------------------------------------------
\* Among finite sets there is one of which no other is a part: an induction
\* over finite sets looks at the smallest for which its claim would fail.
LEMMA SmallestSet ==
  ASSUME NEW U, NEW Bad, Bad \subseteq FiniteSubsetsOf(U), Bad # {}
  PROVE  \E B \in Bad : \A C \in Bad : ~ (C \subseteq B /\ C # B)
<1>1. PICK B \in Bad : \A C \in Bad : <<C, B>> \notin StrictSubsetOrdering(U)
  BY FS_StrictSubsetOrderingWellFounded, WFMin
<1>2. QED
  BY <1>1 DEF StrictSubsetOrdering, FiniteSubsetsOf

\* A set of naturals that is not empty has a least member.
LEMMA MinOfNaturals ==
  ASSUME NEW S \in SUBSET Nat, S # {}
  PROVE  Min(S) \in S /\ \A n \in S : Min(S) <= n
<1> DEFINE Below == {0..n : n \in S}
<1>1. Below \subseteq FiniteSubsetsOf(Nat) /\ Below # {}
  <2>1. ASSUME NEW n \in S PROVE 0..n \subseteq Nat /\ IsFiniteSet(0..n)
    BY FS_Interval
  <2>2. QED
    BY <2>1 DEF FiniteSubsetsOf
<1>2. PICK B \in Below : \A C \in Below : ~ (C \subseteq B /\ C # B)
  <2> HIDE DEF Below
  <2>1. QED
    BY <1>1, SmallestSet
<1>3. PICK m \in S : B = 0..m
  OBVIOUS
<1>4. ASSUME NEW n \in S PROVE m <= n
  <2>1. ~ (0..n \subseteq 0..m /\ 0..n # 0..m)
    BY <1>2, <1>3
  <2>2. SUFFICES ASSUME n < m PROVE FALSE
    OBVIOUS
  <2>3. 0..n \subseteq 0..m /\ m \in 0..m /\ m \notin 0..n
    BY <2>2
  <2>4. QED
    BY <2>1, <2>3
<1>5. QED
  BY <1>4 DEF Min
----------------------------------------------------------------------------
\* The sum of a function over a finite set.
SumOver(f, S) == MapThenSumSet(LAMBDA x : f[x], S)

\* The partial sums that the fold computes, one for each subset of S.
Chosen(s) == CHOOSE x \in s : TRUE
PartialSums(f, S, g) ==
  g = [s \in SUBSET S |-> IF s = {} THEN 0 ELSE f[Chosen(s)] + g[s \ {Chosen(s)}]]

\* The fold is the last of them.
LEMMA SumIsPartial ==
  ASSUME NEW f, NEW S
  PROVE  SumOver(f, S) = (CHOOSE g : PartialSums(f, S, g))[S]
BY DEF SumOver, MapThenSumSet, MapThenFoldSet, PartialSums, Chosen

\* A member is left out of every set that has one.
LEMMA ChosenOfSet ==
  ASSUME NEW s, s # {}
  PROVE  Chosen(s) \in s /\ s \ {Chosen(s)} \subseteq s /\ s \ {Chosen(s)} # s
BY DEF Chosen

\* Partial sums of functions that agree on a set agree on it.
LEMMA PartialSumsAgree ==
  ASSUME NEW f, NEW S, NEW g, PartialSums(f, S, g),
         NEW e, NEW T, NEW h, PartialSums(e, T, h),
         NEW V, IsFiniteSet(V), V \subseteq S, V \subseteq T, \A x \in V : f[x] = e[x]
  PROVE  g[V] = h[V]
<1> DEFINE Bad == {s \in SUBSET V : g[s] # h[s]}
<1>1. SUFFICES ASSUME Bad # {} PROVE FALSE
  OBVIOUS
<1>2. Bad \subseteq FiniteSubsetsOf(V)
  BY FS_Subset DEF FiniteSubsetsOf
<1>3. PICK s \in Bad : \A c \in Bad : ~ (c \subseteq s /\ c # s)
  <2> HIDE DEF Bad
  <2>1. QED
    BY <1>1, <1>2, SmallestSet
<1>4. g[s] = IF s = {} THEN 0 ELSE f[Chosen(s)] + g[s \ {Chosen(s)}]
  BY <1>3 DEF PartialSums
<1>5. h[s] = IF s = {} THEN 0 ELSE e[Chosen(s)] + h[s \ {Chosen(s)}]
  BY <1>3 DEF PartialSums
<1>6. s # {} => f[Chosen(s)] = e[Chosen(s)] /\ g[s \ {Chosen(s)}] = h[s \ {Chosen(s)}]
  BY <1>3, ChosenOfSet
<1>7. QED
  BY <1>3, <1>4, <1>5, <1>6

\* A finite set has its partial sums.
LEMMA PartialSumsExist ==
  ASSUME NEW f, NEW S, IsFiniteSet(S)
  PROVE  PartialSums(f, S, CHOOSE g : PartialSums(f, S, g))
<1> DEFINE Bad == {s \in SUBSET S : ~ \E g : PartialSums(f, s, g)}
<1>1. SUFFICES ASSUME Bad # {} PROVE FALSE
  <2>1. S \notin Bad => \E g : PartialSums(f, S, g)
    OBVIOUS
  <2>2. QED
    BY <2>1
<1>2. Bad \subseteq FiniteSubsetsOf(S)
  BY FS_Subset DEF FiniteSubsetsOf
<1>3. PICK s \in Bad : \A c \in Bad : ~ (c \subseteq s /\ c # s)
  <2> HIDE DEF Bad
  <2>1. QED
    BY <1>1, <1>2, SmallestSet
<1> DEFINE of(c) == (CHOOSE g : PartialSums(f, c, g))[c]
           all == [c \in SUBSET s |-> IF c = {} THEN 0
                     ELSE f[Chosen(c)] + of(c \ {Chosen(c)})]
<1>4. ASSUME NEW c \in SUBSET s, c # s
      PROVE  of(c) = all[c]
  <2>1. c \notin Bad
    BY <1>3, <1>4
  <2>2. \E g : PartialSums(f, c, g)
    BY <2>1, <1>3
  <2>3. PICK g : PartialSums(f, c, g) /\ g = CHOOSE h : PartialSums(f, c, h)
    BY <2>2
  <2>4. g[c] = IF c = {} THEN 0 ELSE f[Chosen(c)] + g[c \ {Chosen(c)}]
    BY <2>3 DEF PartialSums
  <2>5. ASSUME c # {} PROVE g[c \ {Chosen(c)}] = of(c \ {Chosen(c)})
    <3> DEFINE d == c \ {Chosen(c)}
    <3>1. d \subseteq c /\ d \subseteq s /\ d # s
      BY <2>5, ChosenOfSet, <1>4
    <3>2. d \notin Bad
      BY <1>3, <3>1
    <3>3. \E h : PartialSums(f, d, h)
      BY <3>2, <3>1, <1>3
    <3>4. PICK h : PartialSums(f, d, h) /\ h = CHOOSE k : PartialSums(f, d, k)
      BY <3>3
    <3>5. IsFiniteSet(d)
      BY <3>1, <1>3, FS_Subset
    <3> HIDE DEF d
    <3>6. g[d] = h[d]
      BY <2>3, <3>1, <3>4, <3>5, PartialSumsAgree
    <3>7. QED
      BY <3>4, <3>6 DEF d
  <2>6. QED
    BY <2>3, <2>4, <2>5
<1>5. ASSUME NEW c \in SUBSET s, c # {}
      PROVE  of(c \ {Chosen(c)}) = all[c \ {Chosen(c)}]
  <2>1. c \ {Chosen(c)} \in SUBSET s /\ c \ {Chosen(c)} # s
    BY <1>5, ChosenOfSet
  <2> HIDE DEF of, all
  <2>2. QED
    BY <2>1, <1>4
<1>6. all = [c \in SUBSET s |-> IF c = {} THEN 0 ELSE f[Chosen(c)] + all[c \ {Chosen(c)}]]
  <2> DEFINE rhs == [c \in SUBSET s |-> IF c = {} THEN 0 ELSE f[Chosen(c)] + all[c \ {Chosen(c)}]]
  <2>1. \A c \in SUBSET s : all[c] = IF c = {} THEN 0 ELSE f[Chosen(c)] + all[c \ {Chosen(c)}]
    <3> HIDE DEF of
    <3>1. \A c \in SUBSET s : all[c] = IF c = {} THEN 0 ELSE f[Chosen(c)] + of(c \ {Chosen(c)})
      OBVIOUS
    <3> HIDE DEF all
    <3>2. QED
      BY <3>1, <1>5
  <2>2. all = [c \in SUBSET s |-> all[c]]
    OBVIOUS
  <2> HIDE DEF all
  <2>3. QED
    BY <2>1, <2>2
<1>7. PartialSums(f, s, all)
  <2> HIDE DEF all
  <2>1. QED
    BY <1>6 DEF PartialSums
<1>8. QED
  BY <1>3, <1>7

\* The sum over nothing, and the sum over a set less the member the fold takes
\* first.
LEMMA SumStep ==
  ASSUME NEW f, NEW S, IsFiniteSet(S)
  PROVE  SumOver(f, S) = IF S = {} THEN 0
                         ELSE f[Chosen(S)] + SumOver(f, S \ {Chosen(S)})
<1>1. PICK g : PartialSums(f, S, g) /\ g = CHOOSE h : PartialSums(f, S, h)
  BY PartialSumsExist
<1>2. g[S] = IF S = {} THEN 0 ELSE f[Chosen(S)] + g[S \ {Chosen(S)}]
  BY <1>1 DEF PartialSums
<1>3. ASSUME S # {} PROVE g[S \ {Chosen(S)}] = SumOver(f, S \ {Chosen(S)})
  <2> DEFINE d == S \ {Chosen(S)}
  <2>1. d \subseteq S /\ IsFiniteSet(d)
    BY <1>3, ChosenOfSet, FS_Subset
  <2> HIDE DEF d
  <2>2. PICK h : PartialSums(f, d, h) /\ h = CHOOSE k : PartialSums(f, d, k)
    BY <2>1, PartialSumsExist
  <2>3. g[d] = h[d]
    BY <1>1, <2>1, <2>2, PartialSumsAgree
  <2>4. QED
    BY <2>2, <2>3, SumIsPartial DEF d
<1>4. SumOver(f, S) = g[S]
  BY <1>1, SumIsPartial
<1>5. QED
  BY <1>2, <1>3, <1>4

\* Functions that agree on a set have the same sum over it.
LEMMA SumAgree ==
  ASSUME NEW f, NEW e, NEW S, IsFiniteSet(S), \A x \in S : f[x] = e[x]
  PROVE  SumOver(f, S) = SumOver(e, S)
<1>1. PICK g : PartialSums(f, S, g) /\ g = CHOOSE h : PartialSums(f, S, h)
  BY PartialSumsExist
<1>2. PICK h : PartialSums(e, S, h) /\ h = CHOOSE k : PartialSums(e, S, k)
  BY PartialSumsExist
<1>3. g[S] = h[S]
  BY <1>1, <1>2, PartialSumsAgree
<1>4. QED
  BY <1>1, <1>2, <1>3, SumIsPartial

\* A sum of naturals is a natural.
LEMMA SumIsNatural ==
  ASSUME NEW f, NEW S, IsFiniteSet(S), \A x \in S : f[x] \in Nat
  PROVE  SumOver(f, S) \in Nat
<1> DEFINE Bad == {s \in SUBSET S : SumOver(f, s) \notin Nat}
<1>1. SUFFICES ASSUME Bad # {} PROVE FALSE
  OBVIOUS
<1>2. Bad \subseteq FiniteSubsetsOf(S)
  BY FS_Subset DEF FiniteSubsetsOf
<1>3. PICK s \in Bad : \A c \in Bad : ~ (c \subseteq s /\ c # s)
  <2> HIDE DEF Bad
  <2>1. QED
    BY <1>1, <1>2, SmallestSet
<1>4. SumOver(f, s) = IF s = {} THEN 0 ELSE f[Chosen(s)] + SumOver(f, s \ {Chosen(s)})
  BY <1>3, SumStep, FS_Subset
<1>5. s # {} => SumOver(f, s \ {Chosen(s)}) \in Nat /\ f[Chosen(s)] \in Nat
  BY <1>3, ChosenOfSet
<1>6. QED
  BY <1>3, <1>4, <1>5

\* Any member may be taken out first.
LEMMA SumTake ==
  ASSUME NEW f, NEW S, IsFiniteSet(S), \A x \in S : f[x] \in Nat, NEW x \in S
  PROVE  SumOver(f, S) = f[x] + SumOver(f, S \ {x})
<1> DEFINE Bad == {s \in SUBSET S : \E y \in s : SumOver(f, s) # f[y] + SumOver(f, s \ {y})}
<1>1. SUFFICES ASSUME Bad # {} PROVE FALSE
  OBVIOUS
<1>2. Bad \subseteq FiniteSubsetsOf(S)
  BY FS_Subset DEF FiniteSubsetsOf
<1>3. PICK s \in Bad : \A c \in Bad : ~ (c \subseteq s /\ c # s)
  <2> HIDE DEF Bad
  <2>1. QED
    BY <1>1, <1>2, SmallestSet
<1>4. PICK y \in s : SumOver(f, s) # f[y] + SumOver(f, s \ {y})
  BY <1>3
<1> DEFINE c == Chosen(s)
<1>5. c \in s /\ c # y /\ SumOver(f, s) = f[c] + SumOver(f, s \ {c})
  <2>1. SumOver(f, s) = f[c] + SumOver(f, s \ {c})
    BY <1>3, <1>4, SumStep, FS_Subset
  <2>2. QED
    BY <2>1, <1>4, ChosenOfSet
<1> HIDE DEF c
<1>6. s \ {c} \in SUBSET S /\ s \ {y} \in SUBSET S /\ s \ {c, y} \in SUBSET S
  BY <1>3
<1>7. SumOver(f, s \ {c}) = f[y] + SumOver(f, (s \ {c}) \ {y})
  BY <1>3, <1>4, <1>5, <1>6
<1>8. SumOver(f, s \ {y}) = f[c] + SumOver(f, (s \ {y}) \ {c})
  BY <1>3, <1>4, <1>5, <1>6
<1>9. /\ SumOver(f, (s \ {c}) \ {y}) = SumOver(f, s \ {c, y})
      /\ SumOver(f, (s \ {y}) \ {c}) = SumOver(f, s \ {c, y})
  <2>1. (s \ {c}) \ {y} = s \ {c, y} /\ (s \ {y}) \ {c} = s \ {c, y}
    OBVIOUS
  <2>2. QED
    BY <2>1
<1>10. SumOver(f, s \ {c, y}) \in Nat /\ f[c] \in Nat /\ f[y] \in Nat
  BY <1>3, <1>4, <1>5, <1>6, SumIsNatural, FS_Subset
<1>11. QED
  BY <1>4, <1>5, <1>7, <1>8, <1>9, <1>10

\* One summand more.
LEMMA SumAdd ==
  ASSUME NEW f, NEW S, IsFiniteSet(S), NEW x, x \notin S, \A y \in S \cup {x} : f[y] \in Nat
  PROVE  SumOver(f, S \cup {x}) = f[x] + SumOver(f, S)
<1>1. IsFiniteSet(S \cup {x}) /\ (S \cup {x}) \ {x} = S
  BY FS_AddElement
<1>2. QED
  BY <1>1, SumTake

\* Summands that are left out make a sum no larger.
LEMMA SumPart ==
  ASSUME NEW f, NEW S, IsFiniteSet(S), \A x \in S : f[x] \in Nat, NEW T \in SUBSET S
  PROVE  SumOver(f, T) <= SumOver(f, S)
<1> DEFINE Bad == {s \in SUBSET S : T \subseteq s /\ ~ SumOver(f, T) <= SumOver(f, s)}
<1>1. SUFFICES ASSUME Bad # {} PROVE FALSE
  OBVIOUS
<1>2. Bad \subseteq FiniteSubsetsOf(S)
  BY FS_Subset DEF FiniteSubsetsOf
<1>3. PICK s \in Bad : \A c \in Bad : ~ (c \subseteq s /\ c # s)
  <2> HIDE DEF Bad
  <2>1. QED
    BY <1>1, <1>2, SmallestSet
<1>4. SumOver(f, T) \in Nat /\ SumOver(f, s) \in Nat
  BY <1>3, SumIsNatural, FS_Subset
<1>5. PICK x \in s : x \notin T
  <2>1. T # s
    BY <1>3, <1>4
  <2>2. QED
    BY <2>1, <1>3
<1>6. SumOver(f, s) = f[x] + SumOver(f, s \ {x})
  BY <1>3, SumTake, FS_Subset
<1>7. SumOver(f, s \ {x}) \in Nat /\ f[x] \in Nat
  BY <1>3, SumIsNatural, FS_Subset
<1>8. SumOver(f, T) <= SumOver(f, s \ {x})
  BY <1>3, <1>5
<1>9. QED
  BY <1>3, <1>4, <1>6, <1>7, <1>8
=============================================================================
