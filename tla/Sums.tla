-------------------------------- MODULE Sums --------------------------------
(***************************************************************************)
(* Sums over finite sets.  SumFunctionOnSet is defined by recursion on the *)
(* set, so these facts need induction: SubsetInduction gives it for a set  *)
(* of subsets, from the well-foundedness of strict inclusion.              *)
(***************************************************************************)
EXTENDS Integers, FiniteSets, Functions, FiniteSetTheorems, TLAPS

\* The element the recursion takes from a set, and the recursion itself.
Taken(s) == CHOOSE x \in s : TRUE
Iterates(f, S, g) ==
  g = [s \in SUBSET S |-> IF s = {} THEN 0 ELSE f[Taken(s)] + g[s \ {Taken(s)}]]

\* A set of subsets that holds each subset whose proper subsets it holds has
\* them all.
LEMMA SubsetInduction ==
  ASSUME NEW S, IsFiniteSet(S), NEW Good,
         \A s \in SUBSET S : (\A u \in SUBSET s : u # s => u \in Good) => s \in Good
  PROVE  \A s \in SUBSET S : s \in Good
<1>1. SUFFICES ASSUME (SUBSET S) \ Good # {} PROVE FALSE
  OBVIOUS
<1>2. IsWellFoundedOn(StrictSubsetOrdering(S), SUBSET S)
  BY FS_StrictSubsetOrderingWellFounded, FS_FiniteSubsetsOfFinite
<1>3. PICK s \in (SUBSET S) \ Good :
         \A u \in (SUBSET S) \ Good : ~ (<<u, s>> \in StrictSubsetOrdering(S))
  <2>. DEFINE R == StrictSubsetOrdering(S)
              A == SUBSET S
              B == (SUBSET S) \ Good
  <2>1. IsWellFoundedOn(R, A) /\ B \subseteq A /\ B # {}
    BY <1>1, <1>2
  <2>2. \E s \in B : \A u \in B : ~ (<<u, s>> \in R)
    <3>. HIDE DEF R, A, B
    <3>. QED
      BY <2>1, WFMin
  <2>. QED
    BY <2>2
<1>4. \A u \in SUBSET s : u # s => u \in Good
  BY <1>3 DEF StrictSubsetOrdering
<1>. QED
  BY <1>3, <1>4

\* It is one of the set's.
LEMMA TakenIsIn == ASSUME NEW s, s # {} PROVE Taken(s) \in s
  BY DEF Taken

\* Two runs of the recursion agree where both are defined.
LEMMA IteratesAgree ==
  ASSUME NEW f, NEW S, NEW T, NEW g, NEW h, IsFiniteSet(S),
         Iterates(f, S, g), Iterates(f, T, h), S \subseteq T
  PROVE  \A s \in SUBSET S : g[s] = h[s]
<1>. DEFINE Good == {s \in SUBSET S : g[s] = h[s]}
<1>1. ASSUME NEW s \in SUBSET S, \A u \in SUBSET s : u # s => u \in Good
      PROVE  s \in Good
  <2>1. CASE s = {}
    BY <2>1 DEF Iterates
  <2>2. CASE s # {}
    <3>1. Taken(s) \in s
      BY <2>2, TakenIsIn
    <3>2. g[s \ {Taken(s)}] = h[s \ {Taken(s)}]
      BY <1>1, <3>1
    <3>. QED
      BY <2>2, <3>2 DEF Iterates
  <2>. QED
    BY <2>1, <2>2
<1>2. \A s \in SUBSET S : s \in Good
  <2>. HIDE DEF Good
  <2>. QED
    BY <1>1, SubsetInduction
<1>. QED
  BY <1>2

\* The recursion has a run.
LEMMA IteratesExists ==
  ASSUME NEW f, NEW S, IsFiniteSet(S)
  PROVE  \E g : Iterates(f, S, g)
<1>. DEFINE Good == {s \in SUBSET S : \E g : Iterates(f, s, g)}
            H(s) == CHOOSE g : Iterates(f, s, g)
<1>1. ASSUME NEW t \in SUBSET S, \A u \in SUBSET t : u # t => u \in Good
      PROVE  t \in Good
  <2>. DEFINE g == [s \in SUBSET t |->
                      IF s = {} THEN 0 ELSE f[Taken(s)] + H(s \ {Taken(s)})[s \ {Taken(s)}]]
  <2>1. \A u \in SUBSET t : u # t => Iterates(f, u, H(u))
    BY <1>1
  <2>2. ASSUME NEW s \in SUBSET t, s # {}
        PROVE  g[s \ {Taken(s)}] = H(s \ {Taken(s)})[s \ {Taken(s)}]
    <3>. DEFINE u == s \ {Taken(s)}
                v == u \ {Taken(u)}
    <3>1. u \in SUBSET t /\ u # t /\ Iterates(f, u, H(u))
      BY <2>1, <2>2, TakenIsIn
    <3>2. CASE u = {}
      BY <3>1, <3>2 DEF Iterates
    <3>3. CASE u # {}
      <4>1. v \in SUBSET t /\ v # t /\ v \subseteq u /\ Iterates(f, v, H(v)) /\ IsFiniteSet(v)
        BY <2>1, <3>1, <3>3, TakenIsIn, FS_Subset
      <4>2. H(v)[v] = H(u)[v]
        <5>. HIDE DEF H, v, u
        <5>. QED
          BY <3>1, <4>1, IteratesAgree
      <4>3. g[u] = f[Taken(u)] + H(v)[v]
        BY <3>1, <3>3
      <4>4. H(u)[u] = f[Taken(u)] + H(u)[v]
        <5>. HIDE DEF H
        <5>. QED
          BY <3>1, <3>3 DEF Iterates
      <4>. QED
        BY <4>2, <4>3, <4>4
    <3>. QED
      BY <3>2, <3>3
  <2>3. Iterates(f, t, g)
    <3>. HIDE DEF H
    <3>. QED
      BY <2>2 DEF Iterates
  <2>. QED
    BY <2>3
<1>2. \A s \in SUBSET S : s \in Good
  <2>. HIDE DEF Good
  <2>. QED
    BY <1>1, SubsetInduction
<1>. QED
  BY <1>2

\* A sum is where the recursion ends.
LEMMA SumIterates ==
  ASSUME NEW f, NEW S, IsFiniteSet(S)
  PROVE  \E g : Iterates(f, S, g) /\ SumFunctionOnSet(f, S) = g[S]
<1>. DEFINE P(g) == g = [s \in SUBSET S |->
                           IF s = {} THEN 0
                           ELSE f[CHOOSE x \in s : TRUE] + g[s \ {CHOOSE x \in s : TRUE}]]
<1>1. P(CHOOSE g : P(g))
  <2>1. PICK g : Iterates(f, S, g)
    BY IteratesExists
  <2>2. P(g)
    BY <2>1 DEF Iterates, Taken
  <2>. HIDE DEF P
  <2>. QED
    BY <2>2
<1>2. SumFunctionOnSet(f, S) = (CHOOSE g : P(g))[S]
  BY DEF SumFunctionOnSet, FoldFunctionOnSet, MapThenFoldSet
<1>. QED
  BY <1>1, <1>2 DEF Iterates, Taken

-----------------------------------------------------------------------------
(* The facts about sums that proofs use. *)

\* The sum over no elements.
LEMMA SumEmpty == ASSUME NEW f PROVE SumFunctionOnSet(f, {}) = 0
<1>1. IsFiniteSet({})
  BY FS_EmptySet
<1>2. PICK g : Iterates(f, {}, g) /\ SumFunctionOnSet(f, {}) = g[{}]
  BY <1>1, SumIterates
<1>. QED
  BY <1>2 DEF Iterates

\* One step of the recursion.
LEMMA SumStep ==
  ASSUME NEW f, NEW S, IsFiniteSet(S), S # {}
  PROVE  /\ Taken(S) \in S /\ IsFiniteSet(S \ {Taken(S)})
         /\ SumFunctionOnSet(f, S) = f[Taken(S)] + SumFunctionOnSet(f, S \ {Taken(S)})
<1>. DEFINE R == S \ {Taken(S)}
<1>1. Taken(S) \in S
  BY TakenIsIn
<1>2. IsFiniteSet(R) /\ R \subseteq S
  BY FS_Subset
<1>3. PICK g : Iterates(f, S, g) /\ SumFunctionOnSet(f, S) = g[S]
  BY SumIterates
<1>4. PICK h : Iterates(f, R, h) /\ SumFunctionOnSet(f, R) = h[R]
  <2>. HIDE DEF R
  <2>. QED
    BY <1>2, SumIterates
<1>5. h[R] = g[R]
  <2>. HIDE DEF R
  <2>. QED
    BY <1>2, <1>3, <1>4, IteratesAgree
<1>6. g[S] = f[Taken(S)] + g[R]
  BY <1>3 DEF Iterates
<1>. QED
  BY <1>1, <1>2, <1>3, <1>4, <1>5, <1>6

\* A sum of naturals is a natural.
LEMMA SumNat ==
  ASSUME NEW f, NEW S, IsFiniteSet(S), \A x \in S : f[x] \in Nat
  PROVE  SumFunctionOnSet(f, S) \in Nat
<1>. DEFINE Good == {s \in SUBSET S : SumFunctionOnSet(f, s) \in Nat}
<1>1. ASSUME NEW s \in SUBSET S, \A u \in SUBSET s : u # s => u \in Good
      PROVE  s \in Good
  <2>1. CASE s = {}
    BY <2>1, SumEmpty
  <2>2. CASE s # {}
    <3>1. IsFiniteSet(s)
      BY FS_Subset
    <3>2. /\ Taken(s) \in s
          /\ SumFunctionOnSet(f, s) = f[Taken(s)] + SumFunctionOnSet(f, s \ {Taken(s)})
      BY <2>2, <3>1, SumStep
    <3>3. SumFunctionOnSet(f, s \ {Taken(s)}) \in Nat /\ f[Taken(s)] \in Nat
      BY <1>1, <3>2
    <3>. QED
      BY <3>2, <3>3
  <2>. QED
    BY <2>1, <2>2
<1>2. \A s \in SUBSET S : s \in Good
  <2>. HIDE DEF Good
  <2>. QED
    BY <1>1, SubsetInduction
<1>. QED
  BY <1>2

\* Functions that agree on a set have the same sum over it.
LEMMA SumSame ==
  ASSUME NEW f, NEW g, NEW S, IsFiniteSet(S), \A x \in S : f[x] = g[x]
  PROVE  SumFunctionOnSet(f, S) = SumFunctionOnSet(g, S)
<1>. DEFINE Good == {s \in SUBSET S : SumFunctionOnSet(f, s) = SumFunctionOnSet(g, s)}
<1>1. ASSUME NEW s \in SUBSET S, \A u \in SUBSET s : u # s => u \in Good
      PROVE  s \in Good
  <2>1. CASE s = {}
    BY <2>1, SumEmpty
  <2>2. CASE s # {}
    <3>1. IsFiniteSet(s)
      BY FS_Subset
    <3>2. /\ Taken(s) \in s
          /\ SumFunctionOnSet(f, s) = f[Taken(s)] + SumFunctionOnSet(f, s \ {Taken(s)})
          /\ SumFunctionOnSet(g, s) = g[Taken(s)] + SumFunctionOnSet(g, s \ {Taken(s)})
      BY <2>2, <3>1, SumStep
    <3>3. SumFunctionOnSet(f, s \ {Taken(s)}) = SumFunctionOnSet(g, s \ {Taken(s)})
      BY <1>1, <3>2
    <3>. QED
      BY <3>2, <3>3
  <2>. QED
    BY <2>1, <2>2
<1>2. \A s \in SUBSET S : s \in Good
  <2>. HIDE DEF Good
  <2>. QED
    BY <1>1, SubsetInduction
<1>. QED
  BY <1>2

\* Any element can be taken out of a sum first.
LEMMA SumRemove ==
  ASSUME NEW f, NEW S, IsFiniteSet(S), \A x \in S : f[x] \in Nat, NEW x \in S
  PROVE  SumFunctionOnSet(f, S) = f[x] + SumFunctionOnSet(f, S \ {x})
<1>. DEFINE Good == {s \in SUBSET S : \A y \in s : SumFunctionOnSet(f, s) = f[y] + SumFunctionOnSet(f, s \ {y})}
<1>1. ASSUME NEW s \in SUBSET S, \A u \in SUBSET s : u # s => u \in Good
      PROVE  s \in Good
  <2>1. SUFFICES ASSUME NEW y \in s
                 PROVE  SumFunctionOnSet(f, s) = f[y] + SumFunctionOnSet(f, s \ {y})
    OBVIOUS
  <2>. DEFINE t == Taken(s)
              r == (s \ {t}) \ {y}
  <2>2. IsFiniteSet(s) /\ s # {}
    BY FS_Subset
  <2>3. /\ t \in s
        /\ SumFunctionOnSet(f, s) = f[t] + SumFunctionOnSet(f, s \ {t})
    BY <2>2, SumStep
  <2>4. CASE y = t
    BY <2>3, <2>4
  <2>5. CASE y # t
    <3>1. s \ {t} \in Good /\ s \ {y} \in Good
      BY <1>1, <2>3
    <3>2. SumFunctionOnSet(f, s \ {t}) = f[y] + SumFunctionOnSet(f, r)
      BY <2>5, <3>1
    <3>3. (s \ {y}) \ {t} = r
      OBVIOUS
    <3>4. SumFunctionOnSet(f, s \ {y}) = f[t] + SumFunctionOnSet(f, (s \ {y}) \ {t})
      BY <2>3, <2>5, <3>1
    <3>5. SumFunctionOnSet(f, r) \in Nat
      <4>1. IsFiniteSet(r) /\ \A z \in r : f[z] \in Nat
        BY <2>2, FS_Subset
      <4>. QED
        BY <4>1, SumNat
    <3>6. f[y] \in Nat /\ f[t] \in Nat
      BY <2>3
    <3>. HIDE DEF r, t
    <3>. QED
      BY <2>3, <3>2, <3>3, <3>4, <3>5, <3>6
  <2>. QED
    BY <2>4, <2>5
<1>2. \A s \in SUBSET S : s \in Good
  <2>. HIDE DEF Good
  <2>. QED
    BY <1>1, SubsetInduction
<1>. QED
  BY <1>2

\* Changing the value at one element changes the sum by as much.
LEMMA SumChange ==
  ASSUME NEW f, NEW g, NEW S, IsFiniteSet(S), NEW x \in S,
         \A y \in S : f[y] \in Nat /\ g[y] \in Nat,
         \A y \in S \ {x} : f[y] = g[y]
  PROVE  SumFunctionOnSet(g, S) = SumFunctionOnSet(f, S) - f[x] + g[x]
<1>1. IsFiniteSet(S \ {x})
  BY FS_Subset
<1>2. /\ SumFunctionOnSet(f, S) = f[x] + SumFunctionOnSet(f, S \ {x})
      /\ SumFunctionOnSet(g, S) = g[x] + SumFunctionOnSet(g, S \ {x})
  BY SumRemove
<1>3. SumFunctionOnSet(f, S \ {x}) = SumFunctionOnSet(g, S \ {x})
  BY <1>1, SumSame
<1>4. SumFunctionOnSet(f, S \ {x}) \in Nat
  BY <1>1, SumNat
<1>. QED
  BY <1>2, <1>3, <1>4

\* A sum of zeros is zero.
LEMMA SumZero ==
  ASSUME NEW f, NEW S, IsFiniteSet(S), \A x \in S : f[x] = 0
  PROVE  SumFunctionOnSet(f, S) = 0
<1>. DEFINE Good == {s \in SUBSET S : SumFunctionOnSet(f, s) = 0}
<1>1. ASSUME NEW s \in SUBSET S, \A u \in SUBSET s : u # s => u \in Good
      PROVE  s \in Good
  <2>1. CASE s = {}
    BY <2>1, SumEmpty
  <2>2. CASE s # {}
    <3>1. IsFiniteSet(s)
      BY FS_Subset
    <3>2. /\ Taken(s) \in s
          /\ SumFunctionOnSet(f, s) = f[Taken(s)] + SumFunctionOnSet(f, s \ {Taken(s)})
      BY <2>2, <3>1, SumStep
    <3>3. SumFunctionOnSet(f, s \ {Taken(s)}) = 0 /\ f[Taken(s)] = 0
      BY <1>1, <3>2
    <3>. QED
      BY <3>2, <3>3
  <2>. QED
    BY <2>1, <2>2
<1>2. \A s \in SUBSET S : s \in Good
  <2>. HIDE DEF Good
  <2>. QED
    BY <1>1, SubsetInduction
<1>. QED
  BY <1>2

\* A sum of smaller terms is smaller, and equal only if every term is.
LEMMA SumOrder ==
  ASSUME NEW f, NEW g, NEW S, IsFiniteSet(S),
         \A x \in S : f[x] \in Nat /\ g[x] \in Nat /\ f[x] <= g[x]
  PROVE  /\ SumFunctionOnSet(f, S) <= SumFunctionOnSet(g, S)
         /\ SumFunctionOnSet(f, S) = SumFunctionOnSet(g, S) => \A x \in S : f[x] = g[x]
<1>. DEFINE Good == {s \in SUBSET S : SumFunctionOnSet(f, s) <= SumFunctionOnSet(g, s)}
<1>0. ASSUME NEW s \in SUBSET S
      PROVE  IsFiniteSet(s) /\ SumFunctionOnSet(f, s) \in Nat /\ SumFunctionOnSet(g, s) \in Nat
  <2>1. IsFiniteSet(s)
    BY FS_Subset
  <2>. QED
    BY <2>1, SumNat
<1>1. ASSUME NEW s \in SUBSET S, \A u \in SUBSET s : u # s => u \in Good
      PROVE  s \in Good
  <2>1. CASE s = {}
    BY <2>1, SumEmpty
  <2>2. CASE s # {}
    <3>1. /\ Taken(s) \in s
          /\ SumFunctionOnSet(f, s) = f[Taken(s)] + SumFunctionOnSet(f, s \ {Taken(s)})
          /\ SumFunctionOnSet(g, s) = g[Taken(s)] + SumFunctionOnSet(g, s \ {Taken(s)})
      BY <1>0, <2>2, SumStep
    <3>2. SumFunctionOnSet(f, s \ {Taken(s)}) <= SumFunctionOnSet(g, s \ {Taken(s)})
      BY <1>1, <3>1
    <3>3. /\ SumFunctionOnSet(f, s \ {Taken(s)}) \in Nat
          /\ SumFunctionOnSet(g, s \ {Taken(s)}) \in Nat
      BY <1>0
    <3>. QED
      BY <3>1, <3>2, <3>3
  <2>. QED
    BY <2>1, <2>2
<1>2. \A s \in SUBSET S : s \in Good
  <2>. HIDE DEF Good
  <2>. QED
    BY <1>1, SubsetInduction
<1>3. ASSUME SumFunctionOnSet(f, S) = SumFunctionOnSet(g, S), NEW x \in S
      PROVE  f[x] = g[x]
  <2>1. /\ SumFunctionOnSet(f, S) = f[x] + SumFunctionOnSet(f, S \ {x})
        /\ SumFunctionOnSet(g, S) = g[x] + SumFunctionOnSet(g, S \ {x})
    BY SumRemove
  <2>2. SumFunctionOnSet(f, S \ {x}) <= SumFunctionOnSet(g, S \ {x})
    BY <1>2
  <2>3. SumFunctionOnSet(f, S \ {x}) \in Nat /\ SumFunctionOnSet(g, S \ {x}) \in Nat
    BY <1>0
  <2>4. f[x] \in Nat /\ g[x] \in Nat /\ f[x] <= g[x]
    OBVIOUS
  <2>5. ASSUME NEW a \in Nat, NEW b \in Nat, NEW c \in Nat, NEW d \in Nat,
               a + b = c + d, a <= c, b <= d
        PROVE  a = c
    BY <2>5
  <2>6. f[x] + SumFunctionOnSet(f, S \ {x}) = g[x] + SumFunctionOnSet(g, S \ {x})
    BY <1>3, <2>1
  <2>. QED
    BY <2>2, <2>3, <2>4, <2>5, <2>6
<1>. QED
  BY <1>2, <1>3

\* Renaming the elements one to one does not change a sum.
LEMMA SumRenamed ==
  ASSUME NEW S, IsFiniteSet(S), NEW p, \A x, y \in S : p[x] = p[y] => x = y,
         NEW f, \A x \in S : f[p[x]] \in Nat
  PROVE  SumFunctionOnSet([x \in S |-> f[p[x]]], S) = SumFunctionOnSet(f, {p[x] : x \in S})
<1>. DEFINE g == [x \in S |-> f[p[x]]]
            Good == {s \in SUBSET S : SumFunctionOnSet(g, s) = SumFunctionOnSet(f, {p[x] : x \in s})}
<1>1. ASSUME NEW s \in SUBSET S, \A u \in SUBSET s : u # s => u \in Good
      PROVE  s \in Good
  <2>1. CASE s = {}
    BY <2>1, SumEmpty
  <2>2. CASE s # {}
    <3>. DEFINE t == Taken(s)
                r == s \ {t}
                image == {p[x] : x \in s}
    <3>1. IsFiniteSet(s)
      BY FS_Subset
    <3>2. t \in s /\ SumFunctionOnSet(g, s) = g[t] + SumFunctionOnSet(g, r)
      BY <2>2, <3>1, SumStep
    <3>3. SumFunctionOnSet(g, r) = SumFunctionOnSet(f, {p[x] : x \in r})
      BY <1>1, <3>2
    <3>4. IsFiniteSet(image) /\ p[t] \in image /\ \A z \in image : f[z] \in Nat
      <4>1. IsFiniteSet(image)
        <5>1. [x \in s |-> p[x]] \in Surjection(s, image)
          BY DEF Surjection
        <5>. HIDE DEF image
        <5>. QED
          BY <3>1, <5>1, FS_Surjection
      <4>. QED
        BY <3>2, <4>1
    <3>5. SumFunctionOnSet(f, image) = f[p[t]] + SumFunctionOnSet(f, image \ {p[t]})
      <4>. HIDE DEF image, t
      <4>. QED
        BY <3>4, SumRemove
    <3>6. image \ {p[t]} = {p[x] : x \in r}
      BY <3>2
    <3>. QED
      BY <3>2, <3>3, <3>5, <3>6
  <2>. QED
    BY <2>1, <2>2
<1>2. \A s \in SUBSET S : s \in Good
  <2>. HIDE DEF Good
  <2>. QED
    BY <1>1, SubsetInduction
<1>. QED
  BY <1>2
=============================================================================
