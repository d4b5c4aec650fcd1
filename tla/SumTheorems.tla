---------------------------- MODULE SumTheorems ----------------------------
(***************************************************************************)
(* What SumFunction of module Functions adds up to, for sequences of       *)
(* numbers of any length.  It is defined by recursion over sets, and the   *)
(* induction theorems of the library are stated for an operator; here      *)
(* induction is a statement about sets, a smallest counterexample, so that *)
(* a property of every number or every finite set is the set of those that *)
(* have it.                                                                *)
(***************************************************************************)
EXTENDS Integers, Functions, FiniteSetTheorems, WellFoundedInduction,
        SequenceTheorems, TLAPS

-----------------------------------------------------------------------------
(* Induction *)

\* The order of the natural numbers, as a relation.
Below == {ss \in Nat \X Nat : ss[1] < ss[2]}

\* It is well founded.
LEMMA BelowIsWellFounded == IsWellFoundedOn(Below, Nat)
  BY NatLessThanWellFounded DEF OpToRel, Below

\* A set of numbers has a least element.
LEMMA LeastNumber ==
  ASSUME NEW S \in SUBSET Nat, S # {}
  PROVE  \E n \in S : \A m \in S : n <= m
<1>1. \E x \in S : \A y \in S : ~(<<y, x>> \in Below)
  BY WFMin, BelowIsWellFounded
<1>2. ASSUME NEW x \in Nat, NEW y \in Nat, y < x PROVE <<y, x>> \in Below
  BY <1>2 DEF Below
<1>3. PICK n \in S : \A m \in S : ~(<<m, n>> \in Below)
  BY <1>1
<1>4. ASSUME NEW m \in S PROVE n <= m
  <2>1. n \in Nat /\ m \in Nat
    OBVIOUS
  <2>2. ~(m < n)
    BY <1>2, <1>3, <2>1, Zenon
  <2>. QED
    BY <2>1, <2>2
<1>. QED
  BY <1>4

\* Induction: what holds of 0 and goes from n to n + 1 holds of every number.
LEMMA NumberInduction ==
  ASSUME NEW S, 0 \in S, \A n \in Nat : n \in S => n + 1 \in S
  PROVE  Nat \subseteq S
<1>. DEFINE T == Nat \ S
<1>. SUFFICES ASSUME T # {} PROVE FALSE
  OBVIOUS
<1>1. PICK n \in T : \A m \in T : n <= m
  BY LeastNumber
<1>2. n - 1 \in Nat /\ n - 1 \notin T
  BY <1>1
<1>. QED
  BY <1>1, <1>2

\* Induction over finite sets: what holds of a set whenever it holds of its
\* proper subsets holds of every finite set.
LEMMA SetInduction ==
  ASSUME NEW D, IsFiniteSet(D), NEW Q,
         \A S \in SUBSET D : (\A T \in SUBSET S : T # S => T \in Q) => S \in Q
  PROVE  SUBSET D \subseteq Q
<1>. DEFINE bad == (SUBSET D) \ Q
            sizes == {Cardinality(S) : S \in bad}
<1>. SUFFICES ASSUME bad # {} PROVE FALSE
  OBVIOUS
<1>0. \A S \in SUBSET D : IsFiniteSet(S) /\ Cardinality(S) \in Nat
  BY FS_Subset, FS_CardinalityType
<1>1. sizes \in SUBSET Nat /\ sizes # {}
  BY <1>0
<1>2. PICK n \in sizes : \A m \in sizes : n <= m
  BY <1>1, LeastNumber
<1>3. PICK S \in bad : Cardinality(S) = n
  OBVIOUS
<1>4. PICK T \in SUBSET S : T # S /\ T \notin Q
  OBVIOUS
<1>5. Cardinality(T) \in sizes
  BY <1>4
<1>6. n <= Cardinality(T)
  BY <1>2, <1>5
<1>7. /\ Cardinality(T) <= Cardinality(S)
      /\ Cardinality(S) = Cardinality(T) => S = T
  BY <1>0, FS_Subset
<1>8. Cardinality(S) \in Nat /\ Cardinality(T) \in Nat
  BY <1>0
<1>. QED
  BY <1>3, <1>4, <1>6, <1>7, <1>8

-----------------------------------------------------------------------------
(* Sums over finite sets *)

\* The element that comes first, and the function that SumFunctionOnSet chooses.
Some(s) == CHOOSE x \in s : TRUE
IsSum(g, f, S) ==
  g = [s \in SUBSET S |-> IF s = {} THEN 0 ELSE f[Some(s)] + g[s \ {Some(s)}]]

\* The definition, with the folds of the community modules expanded.
LEMMA SumIsChosen ==
  ASSUME NEW f, NEW S
  PROVE  SumFunctionOnSet(f, S) = (CHOOSE g : IsSum(g, f, S))[S]
BY DEF SumFunctionOnSet, FoldFunctionOnSet, MapThenFoldSet, IsSum, Some

\* A set without its first element is smaller.
LEMMA Smaller ==
  ASSUME NEW S, IsFiniteSet(S), S # {}
  PROVE  /\ Some(S) \in S /\ IsFiniteSet(S \ {Some(S)})
         /\ Cardinality(S) \in Nat \ {0}
         /\ Cardinality(S \ {Some(S)}) = Cardinality(S) - 1
<1>1. Some(S) \in S
  BY DEF Some
<1>. QED
  BY <1>1, FS_RemoveElement, FS_CardinalityType, FS_EmptySet

\* What the equation of the chosen function says of a set and its subsets.
LEMMA SumAt ==
  ASSUME NEW f, NEW S, NEW g, IsSum(g, f, S)
  PROVE  /\ g[{}] = 0
         /\ \A s \in SUBSET S : s # {} =>
              /\ g[s] = f[Some(s)] + g[s \ {Some(s)}]
              /\ s \ {Some(s)} \in SUBSET s /\ s \ {Some(s)} # s
<1>1. ASSUME NEW s \in SUBSET S, s # {} PROVE Some(s) \in s
  BY <1>1 DEF Some
<1>2. \A s \in SUBSET S : g[s] = IF s = {} THEN 0 ELSE f[Some(s)] + g[s \ {Some(s)}]
  BY DEF IsSum
<1>. QED
  BY <1>1, <1>2

\* Two such functions agree where both are defined.
LEMMA SumUnique ==
  ASSUME NEW f, NEW S, NEW T, NEW D, D \subseteq S, D \subseteq T, IsFiniteSet(D),
         NEW g, NEW h, IsSum(g, f, S), IsSum(h, f, T)
  PROVE  g[D] = h[D]
<1>. DEFINE Q == {s \in SUBSET D : g[s] = h[s]}
<1>0. ASSUME NEW U, D \subseteq U, NEW k, IsSum(k, f, U), NEW s \in SUBSET D, s # {}
      PROVE  k[s] = f[Some(s)] + k[s \ {Some(s)}]
  BY <1>0, SumAt
<1>1. ASSUME NEW s \in SUBSET D, \A t \in SUBSET s : t # s => t \in Q
      PROVE  s \in Q
  <2>1. s \in SUBSET S /\ s \in SUBSET T
    OBVIOUS
  <2>2. CASE s = {}
    BY <2>2, SumAt
  <2>3. CASE s # {}
    <3>1. /\ g[s] = f[Some(s)] + g[s \ {Some(s)}]
          /\ s \ {Some(s)} \in SUBSET s /\ s \ {Some(s)} # s
      BY <2>1, <2>3, SumAt
    <3>2. h[s] = f[Some(s)] + h[s \ {Some(s)}]
      BY <1>0, <2>3
    <3>3. s \ {Some(s)} \in Q
      BY <1>1, <3>1
    <3>. QED
      BY <3>1, <3>2, <3>3
  <2>. QED
    BY <2>2, <2>3
<1>. HIDE DEF Q
<1>2. SUBSET D \subseteq Q
  BY <1>1, SetInduction
<1>. QED
  BY <1>2 DEF Q

\* There is one for every finite set, so that the choice is a choice of it.
LEMMA SumExists ==
  ASSUME NEW f, NEW D, IsFiniteSet(D)
  PROVE  \E g : IsSum(g, f, D)
<1>. DEFINE Q == {s \in SUBSET D : \E g : IsSum(g, f, s)}
<1>1. ASSUME NEW s \in SUBSET D, \A t \in SUBSET s : t # s => t \in Q
      PROVE  s \in Q
  <2>. DEFINE at(t) == SumFunctionOnSet(f, t)
              g == [t \in SUBSET s |-> IF t = {} THEN 0
                                       ELSE f[Some(t)] + at(t \ {Some(t)})]
  <2>1. ASSUME NEW t \in SUBSET s, t # s
        PROVE  g[t] = at(t)
    <3>1. \E h : IsSum(h, f, t)
      BY <1>1, <2>1
    <3>. DEFINE c == CHOOSE h : IsSum(h, f, t)
                r == t \ {Some(t)}
    <3>2. IsSum(c, f, t) /\ at(t) = c[t]
      BY <3>1, SumIsChosen
    <3>3. CASE t = {}
      BY <3>2, <3>3, SumAt
    <3>4. CASE t # {}
      <4>1. c[t] = f[Some(t)] + c[r] /\ r \in SUBSET t /\ r # t
        BY <3>2, <3>4, SumAt
      <4>2. \E h : IsSum(h, f, r)
        BY <1>1, <4>1
      <4>. DEFINE d == CHOOSE h : IsSum(h, f, r)
      <4>3. IsSum(d, f, r) /\ at(r) = d[r]
        BY <4>2, SumIsChosen
      <4>4. IsFiniteSet(r)
        BY <4>1, FS_Subset
      <4>. HIDE DEF c, d, r
      <4>5. c[r] = d[r]
        BY <3>2, <4>1, <4>3, <4>4, SumUnique
      <4>. QED
        BY <3>2, <3>4, <4>1, <4>3, <4>5 DEF r
    <3>. QED
      BY <3>3, <3>4
  <2>2. IsSum(g, f, s)
    <3>1. ASSUME NEW t \in SUBSET s, t # {}
          PROVE  t \ {Some(t)} \in SUBSET s /\ t \ {Some(t)} # s
      BY <3>1 DEF Some
    <3>2. \A t \in SUBSET s : t # {} => at(t \ {Some(t)}) = g[t \ {Some(t)}]
      BY <2>1, <3>1
    <3>. HIDE DEF at
    <3>. QED
      BY <3>2 DEF IsSum
  <2>. QED
    BY <2>2
<1>. HIDE DEF Q
<1>2. SUBSET D \subseteq Q
  BY <1>1, SetInduction
<1>. QED
  BY <1>2 DEF Q

\* The sum of a set is its first summand and the sum of the rest.
LEMMA SumOfSet ==
  ASSUME NEW f, NEW S, IsFiniteSet(S)
  PROVE  SumFunctionOnSet(f, S) =
           IF S = {} THEN 0
           ELSE f[Some(S)] + SumFunctionOnSet(f, S \ {Some(S)})
<1>. DEFINE r == S \ {Some(S)}
            c == CHOOSE h : IsSum(h, f, S)
            d == CHOOSE h : IsSum(h, f, r)
<1>1. IsSum(c, f, S) /\ SumFunctionOnSet(f, S) = c[S]
  BY SumExists, SumIsChosen
<1>2. CASE S = {}
  BY <1>1, <1>2, SumAt
<1>3. CASE S # {}
  <2>1. c[S] = f[Some(S)] + c[r] /\ r \in SUBSET S
    BY <1>1, <1>3, SumAt
  <2>2. IsFiniteSet(r)
    BY <2>1, FS_Subset
  <2>3. IsSum(d, f, r) /\ SumFunctionOnSet(f, r) = d[r]
    BY <2>2, SumExists, SumIsChosen
  <2>. HIDE DEF c, d, r
  <2>4. c[r] = d[r]
    BY <1>1, <2>1, <2>2, <2>3, SumUnique
  <2>. QED
    BY <1>1, <1>3, <2>1, <2>3, <2>4 DEF r
<1>. QED
  BY <1>2, <1>3

\* The sum of natural numbers is one.
LEMMA SumIsNatural ==
  ASSUME NEW f, NEW D, IsFiniteSet(D), \A x \in D : f[x] \in Nat
  PROVE  SumFunctionOnSet(f, D) \in Nat
<1>. DEFINE Q == {s \in SUBSET D : SumFunctionOnSet(f, s) \in Nat}
<1>1. ASSUME NEW s \in SUBSET D, \A t \in SUBSET s : t # s => t \in Q
      PROVE  s \in Q
  <2>1. IsFiniteSet(s)
    BY FS_Subset
  <2>2. CASE s = {}
    <3>1. SumFunctionOnSet(f, s) = 0
      BY <2>1, <2>2, SumOfSet
    <3>. QED
      BY <3>1
  <2>3. CASE s # {}
    <3>1. Some(s) \in s
      BY <2>1, <2>3, Smaller
    <3>2. s \ {Some(s)} \in Q
      BY <1>1, <3>1
    <3>3. SumFunctionOnSet(f, s) = f[Some(s)] + SumFunctionOnSet(f, s \ {Some(s)})
      BY <2>1, <2>3, SumOfSet
    <3>4. f[Some(s)] \in Nat
      BY <3>1
    <3>. QED
      BY <3>2, <3>3, <3>4
  <2>. QED
    BY <2>2, <2>3
<1>. HIDE DEF Q
<1>2. SUBSET D \subseteq Q
  BY <1>1, SetInduction
<1>. QED
  BY <1>2 DEF Q

\* The order in which elements are added does not matter.
LEMMA SumOfAny ==
  ASSUME NEW f, NEW D, IsFiniteSet(D), \A x \in D : f[x] \in Nat, NEW e \in D
  PROVE  SumFunctionOnSet(f, D) = f[e] + SumFunctionOnSet(f, D \ {e})
<1>. DEFINE at(t) == SumFunctionOnSet(f, t)
            Q == {s \in SUBSET D : \A x \in s : at(s) = f[x] + at(s \ {x})}
<1>1. ASSUME NEW s \in SUBSET D, \A t \in SUBSET s : t # s => t \in Q
      PROVE  s \in Q
  <2>. SUFFICES ASSUME NEW x \in s PROVE at(s) = f[x] + at(s \ {x})
    OBVIOUS
  <2>. DEFINE c == Some(s)
  <2>1. /\ IsFiniteSet(s) /\ IsFiniteSet(s \ {x}) /\ IsFiniteSet(s \ {c})
        /\ IsFiniteSet((s \ {x}) \ {c})
    BY FS_Subset
  <2>2. c \in s
    BY <2>1, Smaller
  <2>3. at(s) = f[c] + at(s \ {c})
    BY <2>1, SumOfSet
  <2>4. CASE x = c
    BY <2>3, <2>4
  <2>5. CASE x # c
    <3>1. s \ {x} \in Q /\ s \ {c} \in Q
      BY <1>1, <2>2
    <3>2. at(s \ {c}) = f[x] + at((s \ {c}) \ {x})
      BY <2>5, <3>1
    <3>3. at(s \ {x}) = f[c] + at((s \ {x}) \ {c})
      BY <2>2, <2>5, <3>1
    <3>4. (s \ {c}) \ {x} = (s \ {x}) \ {c}
      OBVIOUS
    <3>5. at((s \ {x}) \ {c}) \in Nat
      BY <2>1, SumIsNatural
    <3>6. f[x] \in Nat /\ f[c] \in Nat
      BY <2>2
    <3>. HIDE DEF at, c
    <3>7. at((s \ {c}) \ {x}) = at((s \ {x}) \ {c})
      BY <3>4, Zenon
    <3>. QED
      BY <2>3, <3>2, <3>3, <3>5, <3>6, <3>7
  <2>. QED
    BY <2>4, <2>5
<1>. HIDE DEF Q
<1>2. SUBSET D \subseteq Q
  BY <1>1, SetInduction
<1>. QED
  BY <1>2 DEF Q

\* Only the summands count.
LEMMA SumOfEqual ==
  ASSUME NEW f, NEW g, NEW D, IsFiniteSet(D), \A x \in D : f[x] = g[x]
  PROVE  SumFunctionOnSet(f, D) = SumFunctionOnSet(g, D)
<1>. DEFINE Q == {s \in SUBSET D : SumFunctionOnSet(f, s) = SumFunctionOnSet(g, s)}
<1>1. ASSUME NEW s \in SUBSET D, \A t \in SUBSET s : t # s => t \in Q
      PROVE  s \in Q
  <2>1. IsFiniteSet(s)
    BY FS_Subset
  <2>2. CASE s = {}
    BY <2>1, <2>2, SumOfSet
  <2>3. CASE s # {}
    <3>1. Some(s) \in s
      BY <2>1, <2>3, Smaller
    <3>2. s \ {Some(s)} \in Q
      BY <1>1, <3>1
    <3>3. SumFunctionOnSet(f, s) = f[Some(s)] + SumFunctionOnSet(f, s \ {Some(s)})
      BY <2>1, <2>3, SumOfSet
    <3>4. SumFunctionOnSet(g, s) = g[Some(s)] + SumFunctionOnSet(g, s \ {Some(s)})
      BY <2>1, <2>3, SumOfSet
    <3>5. f[Some(s)] = g[Some(s)]
      BY <3>1
    <3>. QED
      BY <3>2, <3>3, <3>4, <3>5
  <2>. QED
    BY <2>2, <2>3
<1>. HIDE DEF Q
<1>2. SUBSET D \subseteq Q
  BY <1>1, SetInduction
<1>. QED
  BY <1>2 DEF Q

-----------------------------------------------------------------------------
(* Sums of sequences *)

\* The elements are added position by position.
LEMMA SumOfSeq ==
  ASSUME NEW s \in Seq(Nat)
  PROVE  /\ SumFunction(s) \in Nat
         /\ SumFunction(s) = SumFunctionOnSet(s, 1..Len(s))
<1>1. DOMAIN s = 1..Len(s) /\ \A i \in 1..Len(s) : s[i] \in Nat
  OBVIOUS
<1>2. IsFiniteSet(1..Len(s))
  BY FS_Interval
<1>3. SumFunctionOnSet(s, 1..Len(s)) \in Nat
  BY <1>1, <1>2, SumIsNatural
<1>. QED
  BY <1>1, <1>3 DEF SumFunction

\* An empty sequence adds up to nothing.
LEMMA SumOfEmpty == SumFunction(<<>>) = 0
<1>1. DOMAIN <<>> = {}
  BY EmptySeq
<1>2. SumFunctionOnSet(<<>>, {}) = 0
  BY SumOfSet, FS_EmptySet
<1>. QED
  BY <1>1, <1>2 DEF SumFunction

\* An initial segment of positions.
LEMMA FirstPositions ==
  ASSUME NEW n \in Nat
  PROVE  IsFiniteSet(1..n) /\ n + 1 \in 1..(n + 1) /\ (1..(n + 1)) \ {n + 1} = 1..n
<1>1. 1 \in Int /\ n \in Int
  OBVIOUS
<1>2. IsFiniteSet(1..n)
  BY <1>1, FS_Interval, Zenon
<1>3. n + 1 \in 1..(n + 1) /\ (1..(n + 1)) \ {n + 1} = 1..n
  OBVIOUS
<1>. QED
  BY <1>2, <1>3

\* The sum of the first n + 1 elements.
LEMMA SumUpTo ==
  ASSUME NEW s \in Seq(Nat), NEW n \in Nat, n + 1 <= Len(s)
  PROVE  SumFunctionOnSet(s, 1..(n + 1)) = s[n + 1] + SumFunctionOnSet(s, 1..n)
<1>. DEFINE D == 1..(n + 1)
<1>1. n + 1 \in Nat /\ D \subseteq 1..Len(s)
  OBVIOUS
<1>2. IsFiniteSet(D) /\ n + 1 \in D /\ D \ {n + 1} = 1..n
  BY <1>1, FirstPositions
<1>3. \A i \in D : s[i] \in Nat
  BY <1>1
<1>. HIDE DEF D
<1>4. SumFunctionOnSet(s, D) = s[n + 1] + SumFunctionOnSet(s, D \ {n + 1})
  BY <1>2, <1>3, SumOfAny
<1>. QED
  BY <1>2, <1>4 DEF D

\* The sum of two sequences, one behind the other.
LEMMA SumOfConcat ==
  ASSUME NEW s \in Seq(Nat), NEW t \in Seq(Nat)
  PROVE  SumFunction(s \o t) = SumFunction(s) + SumFunction(t)
<1>. DEFINE u == s \o t
            upto(n) == SumFunctionOnSet(u, 1..(Len(s) + n))
            of(n) == SumFunctionOnSet(t, 1..n)
            Q == {n \in Nat : n <= Len(t) => upto(n) = SumFunction(s) + of(n)}
<1>1. /\ u \in Seq(Nat) /\ Len(u) = Len(s) + Len(t)
      /\ \A i \in 1..Len(s) : u[i] = s[i]
      /\ \A i \in 1..Len(t) : u[Len(s) + i] = t[i]
  OBVIOUS
<1>. HIDE DEF u
<1>2. Len(s) \in Nat /\ Len(t) \in Nat
  OBVIOUS
<1>3. 0 \in Q
  <2>1. 1..(Len(s) + 0) = 1..Len(s) /\ 1..0 = {} /\ IsFiniteSet(1..Len(s))
    BY <1>2, FS_Interval
  <2>2. SumFunctionOnSet(u, 1..Len(s)) = SumFunctionOnSet(s, 1..Len(s))
    <3>. DEFINE D == 1..Len(s)
    <3>1. IsFiniteSet(D) /\ \A i \in D : u[i] = s[i]
      BY <1>1, <2>1
    <3>. HIDE DEF D
    <3>2. SumFunctionOnSet(u, D) = SumFunctionOnSet(s, D)
      BY <3>1, SumOfEqual
    <3>. QED
      BY <3>2 DEF D
  <2>3. of(0) = 0
    BY <2>1, SumOfSet, FS_EmptySet
  <2>4. SumFunction(s) \in Nat /\ SumFunction(s) = SumFunctionOnSet(s, 1..Len(s))
    BY SumOfSeq
  <2>5. upto(0) = SumFunctionOnSet(s, 1..Len(s))
    BY <2>1, <2>2
  <2>. HIDE DEF upto, of
  <2>. QED
    BY <2>3, <2>4, <2>5
<1>4. ASSUME NEW n \in Nat, n \in Q PROVE n + 1 \in Q
  <2>. SUFFICES ASSUME n + 1 <= Len(t) PROVE upto(n + 1) = SumFunction(s) + of(n + 1)
    OBVIOUS
  <2>1. /\ n + 1 \in 1..Len(t) /\ Len(s) + n \in Nat /\ (Len(s) + n) + 1 <= Len(u)
        /\ Len(s) + (n + 1) = (Len(s) + n) + 1
    BY <1>1, <1>2
  <2>2. upto(n + 1) = u[(Len(s) + n) + 1] + upto(n)
    BY <1>1, <2>1, SumUpTo
  <2>3. of(n + 1) = t[n + 1] + of(n)
    BY SumUpTo
  <2>4. upto(n) = SumFunction(s) + of(n)
    BY <1>2, <1>4
  <2>5. u[(Len(s) + n) + 1] = t[n + 1]
    BY <1>1, <2>1
  <2>6. SumFunction(s) \in Nat /\ t[n + 1] \in Nat
    BY <2>1, SumOfSeq
  <2>7. of(n) \in Nat
    <3>1. IsFiniteSet(1..n) /\ \A i \in 1..n : t[i] \in Nat
      BY FirstPositions
    <3>. QED
      BY <3>1, SumIsNatural
  <2>. HIDE DEF upto, of
  <2>. QED
    BY <2>2, <2>3, <2>4, <2>5, <2>6, <2>7
<1>. HIDE DEF Q
<1>5. Len(t) \in Q
  BY <1>2, <1>3, <1>4, NumberInduction
<1>6. upto(Len(t)) = SumFunction(u)
  BY <1>1, SumOfSeq
<1>7. of(Len(t)) = SumFunction(t)
  BY SumOfSeq
<1>. QED
  BY <1>2, <1>5, <1>6, <1>7 DEF Q, u

\* A single element.
LEMMA SumOfOne == ASSUME NEW n \in Nat PROVE SumFunction(<<n>>) = n
<1>. DEFINE s == <<n>>
<1>1. s \in Seq(Nat) /\ 0 \in Nat /\ 0 + 1 <= Len(s) /\ Len(s) = 1 /\ s[1] = n
  OBVIOUS
<1>. HIDE DEF s
<1>2. SumFunctionOnSet(s, 1..(0 + 1)) = s[0 + 1] + SumFunctionOnSet(s, 1..0)
  BY <1>1, SumUpTo
<1>3. SumFunctionOnSet(s, {}) = 0
  BY SumOfSet, FS_EmptySet
<1>4. 1..0 = {} /\ 0 + 1 = 1
  OBVIOUS
<1>5. SumFunctionOnSet(s, 1..1) = n
  BY <1>1, <1>2, <1>3, <1>4
<1>6. SumFunction(s) = n
  BY <1>1, <1>5, SumOfSeq
<1>. QED
  BY <1>6 DEF s

\* An element is appended.
LEMMA SumOfAppend ==
  ASSUME NEW s \in Seq(Nat), NEW n \in Nat
  PROVE  SumFunction(Append(s, n)) = SumFunction(s) + n
<1>1. <<n>> \in Seq(Nat) /\ Append(s, n) = s \o <<n>>
  OBVIOUS
<1>. QED
  BY <1>1, SumOfConcat, SumOfOne

\* The first element is removed.
LEMMA SumOfTail ==
  ASSUME NEW s \in Seq(Nat), s # <<>>
  PROVE  /\ Head(s) \in Nat /\ SumFunction(Tail(s)) \in Nat
         /\ SumFunction(s) = Head(s) + SumFunction(Tail(s))
<1>1. Head(s) \in Nat /\ <<Head(s)>> \in Seq(Nat) /\ Tail(s) \in Seq(Nat)
  BY HeadTailProperties
<1>2. s = <<Head(s)>> \o Tail(s)
  BY SubSeqRecursiveFirst, SubSeqFull, TailIsSubSeq, EmptySeq
<1>3. SumFunction(<<Head(s)>> \o Tail(s))
        = SumFunction(<<Head(s)>>) + SumFunction(Tail(s))
  BY <1>1, SumOfConcat
<1>4. SumFunction(<<Head(s)>>) = Head(s) /\ SumFunction(Tail(s)) \in Nat
  BY <1>1, SumOfOne, SumOfSeq
<1>. QED
  BY <1>1, <1>2, <1>3, <1>4
=============================================================================
