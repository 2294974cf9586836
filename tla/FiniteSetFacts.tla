----------------------------- MODULE FiniteSetFacts -----------------------------
(***************************************************************************)
(* Facts about finite sets that the proofs of several modules need: least  *)
(* members of a family of sets, greatest numbers, and the sum of a         *)
(* function over a set (SumFunctionOnSet of the community modules).        *)
(*                                                                         *)
(* The induction theorems of the library take an operator as a parameter,  *)
(* which the provers cannot instantiate.  These proofs take a least        *)
(* counterexample instead, a member of a set (LeastSet).                   *)
(***************************************************************************)
EXTENDS Integers, FiniteSets, Functions, FiniteSetTheorems, WellFoundedInduction, TLAPS

\* Among finite sets there is one of which no other is a part.
LEMMA LeastSet ==
  ASSUME NEW F, F # {}, \A A \in F : IsFiniteSet(A)
  PROVE  \E A \in F : \A B \in F : B \subseteq A => B = A
<1> DEFINE U == UNION F
<1>1. F \subseteq FiniteSubsetsOf(U)
  BY DEF FiniteSubsetsOf
<1>2. IsWellFoundedOn(StrictSubsetOrdering(U), FiniteSubsetsOf(U))
  BY FS_StrictSubsetOrderingWellFounded
<1>3. \E A \in F : \A B \in F : ~(<<B, A>> \in StrictSubsetOrdering(U))
  BY <1>1, <1>2, WFMin
<1>4. QED BY <1>1, <1>3 DEF StrictSubsetOrdering, FiniteSubsetsOf

\* The largest of finitely many numbers exists.
LEMMA GreatestExists ==
  ASSUME NEW S, S \subseteq Int, IsFiniteSet(S), S # {}
  PROVE  \E m \in S : \A n \in S : n <= m
<1> DEFINE Bounded(A) == \E m \in A : \A n \in A : n <= m
           F == {A \in SUBSET S : A # {} /\ ~Bounded(A)}
<1>1. SUFFICES ASSUME F # {} PROVE FALSE
  OBVIOUS
<1>2. \A A \in SUBSET S : IsFiniteSet(A)
  BY FS_Subset
<1>3. \E A \in F : \A B \in F : B \subseteq A => B = A
  <2>1. \A A \in F : IsFiniteSet(A)
    BY <1>2
  <2> HIDE DEF F
  <2>2. QED BY <1>1, <2>1, LeastSet
<1>4. PICK A \in F : \A B \in F : B \subseteq A => B = A
  BY <1>3
<1>5. PICK x \in A : TRUE
  BY <1>4
<1>6. CASE A \ {x} = {}
  BY <1>4, <1>5, <1>6
<1>7. CASE A \ {x} # {}
  <2>1. Bounded(A \ {x})
    <3>1. A \ {x} \in SUBSET S /\ A \ {x} \subseteq A /\ A \ {x} # A
      BY <1>5
    <3>2. A \ {x} \notin F
      <4> HIDE DEF F
      <4>1. QED BY <1>4, <3>1
    <3>3. QED BY <1>7, <3>1, <3>2
  <2>2. PICK m \in A \ {x} : \A n \in A \ {x} : n <= m
    BY <2>1
  <2>3. x \in Int /\ m \in Int /\ \A n \in A : n \in Int
    BY <1>4
  <2>4. CASE x <= m
    <3>1. \A n \in A : n <= m
      BY <2>2, <2>3, <2>4
    <3>2. QED BY <1>4, <2>2, <3>1
  <2>5. CASE m <= x
    <3>1. \A n \in A : n <= x
      BY <2>2, <2>3, <2>5
    <3>2. QED BY <1>4, <3>1
  <2>6. QED BY <2>3, <2>4, <2>5
<1>8. QED BY <1>6, <1>7

-------------------------------------------------------------------------------
(* The sum of a function over a finite set. *)

\* The element a sum takes next.
Chosen(A) == CHOOSE x \in A : TRUE

\* g adds f up over every part of A.
AddsUp(g, f, A) ==
  g = [B \in SUBSET A |-> IF B = {} THEN 0 ELSE f[Chosen(B)] + g[B \ {Chosen(B)}]]

\* The definition of the sum.
LEMMA SumDef ==
  ASSUME NEW f, NEW A
  PROVE  SumFunctionOnSet(f, A) = (CHOOSE g : AddsUp(g, f, A))[A]
BY Zenon DEF SumFunctionOnSet, FoldFunctionOnSet, MapThenFoldSet, Chosen, AddsUp

\* Two functions that add f up agree.
LEMMA AddsUpOnce ==
  ASSUME NEW f, NEW A, IsFiniteSet(A), NEW g, NEW h, AddsUp(g, f, A), AddsUp(h, f, A)
  PROVE  \A B \in SUBSET A : g[B] = h[B]
<1> DEFINE F == {B \in SUBSET A : g[B] # h[B]}
<1>1. SUFFICES ASSUME F # {} PROVE FALSE
  OBVIOUS
<1>2. \A B \in F : IsFiniteSet(B)
  BY FS_Subset
<1>3. \E B \in F : \A C \in F : C \subseteq B => C = B
  <2>1. \A B \in F : IsFiniteSet(B)
    BY <1>2
  <2> HIDE DEF F
  <2>2. QED BY <1>1, <2>1, LeastSet
<1>4. PICK B \in F : \A C \in F : C \subseteq B => C = B
  BY <1>3
<1>5. \A C \in SUBSET A : /\ g[C] = IF C = {} THEN 0 ELSE f[Chosen(C)] + g[C \ {Chosen(C)}]
                          /\ h[C] = IF C = {} THEN 0 ELSE f[Chosen(C)] + h[C \ {Chosen(C)}]
  BY DEF AddsUp
<1>6. B # {} /\ B \in SUBSET A /\ g[B] # h[B]
  BY <1>5
<1>7. Chosen(B) \in B
  BY <1>6 DEF Chosen
<1>8. B \ {Chosen(B)} \in SUBSET A /\ B \ {Chosen(B)} \notin F
  BY <1>4, <1>6, <1>7
<1>9. g[B \ {Chosen(B)}] = h[B \ {Chosen(B)}]
  BY <1>8
<1>10. QED BY <1>5, <1>6, <1>9

\* What the sum over A is, in terms of the sum over a smaller set.
Unfolds(f, A) ==
  SumFunctionOnSet(f, A) =
    IF A = {} THEN 0 ELSE f[Chosen(A)] + SumFunctionOnSet(f, A \ {Chosen(A)})

\* A sum over a finite set unfolds by one chosen element.
LEMMA SumUnfolds ==
  ASSUME NEW f, NEW A, IsFiniteSet(A)
  PROVE  Unfolds(f, A)
<1> DEFINE F == {B \in SUBSET A : ~Unfolds(f, B)}
<1>1. SUFFICES ASSUME F # {} PROVE FALSE
  OBVIOUS
<1>2. \A B \in SUBSET A : IsFiniteSet(B)
  BY FS_Subset
<1>3. \E B \in F : \A C \in F : C \subseteq B => C = B
  <2>1. \A B \in F : IsFiniteSet(B)
    BY <1>2
  <2> HIDE DEF F
  <2>2. QED BY <1>1, <2>1, LeastSet
<1>4. PICK B \in F : \A C \in F : C \subseteq B => C = B
  BY <1>3
<1> HIDE DEF F
<1>5. B \in SUBSET A /\ ~Unfolds(f, B) /\ IsFiniteSet(B)
  BY <1>2 DEF F
<1>6. \A C \in SUBSET B : C # B => Unfolds(f, C)
  BY <1>4, <1>5 DEF F
<1> DEFINE Sum(C) == SumFunctionOnSet(f, C)
           top == IF B = {} THEN 0 ELSE f[Chosen(B)] + Sum(B \ {Chosen(B)})
           g == [C \in SUBSET B |-> IF C = B THEN top ELSE Sum(C)]
<1>7. \A C \in SUBSET B : C # {} => Chosen(C) \in C
  BY DEF Chosen
<1>8. ASSUME NEW C \in SUBSET B
      PROVE  g[C] = IF C = {} THEN 0 ELSE f[Chosen(C)] + g[C \ {Chosen(C)}]
  <2>1. C # {} => C \ {Chosen(C)} \in SUBSET B /\ C \ {Chosen(C)} # B
    BY <1>7
  <2>2. C # {} => g[C \ {Chosen(C)}] = Sum(C \ {Chosen(C)})
    BY <2>1
  <2>3. CASE C = B
    BY <2>2, <2>3
  <2>4. CASE C # B
    BY <1>6, <2>2, <2>4 DEF Unfolds
  <2>5. QED BY <2>3, <2>4
<1>9. AddsUp(g, f, B)
  <2>1. g = [C \in SUBSET B |-> g[C]]
    OBVIOUS
  <2> HIDE DEF g
  <2>2. QED BY <1>8, <2>1, Zenon DEF AddsUp
<1>10. AddsUp(CHOOSE h : AddsUp(h, f, B), f, B)
  BY <1>9, Zenon
<1> HIDE DEF g
<1>11. g[B] = Sum(B)
  BY <1>5, <1>9, <1>10, AddsUpOnce, SumDef
<1>12. g[B] = top
  BY DEF g
<1>13. QED BY <1>5, <1>11, <1>12 DEF Unfolds

\* A sum of natural numbers is one.
LEMMA SumType ==
  ASSUME NEW S, NEW f \in [S -> Nat], NEW A \in SUBSET S, IsFiniteSet(A)
  PROVE  SumFunctionOnSet(f, A) \in Nat
<1> DEFINE F == {B \in SUBSET A : SumFunctionOnSet(f, B) \notin Nat}
<1>1. SUFFICES ASSUME F # {} PROVE FALSE
  OBVIOUS
<1>2. \A B \in SUBSET A : IsFiniteSet(B) /\ Unfolds(f, B)
  BY FS_Subset, SumUnfolds
<1>3. \E B \in F : \A C \in F : C \subseteq B => C = B
  <2>1. \A B \in F : IsFiniteSet(B)
    BY <1>2
  <2> HIDE DEF F
  <2>2. QED BY <1>1, <2>1, LeastSet
<1>4. PICK B \in F : \A C \in F : C \subseteq B => C = B
  BY <1>3
<1>5. B # {} /\ Unfolds(f, B)
  BY <1>2 DEF Unfolds
<1>6. Chosen(B) \in B
  BY <1>5 DEF Chosen
<1>7. SumFunctionOnSet(f, B \ {Chosen(B)}) \in Nat
  BY <1>4, <1>6
<1>8. f[Chosen(B)] \in Nat
  BY <1>6
<1>9. QED BY <1>5, <1>7, <1>8 DEF Unfolds

\* The sum does not depend on the order: any new element may be taken first.
LEMMA SumAdd ==
  ASSUME NEW S, NEW f \in [S -> Nat], NEW A \in SUBSET S, IsFiniteSet(A),
         NEW p \in S, p \notin A
  PROVE  SumFunctionOnSet(f, A \cup {p}) = SumFunctionOnSet(f, A) + f[p]
<1> DEFINE Sum(B) == SumFunctionOnSet(f, B)
           Adds(B) == \A q \in S \ B : Sum(B \cup {q}) = Sum(B) + f[q]
           F == {B \in SUBSET A : ~Adds(B)}
<1>1. SUFFICES ASSUME F # {} PROVE FALSE
  OBVIOUS
<1>2. \A B \in SUBSET A : IsFiniteSet(B)
  BY FS_Subset
<1>3. \E B \in F : \A C \in F : C \subseteq B => C = B
  <2>1. \A B \in F : IsFiniteSet(B)
    BY <1>2
  <2> HIDE DEF F
  <2>2. QED BY <1>1, <2>1, LeastSet
<1>4. PICK B \in F : \A C \in F : C \subseteq B => C = B
  BY <1>3
<1>5. PICK q \in S \ B : Sum(B \cup {q}) # Sum(B) + f[q]
  BY <1>4
<1>6. B \in SUBSET A /\ \A C \in SUBSET B : C # B => Adds(C)
  BY <1>4
<1> HIDE DEF F
<1> DEFINE c == Chosen(B \cup {q})
<1>7. Sum(B \cup {q}) = f[c] + Sum((B \cup {q}) \ {c})
  BY <1>2, <1>6, FS_AddElement, SumUnfolds DEF Unfolds
<1>8. c \in B \cup {q}
  BY DEF Chosen
<1>9. /\ Sum(B) \in Nat /\ f[q] \in Nat /\ f[c] \in Nat
      /\ \A C \in SUBSET B : Sum(C) \in Nat
  BY <1>2, <1>6, <1>8, SumType
<1> HIDE DEF c
<1>10. CASE c = q
  <2>1. (B \cup {q}) \ {c} = B
    BY <1>10
  <2>2. Sum(B \cup {q}) = f[q] + Sum(B)
    BY <1>7, <1>10, <2>1
  <2> HIDE DEF Sum
  <2>3. QED BY <1>5, <1>9, <2>2
<1>11. CASE c # q
  <2> DEFINE C == B \ {c}
  <2>1. c \in B /\ (B \cup {q}) \ {c} = C \cup {q} /\ C \cup {c} = B
    BY <1>8, <1>11
  <2>2. Adds(C) /\ q \in S \ C /\ c \in S \ C
    BY <1>6, <2>1
  <2>3. Sum(C \cup {q}) = Sum(C) + f[q] /\ Sum(C \cup {c}) = Sum(C) + f[c]
    BY <2>2
  <2>4. Sum(C) \in Nat
    BY <1>9
  <2>5. QED BY <1>5, <1>7, <1>9, <2>1, <2>3, <2>4
<1>12. QED BY <1>10, <1>11

\* The sum depends on the values over the set alone.
LEMMA SumSame ==
  ASSUME NEW f, NEW h, NEW A, IsFiniteSet(A), \A x \in A : f[x] = h[x]
  PROVE  SumFunctionOnSet(f, A) = SumFunctionOnSet(h, A)
<1> DEFINE F == {B \in SUBSET A : SumFunctionOnSet(f, B) # SumFunctionOnSet(h, B)}
<1>1. SUFFICES ASSUME F # {} PROVE FALSE
  OBVIOUS
<1>2. \A B \in SUBSET A : IsFiniteSet(B) /\ Unfolds(f, B) /\ Unfolds(h, B)
  BY FS_Subset, SumUnfolds
<1>3. \E B \in F : \A C \in F : C \subseteq B => C = B
  <2>1. \A B \in F : IsFiniteSet(B)
    BY <1>2
  <2> HIDE DEF F
  <2>2. QED BY <1>1, <2>1, LeastSet
<1>4. PICK B \in F : \A C \in F : C \subseteq B => C = B
  BY <1>3
<1>5. B # {} /\ Unfolds(f, B) /\ Unfolds(h, B) /\ B \in SUBSET A
  BY <1>2 DEF Unfolds
<1>6. Chosen(B) \in B
  BY <1>5 DEF Chosen
<1>7. SumFunctionOnSet(f, B \ {Chosen(B)}) = SumFunctionOnSet(h, B \ {Chosen(B)})
  BY <1>4, <1>5, <1>6
<1>8. QED BY <1>4, <1>5, <1>6, <1>7 DEF Unfolds

\* The sum of a function that is zero everywhere is zero.
LEMMA SumZero ==
  ASSUME NEW f, NEW A, IsFiniteSet(A), \A x \in A : f[x] = 0
  PROVE  SumFunctionOnSet(f, A) = 0
<1> DEFINE F == {B \in SUBSET A : SumFunctionOnSet(f, B) # 0}
<1>1. SUFFICES ASSUME F # {} PROVE FALSE
  OBVIOUS
<1>2. \A B \in SUBSET A : IsFiniteSet(B) /\ Unfolds(f, B)
  BY FS_Subset, SumUnfolds
<1>3. \E B \in F : \A C \in F : C \subseteq B => C = B
  <2>1. \A B \in F : IsFiniteSet(B)
    BY <1>2
  <2> HIDE DEF F
  <2>2. QED BY <1>1, <2>1, LeastSet
<1>4. PICK B \in F : \A C \in F : C \subseteq B => C = B
  BY <1>3
<1>5. B # {} /\ B \in SUBSET A /\ SumFunctionOnSet(f, B) # 0
  BY <1>2, <1>4 DEF Unfolds
<1>6. Chosen(B) \in B
  BY <1>5 DEF Chosen
<1>7. SumFunctionOnSet(f, B \ {Chosen(B)}) = 0
  BY <1>4, <1>5, <1>6
<1>8. SumFunctionOnSet(f, B) = f[Chosen(B)] + SumFunctionOnSet(f, B \ {Chosen(B)})
  BY <1>2, <1>5 DEF Unfolds
<1>9. f[Chosen(B)] = 0
  BY <1>5, <1>6
<1>10. QED BY <1>5, <1>7, <1>8, <1>9

\* The sum of a function that is zero but for one argument is its value there.
LEMMA SumOfOne ==
  ASSUME NEW f, NEW A, IsFiniteSet(A), NEW p \in A, f[p] \in Int,
         \A x \in A \ {p} : f[x] = 0
  PROVE  SumFunctionOnSet(f, A) = f[p]
<1> DEFINE F == {B \in SUBSET A : p \in B /\ SumFunctionOnSet(f, B) # f[p]}
<1>1. SUFFICES ASSUME F # {} PROVE FALSE
  OBVIOUS
<1>2. \A B \in SUBSET A : IsFiniteSet(B) /\ Unfolds(f, B)
  BY FS_Subset, SumUnfolds
<1>3. \E B \in F : \A C \in F : C \subseteq B => C = B
  <2>1. \A B \in F : IsFiniteSet(B)
    BY <1>2
  <2> HIDE DEF F
  <2>2. QED BY <1>1, <2>1, LeastSet
<1>4. PICK B \in F : \A C \in F : C \subseteq B => C = B
  BY <1>3
<1>5. p \in B /\ B \in SUBSET A /\ SumFunctionOnSet(f, B) # f[p]
  BY <1>4
<1>6. Chosen(B) \in B
  BY <1>5 DEF Chosen
<1> DEFINE C == B \ {Chosen(B)}
<1>7. SumFunctionOnSet(f, B) = f[Chosen(B)] + SumFunctionOnSet(f, C)
  BY <1>2, <1>5 DEF Unfolds
<1>8. C \in SUBSET A /\ C \subseteq B /\ C # B
  BY <1>5, <1>6
<1>9. CASE Chosen(B) = p
  <2>1. \A x \in C : f[x] = 0
    BY <1>5, <1>9
  <2> HIDE DEF C
  <2>2. SumFunctionOnSet(f, C) = 0
    BY <1>2, <1>8, <2>1, SumZero
  <2>3. QED BY <1>5, <1>7, <1>9, <2>2
<1>10. CASE Chosen(B) # p
  <2>1. f[Chosen(B)] = 0
    BY <1>5, <1>6, <1>10
  <2>2. p \in C
    BY <1>5, <1>10
  <2>3. SumFunctionOnSet(f, C) = f[p]
    BY <1>4, <1>8, <2>2
  <2>4. QED BY <1>5, <1>7, <2>1, <2>3
<1>11. QED BY <1>9, <1>10

\* The k-th smallest of finitely many numbers exists.
LEMMA Ranked ==
  ASSUME NEW A, A \subseteq Int, IsFiniteSet(A), NEW k \in 1..Cardinality(A)
  PROVE  \E i \in A : Cardinality({j \in A : j < i}) = k - 1
<1> DEFINE Below(B, i) == {j \in B : j < i}
           Good(B) == \A n \in 1..Cardinality(B) : \E i \in B : Cardinality(Below(B, i)) = n - 1
           F == {B \in SUBSET A : ~Good(B)}
<1>1. SUFFICES ASSUME F # {} PROVE FALSE
  OBVIOUS
<1>2. \A B \in SUBSET A : IsFiniteSet(B)
  BY FS_Subset
<1>3. \E B \in F : \A C \in F : C \subseteq B => C = B
  <2>1. \A B \in F : IsFiniteSet(B)
    BY <1>2
  <2> HIDE DEF F
  <2>2. QED BY <1>1, <2>1, LeastSet
<1>4. PICK B \in F : \A C \in F : C \subseteq B => C = B
  BY <1>3
<1>5. PICK n \in 1..Cardinality(B) : ~\E i \in B : Cardinality(Below(B, i)) = n - 1
  BY <1>4
<1>6. B # {} /\ IsFiniteSet(B) /\ B \subseteq Int /\ Cardinality(B) \in Nat
  BY <1>2, <1>4, <1>5, FS_EmptySet, FS_CardinalityType
<1>7. PICK m \in B : \A x \in B : x <= m
  BY <1>6, GreatestExists
<1> DEFINE C == B \ {m}
<1>8. Cardinality(C) = Cardinality(B) - 1 /\ C \in SUBSET A
  BY <1>4, <1>6, <1>7, FS_RemoveElement
<1>9. Good(C)
  BY <1>4, <1>7, <1>8
<1>10. CASE n = Cardinality(B)
  <2>1. \A x \in B : x < m <=> x # m
    BY <1>6, <1>7
  <2>2. Below(B, m) = C
    BY <2>1
  <2>3. QED BY <1>5, <1>7, <1>8, <1>10, <2>2
<1>11. CASE n # Cardinality(B)
  <2>1. n \in 1..Cardinality(C)
    BY <1>5, <1>6, <1>8, <1>11
  <2>2. PICK i \in C : Cardinality(Below(C, i)) = n - 1
    BY <1>9, <2>1
  <2>3. Below(B, i) = Below(C, i)
    BY <1>6, <1>7, <2>2
  <2>4. QED BY <1>5, <2>2, <2>3
<1>12. QED BY <1>10, <1>11
===============================================================================
