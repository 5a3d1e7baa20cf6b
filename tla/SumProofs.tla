------------------------------ MODULE SumProofs -------------------------------
(***************************************************************************)
(* Sums over finite sets: SumFunctionOnSet(f, S) adds up f[x] for all x of *)
(* S, in an order of its own.  Whatever the order, a term can be taken out *)
(* or put in, terms can be changed one at a time, and sums of equal terms  *)
(* are equal.  The services add up lines, payments and rows; the proofs    *)
(* about them cite these lemmas and leave the sums folded.                 *)
(*                                                                         *)
(* The induction is by smallest counterexample: a family of finite sets    *)
(* that is not empty has a member none of whose proper subsets is in it.   *)
(***************************************************************************)
EXTENDS Integers, Sequences, FiniteSets, Functions, FiniteSetTheorems,
        WellFoundedInduction, TLAPS

\* A set of natural numbers has a least element.
LEMMA LeastNatural ==
    ASSUME NEW T, T \subseteq Nat, T # {}
    PROVE  \E n \in T : \A m \in T : ~(m < n)
<1> DEFINE R == OpToRel(<, Nat)
<1>1. IsWellFoundedOn(R, Nat)
  BY NatLessThanWellFounded
<1>2. \E x \in T : \A y \in T : ~(<<y, x>> \in R)
  <2> HIDE DEF R
  <2> QED BY <1>1, WFMin
<1>3. \A x, y \in Nat : x < y => <<x, y>> \in R
  BY DEF OpToRel
<1> HIDE DEF R
<1> QED BY <1>2, <1>3

\* A family of finite sets has a minimal member.
LEMMA MinimalMember ==
    ASSUME NEW F, F # {}, \A A \in F : IsFiniteSet(A)
    PROVE  \E A \in F : \A B \in F : B \subseteq A => B = A
<1> DEFINE T == {Cardinality(A) : A \in F}
<1>1. T \subseteq Nat /\ T # {}
  BY FS_CardinalityType
<1>2. PICK n \in T : \A m \in T : ~(m < n)
  <2> HIDE DEF T
  <2> QED BY <1>1, LeastNatural
<1>3. PICK A \in F : n = Cardinality(A)
  BY <1>2
<1>4. ASSUME NEW B \in F, B \subseteq A PROVE B = A
  <2>1. Cardinality(B) <= Cardinality(A)
        /\ (Cardinality(B) = Cardinality(A) => B = A)
    BY <1>4, FS_Subset
  <2>2. ~(Cardinality(B) < Cardinality(A))
    BY <1>2, <1>3
  <2>3. Cardinality(A) \in Nat /\ Cardinality(B) \in Nat
    BY FS_CardinalityType
  <2> QED BY <2>1, <2>2, <2>3
<1> QED BY <1>4

-----------------------------------------------------------------------------
(* The fold has the recursion that its definition asks for. *)

Pick(s) == CHOOSE x \in s : TRUE
FoldStep(f, g, s) == IF s = {} THEN 0 ELSE f[Pick(s)] + g[s \ {Pick(s)}]
IsFold(f, g, S) == g = [s \in SUBSET S |-> FoldStep(f, g, s)]
Folding(f, S) == CHOOSE g : IsFold(f, g, S)

\* The sum is the value of a fold on the whole set.
LEMMA SumIsFold ==
    ASSUME NEW f, NEW S
    PROVE  SumFunctionOnSet(f, S) = Folding(f, S)[S]
BY Zenon DEF SumFunctionOnSet, FoldFunctionOnSet, MapThenFoldSet, Folding, IsFold, FoldStep, Pick

\* Two folds agree where both are defined.
LEMMA FoldsAgree ==
    ASSUME NEW f, NEW S, NEW D, IsFiniteSet(S), D \subseteq S,
           NEW g, NEW h, IsFold(f, g, S), IsFold(f, h, D)
    PROVE  \A s \in SUBSET D : g[s] = h[s]
<1> DEFINE F == {s \in SUBSET D : g[s] # h[s]}
<1> SUFFICES ASSUME F # {} PROVE FALSE
  OBVIOUS
<1>1. \A s \in F : IsFiniteSet(s)
  BY FS_Subset
<1>2. PICK s \in F : \A t \in F : t \subseteq s => t = s
  <2> HIDE DEF F
  <2> QED BY <1>1, MinimalMember
<1>3. g[s] = FoldStep(f, g, s) /\ h[s] = FoldStep(f, h, s)
  BY DEF IsFold
<1>4. CASE s = {}
  BY <1>3, <1>4 DEF FoldStep
<1>5. CASE s # {}
  <2>1. Pick(s) \in s
    BY <1>5 DEF Pick
  <2>2. s \ {Pick(s)} \notin F
    BY <1>2, <2>1
  <2>3. g[s \ {Pick(s)}] = h[s \ {Pick(s)}]
    BY <2>2
  <2> QED BY <1>3, <1>5, <2>3 DEF FoldStep
<1> QED BY <1>4, <1>5

\* Every finite set has a fold.
LEMMA FoldExists ==
    ASSUME NEW f, NEW S, IsFiniteSet(S)
    PROVE  IsFold(f, Folding(f, S), S)
<1> DEFINE F == {D \in SUBSET S : ~IsFold(f, Folding(f, D), D)}
<1> SUFFICES ASSUME F # {} PROVE FALSE
  OBVIOUS
<1>1. \A D \in F : IsFiniteSet(D)
  BY FS_Subset
<1>2. PICK D \in F : \A E \in F : E \subseteq D => E = D
  <2> HIDE DEF F
  <2> QED BY <1>1, MinimalMember
<1>3. \A E \in SUBSET D : E # D => IsFold(f, Folding(f, E), E)
  BY <1>2
<1> DEFINE sub(s) == Folding(f, s)[s]
           val(s) == IF s = {} THEN 0 ELSE f[Pick(s)] + sub(s \ {Pick(s)})
           g == [s \in SUBSET D |-> val(s)]
<1>4. ASSUME NEW s \in SUBSET D, s # D PROVE val(s) = sub(s)
  <2>1. IsFold(f, Folding(f, s), s)
    BY <1>3, <1>4
  <2>2. sub(s) = FoldStep(f, Folding(f, s), s)
    BY <2>1 DEF IsFold
  <2>3. CASE s = {}
    BY <2>2, <2>3 DEF FoldStep
  <2>4. CASE s # {}
    <3> DEFINE t == s \ {Pick(s)}
    <3>1. Pick(s) \in s
      BY <2>4 DEF Pick
    <3>2. t \subseteq s /\ t # D /\ t \in SUBSET D
      BY <1>4, <3>1
    <3>3. IsFold(f, Folding(f, t), t)
      BY <1>3, <3>2
    <3>4. IsFiniteSet(s)
      BY FS_Subset
    <3>5. Folding(f, s)[t] = Folding(f, t)[t]
      BY <2>1, <3>2, <3>3, <3>4, FoldsAgree
    <3> QED BY <2>2, <2>4, <3>5 DEF FoldStep
  <2> QED BY <2>3, <2>4
<1>5. \A s \in SUBSET D : g[s] = FoldStep(f, g, s)
  <2> SUFFICES ASSUME NEW s \in SUBSET D PROVE val(s) = FoldStep(f, g, s)
    OBVIOUS
  <2>1. CASE s = {}
    BY <2>1 DEF FoldStep
  <2>2. CASE s # {}
    <3> DEFINE t == s \ {Pick(s)}
    <3>1. Pick(s) \in s
      BY <2>2 DEF Pick
    <3>2. t \in SUBSET D /\ t # D
      BY <3>1
    <3>3. g[t] = sub(t)
      BY <1>4, <3>2
    <3>4. FoldStep(f, g, s) = f[Pick(s)] + g[t]
      BY <2>2 DEF FoldStep
    <3> QED BY <2>2, <3>3, <3>4
  <2> QED BY <2>1, <2>2
<1>6. IsFold(f, g, D)
  BY <1>5 DEF IsFold
<1>7. IsFold(f, Folding(f, D), D)
  <2> HIDE DEF g
  <2> QED BY <1>6 DEF Folding
<1> QED BY <1>7

-----------------------------------------------------------------------------
(* What the sum of a finite set of integers is. *)

\* No terms.
LEMMA SumEmpty ==
    ASSUME NEW f
    PROVE  SumFunctionOnSet(f, {}) = 0
<1>1. IsFold(f, Folding(f, {}), {})
  BY FoldExists, FS_EmptySet
<1> QED BY <1>1, SumIsFold DEF IsFold, FoldStep

\* The term that the fold takes first.
LEMMA SumPick ==
    ASSUME NEW f, NEW S, IsFiniteSet(S), S # {}
    PROVE  /\ Pick(S) \in S
           /\ SumFunctionOnSet(f, S)
                = f[Pick(S)] + SumFunctionOnSet(f, S \ {Pick(S)})
<1> DEFINE T == S \ {Pick(S)}
<1>1. Pick(S) \in S
  BY DEF Pick
<1>2. IsFiniteSet(T)
  BY FS_Subset
<1>3. IsFold(f, Folding(f, S), S) /\ IsFold(f, Folding(f, T), T)
  BY <1>2, FoldExists
<1>4. Folding(f, S)[T] = Folding(f, T)[T]
  <2> HIDE DEF T
  <2>1. T \subseteq S
    BY DEF T
  <2> QED BY <1>3, <2>1, FoldsAgree
<1>5. Folding(f, S)[S] = f[Pick(S)] + Folding(f, S)[T]
  BY <1>3 DEF IsFold, FoldStep
<1> QED BY <1>1, <1>4, <1>5, SumIsFold

\* A sum of integers is one.
LEMMA SumType ==
    ASSUME NEW f, NEW S, IsFiniteSet(S), \A x \in S : f[x] \in Int
    PROVE  SumFunctionOnSet(f, S) \in Int
<1> DEFINE F == {D \in SUBSET S : SumFunctionOnSet(f, D) \notin Int}
<1> SUFFICES ASSUME F # {} PROVE FALSE
  OBVIOUS
<1>1. \A D \in F : IsFiniteSet(D)
  BY FS_Subset
<1>2. PICK D \in F : \A E \in F : E \subseteq D => E = D
  <2> HIDE DEF F
  <2> QED BY <1>1, MinimalMember
<1>3. D # {}
  BY SumEmpty
<1>4. /\ Pick(D) \in D
      /\ SumFunctionOnSet(f, D) = f[Pick(D)] + SumFunctionOnSet(f, D \ {Pick(D)})
  BY <1>1, <1>3, SumPick
<1>5. SumFunctionOnSet(f, D \ {Pick(D)}) \in Int
  BY <1>2, <1>4
<1> QED BY <1>4, <1>5

\* Any term can be taken out.
LEMMA SumRemove ==
    ASSUME NEW f, NEW S, IsFiniteSet(S), \A x \in S : f[x] \in Int, NEW x \in S
    PROVE  SumFunctionOnSet(f, S) = f[x] + SumFunctionOnSet(f, S \ {x})
<1> DEFINE Sum(D) == SumFunctionOnSet(f, D)
           Good(D) == \A y \in D : Sum(D) = f[y] + Sum(D \ {y})
           F == {D \in SUBSET S : ~Good(D)}
<1> SUFFICES ASSUME F # {} PROVE FALSE
  OBVIOUS
<1>1. \A D \in F : IsFiniteSet(D)
  BY FS_Subset
<1>2. PICK D \in F : \A E \in F : E \subseteq D => E = D
  <2> HIDE DEF F
  <2> QED BY <1>1, MinimalMember
<1>3. PICK y \in D : Sum(D) # f[y] + Sum(D \ {y})
  BY <1>2
<1> DEFINE p == Pick(D)
<1>4. p \in D /\ Sum(D) = f[p] + Sum(D \ {p})
  BY <1>1, <1>3, SumPick
<1>5. p # y
  BY <1>3, <1>4
<1>6. Good(D \ {p}) /\ Good(D \ {y})
  BY <1>2, <1>3, <1>4
<1>7. /\ Sum(D \ {p}) = f[y] + Sum((D \ {p}) \ {y})
      /\ Sum(D \ {y}) = f[p] + Sum((D \ {y}) \ {p})
  BY <1>3, <1>4, <1>5, <1>6
<1>8. Sum((D \ {p}) \ {y}) = Sum((D \ {y}) \ {p})
  <2>1. (D \ {p}) \ {y} = (D \ {y}) \ {p}
    OBVIOUS
  <2> QED BY <2>1
<1>9. Sum((D \ {p}) \ {y}) \in Int /\ f[p] \in Int /\ f[y] \in Int
  <2>1. IsFiniteSet((D \ {p}) \ {y})
    BY FS_Subset
  <2> QED BY <1>4, <2>1, SumType
<1> HIDE DEF Sum, p
<1> QED BY <1>3, <1>4, <1>7, <1>8, <1>9

\* A term can be put in.
LEMMA SumInsert ==
    ASSUME NEW f, NEW S, IsFiniteSet(S), NEW x, x \notin S,
           \A y \in S \cup {x} : f[y] \in Int
    PROVE  SumFunctionOnSet(f, S \cup {x}) = SumFunctionOnSet(f, S) + f[x]
<1>1. IsFiniteSet(S \cup {x}) /\ (S \cup {x}) \ {x} = S
  BY FS_AddElement
<1>2. SumFunctionOnSet(f, S \cup {x}) = f[x] + SumFunctionOnSet(f, S)
  BY <1>1, SumRemove
<1>3. SumFunctionOnSet(f, S) \in Int
  BY SumType
<1> QED BY <1>2, <1>3

\* Equal terms have equal sums.
LEMMA SumEqual ==
    ASSUME NEW f, NEW g, NEW S, IsFiniteSet(S), \A x \in S : f[x] = g[x]
    PROVE  SumFunctionOnSet(f, S) = SumFunctionOnSet(g, S)
<1> DEFINE F == {D \in SUBSET S : SumFunctionOnSet(f, D) # SumFunctionOnSet(g, D)}
<1> SUFFICES ASSUME F # {} PROVE FALSE
  OBVIOUS
<1>1. \A D \in F : IsFiniteSet(D)
  BY FS_Subset
<1>2. PICK D \in F : \A E \in F : E \subseteq D => E = D
  <2> HIDE DEF F
  <2> QED BY <1>1, MinimalMember
<1>3. D # {}
  BY SumEmpty
<1>4. /\ Pick(D) \in D
      /\ SumFunctionOnSet(f, D) = f[Pick(D)] + SumFunctionOnSet(f, D \ {Pick(D)})
      /\ SumFunctionOnSet(g, D) = g[Pick(D)] + SumFunctionOnSet(g, D \ {Pick(D)})
  BY <1>1, <1>3, SumPick
<1>5. SumFunctionOnSet(f, D \ {Pick(D)}) = SumFunctionOnSet(g, D \ {Pick(D)})
  BY <1>2, <1>4
<1> QED BY <1>4, <1>5

\* One term changes.
LEMMA SumChange ==
    ASSUME NEW f, NEW g, NEW S, IsFiniteSet(S), NEW x \in S,
           \A y \in S : f[y] \in Int /\ g[y] \in Int,
           \A y \in S \ {x} : g[y] = f[y]
    PROVE  SumFunctionOnSet(g, S) = SumFunctionOnSet(f, S) - f[x] + g[x]
<1> DEFINE R == S \ {x}
<1>1. IsFiniteSet(R)
  BY FS_Subset
<1>2. SumFunctionOnSet(f, S) = f[x] + SumFunctionOnSet(f, R)
      /\ SumFunctionOnSet(g, S) = g[x] + SumFunctionOnSet(g, R)
  BY SumRemove
<1>3. SumFunctionOnSet(g, R) = SumFunctionOnSet(f, R)
  BY <1>1, SumEqual
<1>4. SumFunctionOnSet(f, R) \in Int
  BY <1>1, SumType
<1> HIDE DEF R
<1> QED BY <1>2, <1>3, <1>4

\* Larger terms have a larger sum.
LEMMA SumMonotone ==
    ASSUME NEW f, NEW g, NEW S, IsFiniteSet(S),
           \A x \in S : f[x] \in Int /\ g[x] \in Int /\ f[x] <= g[x]
    PROVE  SumFunctionOnSet(f, S) <= SumFunctionOnSet(g, S)
<1> DEFINE F == {D \in SUBSET S : ~(SumFunctionOnSet(f, D) <= SumFunctionOnSet(g, D))}
<1> SUFFICES ASSUME F # {} PROVE FALSE
  OBVIOUS
<1>1. \A D \in F : IsFiniteSet(D)
  BY FS_Subset
<1>2. PICK D \in F : \A E \in F : E \subseteq D => E = D
  <2> HIDE DEF F
  <2> QED BY <1>1, MinimalMember
<1>3. D # {}
  <2> SUFFICES ASSUME D = {} PROVE FALSE
    OBVIOUS
  <2>1. SumFunctionOnSet(f, D) = 0 /\ SumFunctionOnSet(g, D) = 0
    BY Zenon, SumEmpty
  <2>2. D \in F
    BY <1>2
  <2> QED BY <2>1, <2>2
<1> DEFINE R == D \ {Pick(D)}
<1>4. /\ Pick(D) \in D
      /\ SumFunctionOnSet(f, D) = f[Pick(D)] + SumFunctionOnSet(f, R)
      /\ SumFunctionOnSet(g, D) = g[Pick(D)] + SumFunctionOnSet(g, R)
  BY <1>1, <1>3, SumPick
<1>5. SumFunctionOnSet(f, R) <= SumFunctionOnSet(g, R)
  BY <1>2, <1>4
<1>6. SumFunctionOnSet(f, R) \in Int /\ SumFunctionOnSet(g, R) \in Int
  <2>1. IsFiniteSet(R)
    BY FS_Subset
  <2> QED BY <2>1, SumType
<1> HIDE DEF R
<1> QED BY <1>2, <1>4, <1>5, <1>6

\* Terms that are all 0.
LEMMA SumZero ==
    ASSUME NEW f, NEW S, IsFiniteSet(S), \A x \in S : f[x] = 0
    PROVE  SumFunctionOnSet(f, S) = 0
<1> DEFINE F == {D \in SUBSET S : SumFunctionOnSet(f, D) # 0}
<1> SUFFICES ASSUME F # {} PROVE FALSE
  OBVIOUS
<1>1. \A D \in F : IsFiniteSet(D)
  BY FS_Subset
<1>2. PICK D \in F : \A E \in F : E \subseteq D => E = D
  <2> HIDE DEF F
  <2> QED BY <1>1, MinimalMember
<1>3. D # {}
  BY SumEmpty
<1>4. /\ Pick(D) \in D
      /\ SumFunctionOnSet(f, D) = f[Pick(D)] + SumFunctionOnSet(f, D \ {Pick(D)})
  BY <1>1, <1>3, SumPick
<1>5. SumFunctionOnSet(f, D \ {Pick(D)}) = 0
  BY <1>2, <1>4
<1> QED BY <1>4, <1>5

\* A sum of ones counts.
LEMMA SumOnes ==
    ASSUME NEW f, NEW S, IsFiniteSet(S), NEW T, T \subseteq S,
           \A x \in S : f[x] = IF x \in T THEN 1 ELSE 0
    PROVE  SumFunctionOnSet(f, S) = Cardinality(T)
<1> DEFINE F == {D \in SUBSET S : SumFunctionOnSet(f, D) # Cardinality(D \cap T)}
<1> SUFFICES ASSUME F # {} PROVE FALSE
  <2>1. S \notin F /\ S \cap T = T
    OBVIOUS
  <2> QED BY <2>1
<1>1. \A D \in F : IsFiniteSet(D)
  BY FS_Subset
<1>2. PICK D \in F : \A E \in F : E \subseteq D => E = D
  <2> HIDE DEF F
  <2> QED BY <1>1, MinimalMember
<1>3. CASE D = {}
  BY <1>2, <1>3, SumEmpty, FS_EmptySet
<1>4. CASE D # {}
  <2>1. PICK x \in D : TRUE
    BY <1>4
  <2> DEFINE E == D \ {x}
  <2>2. IsFiniteSet(D) /\ IsFiniteSet(E) /\ E \subseteq D /\ E # D /\ x \in S
    BY <1>1, <1>2, <2>1, FS_Subset
  <2>3. SumFunctionOnSet(f, E) = Cardinality(E \cap T)
    BY <1>2, <2>2
  <2>4. SumFunctionOnSet(f, D) = f[x] + SumFunctionOnSet(f, E)
    BY <1>2, <2>2, SumRemove
  <2>5. IsFiniteSet(E \cap T) /\ x \notin E \cap T
    BY <2>2, FS_Subset
  <2>6. CASE x \in T
    <3>1. D \cap T = (E \cap T) \cup {x} /\ f[x] = 1
      BY <2>1, <2>2, <2>6
    <3>2. Cardinality(D \cap T) = Cardinality(E \cap T) + 1 /\ Cardinality(E \cap T) \in Nat
      BY <2>5, <3>1, FS_AddElement, FS_CardinalityType
    <3> QED BY <1>2, <2>3, <2>4, <3>1, <3>2
  <2>7. CASE x \notin T
    <3>1. D \cap T = E \cap T /\ f[x] = 0
      BY <2>1, <2>2, <2>7
    <3>2. Cardinality(E \cap T) \in Nat
      BY <2>5, FS_CardinalityType
    <3> QED BY <1>2, <2>3, <2>4, <3>1, <3>2
  <2> QED BY <2>6, <2>7
<1> QED BY <1>3, <1>4

\* Terms that are not negative.
LEMMA SumNatural ==
    ASSUME NEW f, NEW S, IsFiniteSet(S), \A x \in S : f[x] \in Nat
    PROVE  SumFunctionOnSet(f, S) \in Nat
<1> DEFINE zero == [x \in S |-> 0]
<1>1. SumFunctionOnSet(zero, S) = 0
  BY SumZero
<1>2. SumFunctionOnSet(zero, S) <= SumFunctionOnSet(f, S)
  BY SumMonotone
<1>3. SumFunctionOnSet(f, S) \in Int
  BY SumType
<1> QED BY <1>1, <1>2, <1>3

\* The sum of sums of two terms each.
LEMMA SumPlus ==
    ASSUME NEW f, NEW g, NEW h, NEW S, IsFiniteSet(S),
           \A x \in S : f[x] \in Int /\ g[x] \in Int /\ h[x] = f[x] + g[x]
    PROVE  SumFunctionOnSet(h, S) = SumFunctionOnSet(f, S) + SumFunctionOnSet(g, S)
<1> DEFINE F == {D \in SUBSET S : SumFunctionOnSet(h, D)
                                     # SumFunctionOnSet(f, D) + SumFunctionOnSet(g, D)}
<1> SUFFICES ASSUME F # {} PROVE FALSE
  OBVIOUS
<1>1. \A D \in F : IsFiniteSet(D)
  BY FS_Subset
<1>2. PICK D \in F : \A E \in F : E \subseteq D => E = D
  <2> HIDE DEF F
  <2> QED BY <1>1, MinimalMember
<1>3. D # {}
  <2> SUFFICES ASSUME D = {} PROVE FALSE
    OBVIOUS
  <2>1. SumFunctionOnSet(f, D) = 0 /\ SumFunctionOnSet(g, D) = 0 /\ SumFunctionOnSet(h, D) = 0
    BY Zenon, SumEmpty
  <2>2. D \in F
    BY <1>2
  <2> QED BY <2>1, <2>2
<1> DEFINE R == D \ {Pick(D)}
<1>4. /\ Pick(D) \in D
      /\ SumFunctionOnSet(f, D) = f[Pick(D)] + SumFunctionOnSet(f, R)
      /\ SumFunctionOnSet(g, D) = g[Pick(D)] + SumFunctionOnSet(g, R)
      /\ SumFunctionOnSet(h, D) = h[Pick(D)] + SumFunctionOnSet(h, R)
  BY <1>1, <1>3, SumPick
<1>5. SumFunctionOnSet(h, R) = SumFunctionOnSet(f, R) + SumFunctionOnSet(g, R)
  BY <1>2, <1>4
<1>6. SumFunctionOnSet(f, R) \in Int /\ SumFunctionOnSet(g, R) \in Int
  <2>1. IsFiniteSet(R)
    BY FS_Subset
  <2> QED BY <2>1, SumType
<1> HIDE DEF R
<1> QED BY <1>2, <1>4, <1>5, <1>6

\* Terms that are in a proportion add up to sums that are.
LEMMA SumTimes ==
    ASSUME NEW f, NEW g, NEW S, IsFiniteSet(S), NEW a \in Int,
           \A x \in S : f[x] \in Int /\ g[x] = a * f[x]
    PROVE  SumFunctionOnSet(g, S) = a * SumFunctionOnSet(f, S)
<1> DEFINE F == {D \in SUBSET S : SumFunctionOnSet(g, D) # a * SumFunctionOnSet(f, D)}
<1> SUFFICES ASSUME F # {} PROVE FALSE
  OBVIOUS
<1>1. \A D \in F : IsFiniteSet(D)
  BY FS_Subset
<1>2. PICK D \in F : \A E \in F : E \subseteq D => E = D
  <2> HIDE DEF F
  <2> QED BY <1>1, MinimalMember
<1>3. D # {}
  <2>1. SumFunctionOnSet(g, {}) = 0 /\ a * SumFunctionOnSet(f, {}) = 0
    <3>1. a * 0 = 0
      OBVIOUS
    <3> QED BY <3>1, SumEmpty
  <2> QED BY <1>2, <2>1
<1> DEFINE x == Pick(D)
           s == SumFunctionOnSet(f, D \ {x})
<1>4. x \in D /\ SumFunctionOnSet(f, D) = f[x] + s
      /\ SumFunctionOnSet(g, D) = g[x] + SumFunctionOnSet(g, D \ {x})
  BY <1>1, <1>3, SumPick
<1>5. SumFunctionOnSet(g, D \ {x}) = a * s
  BY <1>2, <1>4
<1>6. s \in Int
  <2>1. IsFiniteSet(D \ {x})
    BY <1>1, FS_Subset
  <2> QED BY <2>1, SumType
<1>7. \A m, n \in Int : a * (m + n) = a * m + a * n
  OBVIOUS
<1> HIDE DEF s, x
<1> QED BY <1>2, <1>4, <1>5, <1>6, <1>7

\* Terms bounded in a proportion add up to sums that are.
LEMMA SumBounded ==
    ASSUME NEW f, NEW g, NEW S, IsFiniteSet(S), NEW a \in Int, NEW b \in Int,
           \A x \in S : f[x] \in Int /\ g[x] \in Int /\ a * f[x] <= b * g[x]
    PROVE  a * SumFunctionOnSet(f, S) <= b * SumFunctionOnSet(g, S)
<1> DEFINE af == [x \in S |-> a * f[x]]
           bg == [x \in S |-> b * g[x]]
<1>1. SumFunctionOnSet(af, S) = a * SumFunctionOnSet(f, S)
  <2>1. \A x \in S : f[x] \in Int /\ af[x] = a * f[x]
    OBVIOUS
  <2> HIDE DEF af
  <2> QED BY <2>1, SumTimes
<1>2. SumFunctionOnSet(bg, S) = b * SumFunctionOnSet(g, S)
  <2>1. \A x \in S : g[x] \in Int /\ bg[x] = b * g[x]
    OBVIOUS
  <2> HIDE DEF bg
  <2> QED BY <2>1, SumTimes
<1>3. SumFunctionOnSet(af, S) <= SumFunctionOnSet(bg, S)
  <2>1. \A x \in S : af[x] \in Int /\ bg[x] \in Int /\ af[x] <= bg[x]
    OBVIOUS
  <2> HIDE DEF af, bg
  <2> QED BY <2>1, SumMonotone
<1> QED BY <1>1, <1>2, <1>3

\* A line more.
LEMMA SumAppend ==
    ASSUME NEW s \in Seq(Int), NEW v \in Int
    PROVE  SumFunction(Append(s, v)) = SumFunction(s) + v
<1> DEFINE n == Len(s) + 1
           t == Append(s, v)
<1>1. /\ DOMAIN t = (1..Len(s)) \cup {n} /\ n \notin 1..Len(s) /\ DOMAIN s = 1..Len(s)
      /\ t[n] = v /\ \A i \in 1..Len(s) : t[i] = s[i] /\ s[i] \in Int
  OBVIOUS
<1>2. IsFiniteSet(1..Len(s))
  BY FS_Interval
<1> HIDE DEF n, t
<1>3. SumFunctionOnSet(t, DOMAIN t) = SumFunctionOnSet(t, 1..Len(s)) + v
  <2>1. \A i \in (1..Len(s)) \cup {n} : t[i] \in Int
    BY <1>1
  <2>2. n \notin 1..Len(s) /\ t[n] = v /\ DOMAIN t = (1..Len(s)) \cup {n}
    BY <1>1
  <2>3. PICK S : S = 1..Len(s)
    OBVIOUS
  <2>4. SumFunctionOnSet(t, S \cup {n}) = SumFunctionOnSet(t, S) + t[n]
    BY <1>2, <2>1, <2>2, <2>3, SumInsert
  <2> QED BY <2>2, <2>3, <2>4
<1>4. SumFunctionOnSet(t, 1..Len(s)) = SumFunctionOnSet(s, 1..Len(s))
  BY <1>1, <1>2, SumEqual
<1> QED BY <1>1, <1>3, <1>4 DEF SumFunction, t

\* The sum over a set is the sum along any way to number its elements.
LEMMA SumRename ==
    ASSUME NEW f, NEW h, NEW S, NEW T, NEW b \in [S -> T], IsFiniteSet(T),
           \A y \in T : f[y] \in Int,
           \A x \in S : h[x] = f[b[x]],
           \A x, y \in S : b[x] = b[y] => x = y,
           \A y \in T : \E x \in S : b[x] = y,
           IsFiniteSet(S)
    PROVE  SumFunctionOnSet(h, S) = SumFunctionOnSet(f, T)
<1> DEFINE Image(D) == {b[x] : x \in D}
           F == {D \in SUBSET S : SumFunctionOnSet(h, D) # SumFunctionOnSet(f, Image(D))}
<1>1. \A D \in SUBSET S : IsFiniteSet(D) /\ Image(D) \subseteq T /\ IsFiniteSet(Image(D))
  BY FS_Subset
<1>2. Image(S) = T
  OBVIOUS
<1> SUFFICES ASSUME F # {} PROVE FALSE
  BY <1>2
<1>3. PICK D \in F : \A E \in F : E \subseteq D => E = D
  <2>1. \A D \in F : IsFiniteSet(D)
    BY <1>1
  <2> HIDE DEF F
  <2> QED BY <2>1, MinimalMember
<1>4. D # {}
  <2>1. Image({}) = {}
    OBVIOUS
  <2> QED BY <2>1, SumEmpty
<1>5. PICK x \in D : TRUE
  BY <1>4
<1> DEFINE E == D \ {x}
<1>6. SumFunctionOnSet(h, E) = SumFunctionOnSet(f, Image(E))
  BY <1>3, <1>5
<1>7. Image(E) = Image(D) \ {b[x]} /\ b[x] \in Image(D) /\ h[x] = f[b[x]]
  BY <1>3, <1>5
<1>8. SumFunctionOnSet(h, D) = h[x] + SumFunctionOnSet(h, E)
  <2>1. IsFiniteSet(D) /\ \A y \in D : h[y] \in Int
    BY <1>1, <1>3
  <2> QED BY <1>5, <2>1, SumRemove
<1>9. SumFunctionOnSet(f, Image(D)) = f[b[x]] + SumFunctionOnSet(f, Image(D) \ {b[x]})
  <2>1. IsFiniteSet(Image(D)) /\ \A y \in Image(D) : f[y] \in Int
    BY <1>1, <1>3
  <2> HIDE DEF Image
  <2> QED BY <1>7, <2>1, SumRemove
<1> QED BY <1>3, <1>6, <1>7, <1>8, <1>9

\* Terms that are zero may be left out of a sum.
LEMMA SumNonZero ==
    ASSUME NEW f, NEW S, IsFiniteSet(S), \A x \in S : f[x] \in Int,
           NEW T, T \subseteq S, \A x \in S \ T : f[x] = 0
    PROVE  SumFunctionOnSet(f, T) = SumFunctionOnSet(f, S)
<1> DEFINE F == {D \in SUBSET S : T \subseteq D /\ SumFunctionOnSet(f, D) # SumFunctionOnSet(f, T)}
<1> SUFFICES ASSUME F # {} PROVE FALSE
  OBVIOUS
<1>1. PICK D \in F : \A E \in F : E \subseteq D => E = D
  <2>1. \A D \in F : IsFiniteSet(D)
    BY FS_Subset
  <2> HIDE DEF F
  <2> QED BY <2>1, MinimalMember
<1>2. PICK x \in D : x \notin T
  <2>1. D # T /\ T \subseteq D
    BY <1>1
  <2> QED BY <2>1
<1> DEFINE E == D \ {x}
<1>3. SumFunctionOnSet(f, E) = SumFunctionOnSet(f, T)
  BY <1>1, <1>2
<1>4. IsFiniteSet(D) /\ \A y \in D : f[y] \in Int
  BY <1>1, FS_Subset
<1>5. SumFunctionOnSet(f, D) = f[x] + SumFunctionOnSet(f, E)
  BY <1>2, <1>4, SumRemove
<1>6. f[x] = 0 /\ SumFunctionOnSet(f, E) \in Int
  <2>1. IsFiniteSet(E)
    BY <1>4, FS_Subset
  <2> QED BY <1>1, <1>2, <1>4, <2>1, SumType
<1> QED BY <1>1, <1>3, <1>5, <1>6

\* The sum over a part, as a sum over the whole.
LEMMA SumPart ==
    ASSUME NEW f, NEW g, NEW S, IsFiniteSet(S), NEW T, T \subseteq S,
           \A x \in T : f[x] \in Int,
           \A x \in S : g[x] = IF x \in T THEN f[x] ELSE 0
    PROVE  SumFunctionOnSet(g, S) = SumFunctionOnSet(f, T)
<1>1. SumFunctionOnSet(g, T) = SumFunctionOnSet(g, S)
  <2>1. (\A x \in S : g[x] \in Int) /\ \A x \in S \ T : g[x] = 0
    OBVIOUS
  <2> QED BY <2>1, SumNonZero
<1>2. SumFunctionOnSet(g, T) = SumFunctionOnSet(f, T)
  <2>1. IsFiniteSet(T) /\ \A x \in T : g[x] = f[x]
    BY FS_Subset
  <2> QED BY <2>1, SumEqual
<1> QED BY <1>1, <1>2

\* The sum over two sets that share no element.
LEMMA SumUnion ==
    ASSUME NEW f, NEW S, IsFiniteSet(S), NEW T, IsFiniteSet(T), S \cap T = {},
           \A x \in S \cup T : f[x] \in Int
    PROVE  SumFunctionOnSet(f, S \cup T) = SumFunctionOnSet(f, S) + SumFunctionOnSet(f, T)
<1> DEFINE A == S \cup T
           g == [x \in A |-> IF x \in S THEN f[x] ELSE 0]
           h == [x \in A |-> IF x \in T THEN f[x] ELSE 0]
<1>1. IsFiniteSet(A)
  BY FS_Union
<1>2. \A x \in A : /\ g[x] = IF x \in S THEN f[x] ELSE 0
                   /\ h[x] = IF x \in T THEN f[x] ELSE 0
                   /\ g[x] \in Int /\ h[x] \in Int /\ f[x] = g[x] + h[x]
  <2> SUFFICES ASSUME NEW x \in A
               PROVE  /\ g[x] = IF x \in S THEN f[x] ELSE 0
                      /\ h[x] = IF x \in T THEN f[x] ELSE 0
                      /\ g[x] \in Int /\ h[x] \in Int /\ f[x] = g[x] + h[x]
    OBVIOUS
  <2>1. f[x] \in Int /\ \A n \in Int : n + 0 = n /\ 0 + n = n
    OBVIOUS
  <2> QED BY <2>1
<1>3. S \subseteq A /\ T \subseteq A
  OBVIOUS
<1> HIDE DEF A, g, h
<1>4. SumFunctionOnSet(g, A) = SumFunctionOnSet(f, S)
  BY <1>1, <1>2, <1>3, SumPart
<1>5. SumFunctionOnSet(h, A) = SumFunctionOnSet(f, T)
  BY <1>1, <1>2, <1>3, SumPart
<1>6. SumFunctionOnSet(f, A) = SumFunctionOnSet(g, A) + SumFunctionOnSet(h, A)
  BY <1>1, <1>2, SumPlus
<1> QED BY <1>4, <1>5, <1>6 DEF A

\* Rows and columns of a table add up to the same.
Transposed(m, w, S, T) == \A x \in S, y \in T : m[x][y] \in Int /\ w[y][x] = m[x][y]
AddsUp(sums, m, S, T) == \A x \in S : sums[x] = SumFunctionOnSet(m[x], T)

LEMMA SumSwap ==
    ASSUME NEW S, IsFiniteSet(S), NEW T, IsFiniteSet(T), NEW m, NEW w, Transposed(m, w, S, T),
           NEW row, AddsUp(row, m, S, T), NEW column, AddsUp(column, w, T, S)
    PROVE  SumFunctionOnSet(row, S) = SumFunctionOnSet(column, T)
<1>0. /\ \A x \in S, y \in T : m[x][y] \in Int /\ w[y][x] = m[x][y]
      /\ \A x \in S : row[x] = SumFunctionOnSet(m[x], T)
      /\ \A y \in T : column[y] = SumFunctionOnSet(w[y], S)
  BY DEF Transposed, AddsUp
<1> DEFINE Columns(D) == [y \in T |-> SumFunctionOnSet(w[y], D)]
           F == {D \in SUBSET S : SumFunctionOnSet(row, D) # SumFunctionOnSet(Columns(D), T)}
<1>1. F = {}
  <2> SUFFICES ASSUME F # {} PROVE FALSE
    OBVIOUS
  <2>1. \A D \in F : IsFiniteSet(D)
    BY FS_Subset
  <2>2. PICK D \in F : \A E \in F : E \subseteq D => E = D
    <3> HIDE DEF F
    <3> QED BY <2>1, MinimalMember
  <2>3. SumFunctionOnSet(row, D) # SumFunctionOnSet(Columns(D), T) /\ D \subseteq S
    BY <2>2
  <2>4. \A D_1 \in SUBSET S, y \in T :
           Columns(D_1)[y] = SumFunctionOnSet(w[y], D_1)
    OBVIOUS
  <2>5. D # {}
    <3> SUFFICES ASSUME D = {} PROVE FALSE
      OBVIOUS
    <3>1. \A y \in T : Columns(D)[y] = 0
      BY <2>4, SumEmpty
    <3> HIDE DEF Columns
    <3>2. SumFunctionOnSet(Columns(D), T) = 0
      BY <3>1, SumZero
    <3> QED BY <2>3, <3>2, SumEmpty
  <2>6. PICK x \in D : TRUE
    BY <2>5
  <2> DEFINE E == D \ {x}
             line == m[x]
  <2>7. IsFiniteSet(D) /\ IsFiniteSet(E) /\ E \in SUBSET S /\ x \in S
    BY <2>1, <2>3, FS_Subset
  <2>8. SumFunctionOnSet(row, E) = SumFunctionOnSet(Columns(E), T)
    <3>1. E \subseteq D /\ E # D
      BY <2>6
    <3>2. E \notin F
      <4> HIDE DEF F, E
      <4> QED BY <2>2, <3>1
    <3> HIDE DEF E, Columns
    <3> QED BY <2>7, <3>2
  <2>9. row[x] = SumFunctionOnSet(line, T)
    BY <1>0, <2>7
  <2>10. \A y \in T : line[y] \in Int
    BY <1>0, <2>7
  <2>11. SumFunctionOnSet(row, D) = row[x] + SumFunctionOnSet(row, E)
    <3>1. \A z \in S : row[z] \in Int
      <4> SUFFICES ASSUME NEW z \in S PROVE row[z] \in Int
        OBVIOUS
      <4> DEFINE l == m[z]
      <4>1. row[z] = SumFunctionOnSet(l, T) /\ \A y \in T : l[y] \in Int
        BY <1>0
      <4> HIDE DEF l
      <4> QED BY <4>1, SumType
    <3> QED BY <2>3, <2>6, <2>7, <3>1, SumRemove
  <2>12. \A y \in T : /\ Columns(D)[y] = line[y] + Columns(E)[y]
                      /\ Columns(E)[y] \in Int
    <3> SUFFICES ASSUME NEW y \in T
                 PROVE  /\ Columns(D)[y] = line[y] + Columns(E)[y]
                        /\ Columns(E)[y] \in Int
      OBVIOUS
    <3> DEFINE c == w[y]
    <3>1. \A z \in S : c[z] \in Int
      BY <1>0
    <3>2. c[x] = line[y]
      BY <1>0, <2>7
    <3>3. Columns(D)[y] = SumFunctionOnSet(c, D) /\ Columns(E)[y] = SumFunctionOnSet(c, E)
      BY <2>3, <2>4, <2>7
    <3> HIDE DEF c, line, Columns
    <3>4. SumFunctionOnSet(c, D) = c[x] + SumFunctionOnSet(c, E)
      BY <2>3, <2>6, <2>7, <3>1, SumRemove
    <3>5. SumFunctionOnSet(c, E) \in Int
      BY <2>7, <3>1, SumType
    <3> QED BY <3>2, <3>3, <3>4, <3>5
  <2> HIDE DEF Columns, line
  <2>13. SumFunctionOnSet(Columns(D), T)
           = SumFunctionOnSet(line, T) + SumFunctionOnSet(Columns(E), T)
    <3> DEFINE most == Columns(E)
               all == Columns(D)
    <3>1. \A y \in T : line[y] \in Int /\ most[y] \in Int /\ all[y] = line[y] + most[y]
      BY <2>10, <2>12
    <3> HIDE DEF most, all
    <3>2. SumFunctionOnSet(all, T) = SumFunctionOnSet(line, T) + SumFunctionOnSet(most, T)
      BY <3>1, SumPlus
    <3> QED BY <3>2 DEF most, all
  <2> QED BY <2>3, <2>8, <2>9, <2>11, <2>13
<1>2. SumFunctionOnSet(row, S) = SumFunctionOnSet(Columns(S), T)
  BY <1>1
<1>3. \A y \in T : Columns(S)[y] = column[y]
  BY <1>0
<1> HIDE DEF Columns
<1>4. SumFunctionOnSet(Columns(S), T) = SumFunctionOnSet(column, T)
  BY <1>3, SumEqual
<1> QED BY <1>2, <1>4

\* A finite, non-empty set of numbers has a greatest element.
LEMMA GreatestNatural ==
    ASSUME NEW n \in Nat, NEW S, S \subseteq 1..n, S # {}
    PROVE  \E x \in S : \A y \in S : x >= y
<1> DEFINE T == {n - x : x \in S}
<1>1. T \subseteq Nat /\ T # {}
  <2>1. \A x \in S : n - x \in Nat
    OBVIOUS
  <2>2. PICK x \in S : TRUE
    OBVIOUS
  <2>3. n - x \in T
    BY <2>2
  <2> QED BY <2>1, <2>3
<1>2. PICK t \in T : \A m \in T : ~(m < t)
  <2> HIDE DEF T
  <2> QED BY <1>1, LeastNatural
<1>3. PICK x \in S : t = n - x
  BY <1>2
<1>4. ASSUME NEW y \in S PROVE x >= y
  <2>1. ~(n - y < n - x)
    BY <1>2, <1>3
  <2> QED BY <2>1
<1> QED BY <1>4

-----------------------------------------------------------------------------
(* What the rows of a table add up to, when each has a weight. *)

Weigh(rows, W) == SumFunction([i \in DOMAIN rows |-> W[rows[i]]])

\* It is a number.
LEMMA WeighType ==
    ASSUME NEW R, NEW rows \in Seq(R), NEW W \in [R -> Int]
    PROVE  /\ Weigh(rows, W) \in Int
           /\ (\A i \in DOMAIN rows : W[rows[i]] >= 0) => Weigh(rows, W) \in Nat
           /\ (\A i \in DOMAIN rows : W[rows[i]] = 0) => Weigh(rows, W) = 0
<1> DEFINE f == [i \in DOMAIN rows |-> W[rows[i]]]
           D == DOMAIN rows
<1>1. \A i \in D : rows[i] \in R
  OBVIOUS
<1>2. IsFiniteSet(D)
  BY FS_Interval
<1>3. DOMAIN f = D /\ \A i \in D : f[i] = W[rows[i]] /\ f[i] \in Int
  BY <1>1
<1>4. Weigh(rows, W) = SumFunctionOnSet(f, D)
  BY <1>3 DEF Weigh, SumFunction
<1> HIDE DEF f
<1>5. Weigh(rows, W) \in Int
  BY <1>2, <1>3, <1>4, SumType
<1>6. ASSUME \A i \in D : W[rows[i]] >= 0 PROVE Weigh(rows, W) \in Nat
  <2>1. \A i \in D : f[i] \in Nat
    BY <1>3, <1>6
  <2> QED BY <1>2, <1>4, <2>1, SumNatural
<1>7. ASSUME \A i \in D : W[rows[i]] = 0 PROVE Weigh(rows, W) = 0
  <2>1. \A i \in D : f[i] = 0
    BY <1>3, <1>7
  <2> QED BY <1>2, <1>4, <2>1, SumZero
<1> QED BY <1>5, <1>6, <1>7

\* A row more.
LEMMA WeighAppend ==
    ASSUME NEW R, NEW rows \in Seq(R), NEW row \in R, NEW W \in [R -> Int]
    PROVE  Weigh(Append(rows, row), W) = Weigh(rows, W) + W[row]
<1> DEFINE longer == Append(rows, row)
           V(rs) == [i \in DOMAIN rs |-> W[rs[i]]]
<1>1. /\ \A i \in 1..Len(rows) : rows[i] \in R /\ longer[i] = rows[i]
      /\ DOMAIN rows = 1..Len(rows) /\ DOMAIN longer = 1..(Len(rows) + 1)
      /\ longer[Len(rows) + 1] = row
  OBVIOUS
<1>2. V(rows) \in Seq(Int) /\ V(longer) = Append(V(rows), W[row]) /\ W[row] \in Int
  <2> HIDE DEF longer
  <2>1. V(rows) \in Seq(Int) /\ Len(V(rows)) = Len(rows)
    BY <1>1
  <2> QED BY <1>1, <2>1
<1> QED BY <1>2, SumAppend DEF Weigh

\* Another row in the place of one.
LEMMA WeighChange ==
    ASSUME NEW R, NEW rows \in Seq(R), NEW i \in DOMAIN rows, NEW row \in R,
           NEW W \in [R -> Int]
    PROVE  Weigh([rows EXCEPT ![i] = row], W) = Weigh(rows, W) - W[rows[i]] + W[row]
<1> DEFINE new == [rows EXCEPT ![i] = row]
           D == DOMAIN rows
           f == [j \in D |-> W[rows[j]]]
           g == [j \in D |-> W[new[j]]]
<1>1. DOMAIN new = D /\ new[i] = row /\ \A j \in D \ {i} : new[j] = rows[j]
  OBVIOUS
<1>2. \A j \in D : rows[j] \in R /\ new[j] \in R
  BY <1>1
<1>3. IsFiniteSet(D)
  BY FS_Interval
<1> HIDE DEF new
<1>4. /\ \A j \in D : f[j] \in Int /\ g[j] \in Int
      /\ \A j \in D \ {i} : g[j] = f[j]
      /\ f[i] = W[rows[i]] /\ g[i] = W[row]
  BY <1>1, <1>2
<1>5. Weigh(rows, W) = SumFunctionOnSet(f, D) /\ Weigh(new, W) = SumFunctionOnSet(g, D)
  BY <1>1 DEF Weigh, SumFunction
<1> HIDE DEF f, g, D
<1>6. SumFunctionOnSet(g, D) = SumFunctionOnSet(f, D) - f[i] + g[i]
  BY <1>3, <1>4, SumChange DEF D
<1> QED BY <1>4, <1>5, <1>6 DEF new

=============================================================================
