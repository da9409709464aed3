---------------------- MODULE InitialEvaluation_proofs ----------------------
(***************************************************************************)
(* Proofs about InitialEvaluation for any artifacts, specifications,        *)
(* rubrics, scores and servers.                                             *)
(*                                                                          *)
(* 1. Sums and products over finite sets: the library takes the elements in *)
(*    the order of a CHOOSE; that the order does not matter is proved by    *)
(*    taking a smallest set for which it would.                             *)
(* 2. What a run knows: what is stored is decided by the answer read last.  *)
(*    Until an answer ends well its suggestions belong to the engine being  *)
(*    asked (OfEngine), and every way to an error drops them.               *)
(* 3. The scores of the rules: the findings are finitely many, and their    *)
(*    penalties add up to what the missing kinds and the uploads cost.      *)
(***************************************************************************)
EXTENDS InitialEvaluation, FiniteSetTheorems, WellFoundedInduction, TLAPS

-----------------------------------------------------------------------------
(* 1. Sums and products *)

(* Induction over the subsets of a finite set: a set of subsets has one that *)
(* contains no other.                                                        *)
LEMMA SmallestSubset ==
  \A S, T : IsFiniteSet(S) /\ T \in SUBSET (SUBSET S) /\ T # {} => \E A \in T : \A B \in T : B \subseteq A => B = A
<1> SUFFICES ASSUME NEW S, NEW T, IsFiniteSet(S), T \in SUBSET (SUBSET S), T # {}
             PROVE  \E A \in T : \A B \in T : B \subseteq A => B = A
  OBVIOUS
<1>1. IsWellFoundedOn(StrictSubsetOrdering(S), SUBSET S)
  BY FS_StrictSubsetOrderingWellFounded, FS_FiniteSubsetsOfFinite
<1>2. PICK A \in T : \A B \in T : ~(<<B, A>> \in StrictSubsetOrdering(S))
  BY <1>1, WFMin
<1>3. \A B \in T : B \subseteq A => B = A
  BY <1>2 DEF StrictSubsetOrdering
<1> QED BY <1>3

Pick(A) == CHOOSE x \in A : TRUE

LEMMA PickIn == \A A : A # {} => Pick(A) \in A
  BY DEF Pick

(* Sums and products are folds over a finite set.                           *)
Unit(o) == IF o = "sum" THEN 0 ELSE 1

Join(o, a, b) == IF o = "sum" THEN a + b ELSE a * b

LEMMA JoinFacts ==
  /\ \A o : Unit(o) \in Int
  /\ \A o : \A a, b \in Int : Join(o, a, b) \in Int
  /\ \A o : \A a, b, c \in Int : Join(o, a, Join(o, b, c)) = Join(o, b, Join(o, a, c))
<1>1. \A a, b, c \in Int : a * b \in Int /\ a * (b * c) = b * (a * c)
  OBVIOUS
<1> QED BY <1>1 DEF Unit, Join

(* g folds v over the subsets of S, in the order of Pick.                    *)
Folds(o, v, S, g) ==
  g = [A \in SUBSET S |-> IF A = {} THEN Unit(o) ELSE Join(o, v[Pick(A)], g[A \ {Pick(A)}])]

FoldOn(o, v, S) == (CHOOSE g : Folds(o, v, S, g))[S]

LEMMA SumIsFold == \A v, S : SumFunctionOnSet(v, S) = FoldOn("sum", v, S)
<1> SUFFICES ASSUME NEW v, NEW S PROVE SumFunctionOnSet(v, S) = FoldOn("sum", v, S)
  OBVIOUS
<1>1. \A a, b : Join("sum", a, b) = a + b /\ Unit("sum") = 0
  BY DEF Join, Unit
<1> QED BY <1>1 DEF SumFunctionOnSet, FoldFunctionOnSet, MapThenFoldSet, FoldOn, Folds, Pick, Join, Unit

LEMMA FoldsRec ==
  ASSUME NEW o, NEW v, NEW S, NEW g, Folds(o, v, S, g)
  PROVE  /\ g[{}] = Unit(o)
         /\ \A A \in SUBSET S : A # {} => g[A] = Join(o, v[Pick(A)], g[A \ {Pick(A)}])
<1> DEFINE F == [A \in SUBSET S |-> IF A = {} THEN Unit(o) ELSE Join(o, v[Pick(A)], g[A \ {Pick(A)}])]
<1>1. F[{}] = Unit(o) /\ \A A \in SUBSET S : A # {} => F[A] = Join(o, v[Pick(A)], g[A \ {Pick(A)}])
  OBVIOUS
<1>2. g = F
  BY DEF Folds
<1> QED BY <1>1, <1>2

LEMMA FoldsAgree ==
  ASSUME NEW o, NEW S, IsFiniteSet(S), NEW C \in SUBSET S, NEW D \in SUBSET S,
         NEW v, NEW w, \A x \in C \cap D : v[x] = w[x],
         NEW g, Folds(o, v, C, g), NEW k, Folds(o, w, D, k)
  PROVE  \A E \in SUBSET (C \cap D) : g[E] = k[E]
<1> DEFINE T == {E \in SUBSET (C \cap D) : g[E] # k[E]}
<1>1. SUFFICES ASSUME T # {} PROVE FALSE
  OBVIOUS
<1>2. PICK E \in T : \A B \in T : B \subseteq E => B = E
  <2>1. T \in SUBSET (SUBSET S)
    OBVIOUS
  <2> HIDE DEF T
  <2> QED BY <1>1, <2>1, SmallestSubset
<1>3. E # {}
  BY <1>2, FoldsRec
<1>4. Pick(E) \in E /\ E \ {Pick(E)} \in SUBSET (C \cap D) /\ E \ {Pick(E)} # E
  BY <1>2, <1>3, PickIn
<1>5. g[E \ {Pick(E)}] = k[E \ {Pick(E)}]
  BY <1>2, <1>4
<1>6. /\ g[E] = Join(o, v[Pick(E)], g[E \ {Pick(E)}])
      /\ k[E] = Join(o, w[Pick(E)], k[E \ {Pick(E)}])
  BY <1>2, <1>3, FoldsRec
<1> QED BY <1>2, <1>4, <1>5, <1>6

LEMMA SameFold ==
  \A o, v, S : IsFiniteSet(S) =>
    \A C, D \in SUBSET S : \A g, k : Folds(o, v, C, g) /\ Folds(o, v, D, k) => \A E \in SUBSET (C \cap D) : g[E] = k[E]
  BY FoldsAgree

LEMMA FoldsExist ==
  ASSUME NEW o, NEW S, IsFiniteSet(S), NEW v, \A x \in S : v[x] \in Int
  PROVE  \E g \in [SUBSET S -> Int] : Folds(o, v, S, g)
<1> DEFINE Good(A) == \E g \in [SUBSET A -> Int] : Folds(o, v, A, g)
           T == {A \in SUBSET S : ~Good(A)}
<1>1. SUFFICES ASSUME T # {} PROVE FALSE
  OBVIOUS
<1>2. PICK A \in T : \A B \in T : B \subseteq A => B = A
  <2>1. T \in SUBSET (SUBSET S)
    OBVIOUS
  <2> HIDE DEF T
  <2> QED BY <1>1, <2>1, SmallestSubset
<1>3. A \in SUBSET S /\ ~Good(A) /\ \A C \in SUBSET A : C # A => Good(C)
  BY <1>2
<1> HIDE DEF T
<1>4. A # {}
  <2>1. SUFFICES ASSUME A = {} PROVE FALSE
    OBVIOUS
  <2> DEFINE g == [C \in SUBSET A |-> Unit(o)]
  <2>2. g \in [SUBSET A -> Int] /\ Folds(o, v, A, g)
    BY <2>1, JoinFacts DEF Folds
  <2> QED BY <1>3, <2>2
<1> DEFINE Of(C) == CHOOSE g \in [SUBSET C -> Int] : Folds(o, v, C, g)
           B == A \ {Pick(A)}
           h == [C \in SUBSET A |-> IF C = A THEN Join(o, v[Pick(A)], Of(B)[B]) ELSE Of(C)[C]]
<1>5. \A C \in SUBSET A : C # A => Of(C) \in [SUBSET C -> Int] /\ Folds(o, v, C, Of(C))
  BY <1>3
<1>6. Pick(A) \in A /\ B \in SUBSET A /\ B # A
  BY <1>4, PickIn
<1> HIDE DEF Of
<1>7. h \in [SUBSET A -> Int]
  <2>1. v[Pick(A)] \in Int /\ Of(B)[B] \in Int
    BY <1>3, <1>5, <1>6
  <2>2. \A C \in SUBSET A : C # A => Of(C)[C] \in Int
    BY <1>5
  <2>3. Join(o, v[Pick(A)], Of(B)[B]) \in Int
    BY <2>1, JoinFacts
  <2> QED BY <2>2, <2>3
<1>8. ASSUME NEW C \in SUBSET A, C # {}
      PROVE  h[C] = Join(o, v[Pick(C)], h[C \ {Pick(C)}])
  <2>1. CASE C = A
    BY <1>6, <2>1
  <2>2. CASE C # A
    <3> DEFINE D == C \ {Pick(C)}
    <3>1. D \in SUBSET A /\ D \in SUBSET C /\ D # A
      BY <1>8, <2>2, PickIn
    <3>2. h[C] = Of(C)[C] /\ h[D] = Of(D)[D]
      BY <2>2, <3>1
    <3>3. Of(C)[C] = Join(o, v[Pick(C)], Of(C)[D])
      <4>1. Folds(o, v, C, Of(C))
        BY <1>5, <2>2
      <4> QED BY <4>1, <1>8, FoldsRec
    <3>4. Of(C)[D] = Of(D)[D]
      <4>1. Folds(o, v, C, Of(C)) /\ Folds(o, v, D, Of(D))
        BY <1>5, <2>2, <3>1
      <4>2. C \in SUBSET S /\ D \in SUBSET S /\ D \in SUBSET (C \cap D)
        BY <1>3, <3>1
      <4> HIDE DEF D
      <4>3. \A E \in SUBSET (C \cap D) : Of(C)[E] = Of(D)[E]
        BY <4>1, <4>2, SameFold
      <4> QED BY <4>2, <4>3
    <3> QED BY <3>2, <3>3, <3>4
  <2> QED BY <2>1, <2>2
<1>9. h[{}] = Unit(o)
  <2>1. {} \in SUBSET A /\ {} # A /\ Folds(o, v, {}, Of({}))
    BY <1>4, <1>5
  <2>2. Of({})[{}] = Unit(o)
    BY <2>1, FoldsRec
  <2> QED BY <2>1, <2>2
<1>10. Folds(o, v, A, h)
  <2>1. \A C \in SUBSET A : h[C] = IF C = {} THEN Unit(o) ELSE Join(o, v[Pick(C)], h[C \ {Pick(C)}])
    BY <1>8, <1>9
  <2> HIDE DEF h
  <2> QED BY <1>7, <2>1 DEF Folds
<1> HIDE DEF h
<1> QED BY <1>3, <1>7, <1>10

FoldedBy(o, v, S, g) ==
  g \in [SUBSET S -> Int] /\ Folds(o, v, S, g) /\ \A A \in SUBSET S : FoldOn(o, v, A) = g[A]

LEMMA FoldByFolds ==
  \A o, S, v : IsFiniteSet(S) /\ (\A x \in S : v[x] \in Int) => \E g : FoldedBy(o, v, S, g)
<1> SUFFICES ASSUME NEW o, NEW S, NEW v, IsFiniteSet(S), \A x \in S : v[x] \in Int
             PROVE  \E g : FoldedBy(o, v, S, g)
  OBVIOUS
<1>1. PICK g \in [SUBSET S -> Int] : Folds(o, v, S, g)
  BY FoldsExist
<1>2. ASSUME NEW A \in SUBSET S PROVE FoldOn(o, v, A) = g[A]
  <2>1. IsFiniteSet(A) /\ \A x \in A : v[x] \in Int
    BY FS_Subset
  <2>2. \E k : Folds(o, v, A, k)
    BY <2>1, FoldsExist
  <2>3. PICK k : k = (CHOOSE m : Folds(o, v, A, m)) /\ Folds(o, v, A, k)
    BY <2>2
  <2>4. k[A] = g[A]
    BY <1>1, <2>3, FoldsAgree
  <2> QED BY <2>3, <2>4 DEF FoldOn
<1> QED BY <1>1, <1>2 DEF FoldedBy

LEMMA FoldTyped ==
  \A o, S, v : IsFiniteSet(S) /\ (\A x \in S : v[x] \in Int) => FoldOn(o, v, S) \in Int
<1> SUFFICES ASSUME NEW o, NEW S, NEW v, IsFiniteSet(S), \A x \in S : v[x] \in Int
             PROVE  FoldOn(o, v, S) \in Int
  OBVIOUS
<1>1. PICK g : FoldedBy(o, v, S, g)
  BY FoldByFolds
<1> QED BY <1>1 DEF FoldedBy

(* The order of a fold does not matter.                                      *)
LEMMA FoldRemove ==
  \A o, S, v : IsFiniteSet(S) /\ (\A x \in S : v[x] \in Int) =>
    \A z \in S : FoldOn(o, v, S) = Join(o, v[z], FoldOn(o, v, S \ {z}))
<1> SUFFICES ASSUME NEW o, NEW S, NEW v, IsFiniteSet(S), \A x \in S : v[x] \in Int, NEW z \in S
             PROVE  FoldOn(o, v, S) = Join(o, v[z], FoldOn(o, v, S \ {z}))
  OBVIOUS
<1>1. PICK g : FoldedBy(o, v, S, g)
  BY FoldByFolds
<1>a. g \in [SUBSET S -> Int] /\ Folds(o, v, S, g)
  BY <1>1 DEF FoldedBy
<1> DEFINE T == {A \in SUBSET S : \E x \in A : g[A] # Join(o, v[x], g[A \ {x}])}
<1>2. SUFFICES ASSUME T # {} PROVE FALSE
  <2>1. g[S] = Join(o, v[z], g[S \ {z}])
    BY <1>2
  <2>2. FoldOn(o, v, S) = g[S] /\ FoldOn(o, v, S \ {z}) = g[S \ {z}]
    BY <1>1 DEF FoldedBy
  <2> QED BY <2>1, <2>2
<1>3. PICK A \in T : \A B \in T : B \subseteq A => B = A
  <2>1. T \in SUBSET (SUBSET S)
    OBVIOUS
  <2> HIDE DEF T
  <2> QED BY <1>2, <2>1, SmallestSubset
<1>4. PICK x \in A : g[A] # Join(o, v[x], g[A \ {x}])
  BY <1>3
<1>5. A \in SUBSET S /\ \A B \in SUBSET A : B # A => \A y \in B : g[B] = Join(o, v[y], g[B \ {y}])
  BY <1>3
<1> HIDE DEF T
<1> DEFINE p == Pick(A)
<1>6. p \in A /\ g[A] = Join(o, v[p], g[A \ {p}])
  BY <1>a, <1>4, <1>5, PickIn, FoldsRec
<1>7. x # p
  BY <1>4, <1>6
<1> HIDE DEF p
<1>8. g[A \ {p}] = Join(o, v[x], g[(A \ {p}) \ {x}])
  <2>1. A \ {p} \in SUBSET A /\ A \ {p} # A /\ x \in A \ {p}
    BY <1>4, <1>6, <1>7
  <2> QED BY <2>1, <1>5
<1>9. g[A \ {x}] = Join(o, v[p], g[(A \ {p}) \ {x}])
  <2>1. A \ {x} \in SUBSET A /\ A \ {x} # A /\ p \in A \ {x}
    BY <1>4, <1>6, <1>7
  <2>2. (A \ {x}) \ {p} = (A \ {p}) \ {x}
    OBVIOUS
  <2> QED BY <2>1, <2>2, <1>5
<1>10. g[(A \ {p}) \ {x}] \in Int /\ v[p] \in Int /\ v[x] \in Int
  BY <1>a, <1>4, <1>5, <1>6
<1>11. Join(o, v[p], Join(o, v[x], g[(A \ {p}) \ {x}])) = Join(o, v[x], Join(o, v[p], g[(A \ {p}) \ {x}]))
  BY <1>10, JoinFacts
<1> QED BY <1>4, <1>6, <1>8, <1>9, <1>11

LEMMA SumTyped ==
  \A S, v : IsFiniteSet(S) /\ (\A x \in S : v[x] \in Int) => SumFunctionOnSet(v, S) \in Int
  BY FoldTyped, SumIsFold

LEMMA FoldEmpty == \A o, v : FoldOn(o, v, {}) = Unit(o)
<1> SUFFICES ASSUME NEW o, NEW v PROVE FoldOn(o, v, {}) = Unit(o)
  OBVIOUS
<1>1. PICK g : FoldedBy(o, v, {}, g)
  <2>1. IsFiniteSet({}) /\ \A x \in {} : v[x] \in Int
    BY FS_EmptySet
  <2> QED BY <2>1, FoldByFolds
<1> QED BY <1>1, FoldsRec DEF FoldedBy

LEMMA SumEmpty == \A v : SumFunctionOnSet(v, {}) = 0
  BY FoldEmpty, SumIsFold DEF Unit

LEMMA SumRemove ==
  \A S, v : IsFiniteSet(S) /\ (\A x \in S : v[x] \in Int) =>
    \A z \in S : SumFunctionOnSet(v, S) = v[z] + SumFunctionOnSet(v, S \ {z})
<1>1. \A a, b : Join("sum", a, b) = a + b
  BY DEF Join
<1> QED BY <1>1, FoldRemove, SumIsFold

LEMMA FoldAgrees ==
  \A o, S, v, w : IsFiniteSet(S) /\ (\A x \in S : v[x] \in Int /\ v[x] = w[x]) => FoldOn(o, v, S) = FoldOn(o, w, S)
<1> SUFFICES ASSUME NEW o, NEW S, NEW v, NEW w, IsFiniteSet(S), \A x \in S : v[x] \in Int /\ v[x] = w[x]
             PROVE  FoldOn(o, v, S) = FoldOn(o, w, S)
  OBVIOUS
<1>1. (\A x \in S : v[x] \in Int) /\ (\A x \in S : w[x] \in Int)
  OBVIOUS
<1>2. PICK g : FoldedBy(o, v, S, g)
  BY <1>1, FoldByFolds
<1>3. PICK k : FoldedBy(o, w, S, k)
  BY <1>1, FoldByFolds
<1>4. g[S] = k[S]
  BY <1>2, <1>3, FoldsAgree DEF FoldedBy
<1> QED BY <1>2, <1>3, <1>4 DEF FoldedBy

LEMMA SumAgrees ==
  \A S, v, w : IsFiniteSet(S) /\ (\A x \in S : v[x] \in Int /\ v[x] = w[x]) => SumFunctionOnSet(v, S) = SumFunctionOnSet(w, S)
  BY FoldAgrees, SumIsFold

LEMMA SumUnion ==
  \A S, v : IsFiniteSet(S) /\ (\A x \in S : v[x] \in Int) =>
    \A A, B \in SUBSET S : A \cap B = {} => SumFunctionOnSet(v, A \cup B) = SumFunctionOnSet(v, A) + SumFunctionOnSet(v, B)
<1> SUFFICES ASSUME NEW S, NEW v, IsFiniteSet(S), \A x \in S : v[x] \in Int,
                    NEW A \in SUBSET S, NEW B \in SUBSET S, A \cap B = {}
             PROVE  SumFunctionOnSet(v, A \cup B) = SumFunctionOnSet(v, A) + SumFunctionOnSet(v, B)
  OBVIOUS
<1>0. \A C \in SUBSET S : SumFunctionOnSet(v, C) \in Int /\ \A x \in C : SumFunctionOnSet(v, C) = v[x] + SumFunctionOnSet(v, C \ {x})
  <2> TAKE C \in SUBSET S
  <2>1. IsFiniteSet(C) /\ \A x \in C : v[x] \in Int
    BY FS_Subset
  <2> QED BY <2>1, SumTyped, SumRemove
<1> DEFINE T == {C \in SUBSET A : SumFunctionOnSet(v, C \cup B) # SumFunctionOnSet(v, C) + SumFunctionOnSet(v, B)}
<1>1. SUFFICES ASSUME T # {} PROVE FALSE
  OBVIOUS
<1>2. PICK C \in T : \A D \in T : D \subseteq C => D = C
  <2>1. T \in SUBSET (SUBSET S)
    OBVIOUS
  <2> HIDE DEF T
  <2> QED BY <1>1, <2>1, SmallestSubset
<1>3. C # {}
  <2>1. {} \cup B = B /\ SumFunctionOnSet(v, B) \in Int
    BY <1>0
  <2>2. {} \notin T
    BY <2>1, SumEmpty
  <2> QED BY <2>2
<1>4. PICK x \in C : TRUE
  BY <1>3
<1> DEFINE D == C \ {x}
<1>5. SumFunctionOnSet(v, D \cup B) = SumFunctionOnSet(v, D) + SumFunctionOnSet(v, B)
  BY <1>2, <1>4
<1>6. (C \cup B) \ {x} = D \cup B /\ C \in SUBSET S /\ C \cup B \in SUBSET S /\ D \in SUBSET S
  BY <1>2, <1>4
<1>7. SumFunctionOnSet(v, C) = v[x] + SumFunctionOnSet(v, D)
  BY <1>0, <1>4, <1>6
<1>8. SumFunctionOnSet(v, C \cup B) = v[x] + SumFunctionOnSet(v, D \cup B)
  BY <1>0, <1>4, <1>6
<1>9. v[x] \in Int /\ SumFunctionOnSet(v, D) \in Int /\ SumFunctionOnSet(v, B) \in Int
  BY <1>0, <1>4, <1>6
<1>10. SumFunctionOnSet(v, C \cup B) # SumFunctionOnSet(v, C) + SumFunctionOnSet(v, B)
  BY <1>2
<1>11. \A i, j, n \in Int : i + (j + n) = (i + j) + n
  OBVIOUS
<1> HIDE DEF D, T
<1> QED BY <1>5, <1>7, <1>8, <1>9, <1>10, <1>11

LEMMA DivFacts ==
  \A a \in Int, b \in Nat \ {0} : a \div b \in Int /\ (a \div b) * b <= a /\ a < (a \div b) * b + b
  BY Z3

LEMMA DivNat ==
  /\ \A a \in Nat, b \in Nat \ {0} : a \div b \in Nat
  /\ \A b \in Nat : b \div 2 \in Nat /\ 2 * (b \div 2) <= b /\ b <= 2 * (b \div 2) + 1
  OBVIOUS

(* Integer arithmetic that the provers do not see through at once.          *)
LEMMA LessTimes ==
  /\ \A a, b, c \in Nat : a <= b => a * c <= b * c
  /\ \A a, b \in Nat, c \in Nat \ {0} : a < b => a * c < b * c
  /\ \A a, b \in Nat, c \in Nat \ {0} : a * c <= b * c => a <= b
  /\ \A a, b \in Nat, c \in Nat \ {0} : a * c < b * c => a < b
  /\ \A a, b \in Nat, c \in Nat \ {0} : a * c = b * c => a = b
<1>1. \A a, b, c \in Nat : a <= b => a * c <= b * c
  BY Z3
<1>2. \A a, b \in Nat, c \in Nat \ {0} : a < b => a * c < b * c
  BY Z3
<1>3. \A a, b \in Nat, c \in Nat \ {0} : a * c <= b * c => a <= b
  BY <1>2, Z3
<1>4. \A a, b \in Nat, c \in Nat \ {0} : a * c < b * c => a < b
  BY <1>1, Z3
<1>5. \A a, b \in Nat, c \in Nat \ {0} : a * c = b * c => a = b
  BY <1>2, Z3
<1> QED BY <1>1, <1>2, <1>3, <1>4, <1>5

LEMMA TimesFacts ==
  /\ \A a, b \in Nat : a * b \in Nat /\ a * b = b * a
  /\ \A a, b, c \in Nat : (a * b) * c = a * (b * c) /\ (a + b) * c = a * c + b * c
  /\ \A a, b \in Nat : a * b = 0 <=> a = 0 \/ b = 0
<1>1. \A a, b \in Nat : a * b \in Nat /\ a * b = b * a
  BY Z3
<1>2. \A a, b, c \in Nat : (a * b) * c = a * (b * c) /\ (a + b) * c = a * c + b * c
  BY Z3
<1>3. \A a, b \in Nat : a * b = 0 <=> a = 0 \/ b = 0
  BY Z3
<1> QED BY <1>1, <1>2, <1>3

(* A sum with no negative part is at least c for each of some elements.     *)
LEMMA SumAtLeast ==
  ASSUME NEW S, IsFiniteSet(S), NEW v, \A x \in S : v[x] \in Nat, NEW c \in Nat, \A x \in S : v[x] >= c
  PROVE  SumFunctionOnSet(v, S) \in Nat /\ SumFunctionOnSet(v, S) >= c * Cardinality(S)
<1> DEFINE Sum(A) == SumFunctionOnSet(v, A)
           T == {A \in SUBSET S : ~(Sum(A) \in Nat /\ Sum(A) >= c * Cardinality(A))}
<1>1. SUFFICES ASSUME T # {} PROVE FALSE
  OBVIOUS
<1>2. PICK A \in T : \A B \in T : B \subseteq A => B = A
  <2>1. T \in SUBSET (SUBSET S)
    OBVIOUS
  <2> HIDE DEF T
  <2> QED BY <1>1, <2>1, SmallestSubset
<1>3. A # {}
  <2>1. Sum({}) = 0 /\ Cardinality({}) = 0
    BY SumEmpty, FS_EmptySet
  <2>2. c * 0 = 0
    OBVIOUS
  <2>3. Sum({}) \in Nat /\ Sum({}) >= c * Cardinality({})
    BY <2>1, <2>2
  <2>4. A \in T
    OBVIOUS
  <2> HIDE DEF Sum
  <2> QED BY <2>3, <2>4
<1>4. PICK x \in A : TRUE
  BY <1>3
<1> DEFINE B == A \ {x}
<1>5. Sum(B) \in Nat /\ Sum(B) >= c * Cardinality(B)
  BY <1>2, <1>4
<1>6. IsFiniteSet(A) /\ IsFiniteSet(B)
  BY <1>2, FS_Subset
<1>7. Sum(A) = v[x] + Sum(B)
  <2>1. \A y \in A : v[y] \in Int
    BY <1>2
  <2> QED BY <2>1, <1>4, <1>6, SumRemove
<1>8. Cardinality(B) \in Nat /\ Cardinality(A) = Cardinality(B) + 1
  <2>1. Cardinality(A) \in Nat /\ Cardinality(B) \in Nat
    BY <1>6, FS_CardinalityType
  <2>2. Cardinality(B) = Cardinality(A) - 1
    BY <1>4, <1>6, FS_RemoveElement
  <2> QED BY <2>1, <2>2
<1>9. v[x] \in Nat /\ v[x] >= c
  BY <1>2, <1>4
<1>10. c * (Cardinality(B) + 1) = c * Cardinality(B) + c /\ c * Cardinality(B) \in Nat
  BY <1>8, TimesFacts
<1>11. A \in T
  OBVIOUS
<1> HIDE DEF Sum, B
<1>12. Sum(A) \in Nat /\ Sum(A) >= c * Cardinality(A)
  BY <1>5, <1>7, <1>8, <1>9, <1>10
<1> QED BY <1>11, <1>12

(* A part of a sum, and two parts of it.                                    *)
LEMMA SumOfPart ==
  ASSUME NEW S, IsFiniteSet(S), NEW v, \A x \in S : v[x] \in Nat, NEW A \in SUBSET S
  PROVE  /\ SumFunctionOnSet(v, S) \in Nat /\ SumFunctionOnSet(v, A) \in Nat
         /\ SumFunctionOnSet(v, A) <= SumFunctionOnSet(v, S)
<1>1. \A B \in SUBSET S : SumFunctionOnSet(v, B) \in Nat
  <2> TAKE B \in SUBSET S
  <2>1. IsFiniteSet(B) /\ 0 \in Nat /\ \A x \in B : v[x] \in Nat /\ v[x] >= 0
    BY FS_Subset
  <2> QED BY <2>1, SumAtLeast
<1>2. SumFunctionOnSet(v, A \cup (S \ A)) = SumFunctionOnSet(v, A) + SumFunctionOnSet(v, S \ A)
  <2>1. (\A x \in S : v[x] \in Int) /\ A \cap (S \ A) = {} /\ S \ A \in SUBSET S
    OBVIOUS
  <2> QED BY <2>1, SumUnion
<1>3. A \cup (S \ A) = S
  OBVIOUS
<1> QED BY <1>1, <1>2, <1>3

LEMMA SumOfParts ==
  ASSUME NEW S, IsFiniteSet(S), NEW v, \A x \in S : v[x] \in Nat,
         NEW A \in SUBSET S, NEW B \in SUBSET S, A \cap B = {},
         NEW c \in Nat, \A x \in A : v[x] >= c, NEW d \in Nat, \A x \in B : v[x] >= d
  PROVE  SumFunctionOnSet(v, S) >= c * Cardinality(A) + d * Cardinality(B)
<1>1. /\ SumFunctionOnSet(v, A) \in Nat /\ SumFunctionOnSet(v, A) >= c * Cardinality(A)
      /\ SumFunctionOnSet(v, B) \in Nat /\ SumFunctionOnSet(v, B) >= d * Cardinality(B)
  <2>1. IsFiniteSet(A) /\ IsFiniteSet(B) /\ (\A x \in A : v[x] \in Nat) /\ (\A x \in B : v[x] \in Nat)
    BY FS_Subset
  <2> QED BY <2>1, SumAtLeast
<1>2. SumFunctionOnSet(v, A \cup B) = SumFunctionOnSet(v, A) + SumFunctionOnSet(v, B)
  <2>1. \A x \in S : v[x] \in Int
    OBVIOUS
  <2> QED BY <2>1, SumUnion
<1>3. SumFunctionOnSet(v, A \cup B) <= SumFunctionOnSet(v, S) /\ SumFunctionOnSet(v, S) \in Nat
  <2>1. A \cup B \in SUBSET S
    OBVIOUS
  <2> QED BY <2>1, SumOfPart
<1>4. c * Cardinality(A) \in Nat /\ d * Cardinality(B) \in Nat
  <2>1. Cardinality(A) \in Nat /\ Cardinality(B) \in Nat
    BY FS_Subset, FS_CardinalityType
  <2> QED BY <2>1, TimesFacts
<1> QED BY <1>1, <1>2, <1>3, <1>4

(* As many images as elements, if they differ.                              *)
LEMMA Images ==
  ASSUME NEW S, IsFiniteSet(S), NEW f
  PROVE  /\ IsFiniteSet({f[x] : x \in S})
         /\ (\A x, y \in S : f[x] = f[y] => x = y) => Cardinality({f[x] : x \in S}) = Cardinality(S)
<1> DEFINE T == {f[x] : x \in S}
           g == [x \in S |-> f[x]]
<1>1. g \in Surjection(S, T)
  BY DEF Surjection
<1>2. (\A x, y \in S : f[x] = f[y] => x = y) => g \in Injection(S, T)
  <2>1. g \in [S -> T] /\ \A x \in S : g[x] = f[x]
    OBVIOUS
  <2> HIDE DEF g, T
  <2> QED BY <2>1 DEF Injection, IsInjective
<1> HIDE DEF g, T
<1>3. IsFiniteSet(T) /\ (g \in Injection(S, T) => Cardinality(T) = Cardinality(S))
  BY <1>1, FS_Surjection
<1> QED BY <1>2, <1>3 DEF T

LEMMA MinMaxOfTwo ==
  \A a, b \in Int : /\ Min({a, b}) \in {a, b} /\ Min({a, b}) <= a /\ Min({a, b}) <= b
                   /\ Max({a, b}) \in {a, b} /\ Max({a, b}) >= a /\ Max({a, b}) >= b
<1> SUFFICES ASSUME NEW a \in Int, NEW b \in Int
             PROVE  /\ Min({a, b}) \in {a, b} /\ Min({a, b}) <= a /\ Min({a, b}) <= b
                    /\ Max({a, b}) \in {a, b} /\ Max({a, b}) >= a /\ Max({a, b}) >= b
  OBVIOUS
<1>1. CASE a <= b
  <2>1. \E x \in {a, b} : \A y \in {a, b} : x <= y
    BY <1>1
  <2>2. \E x \in {a, b} : \A y \in {a, b} : x >= y
    BY <1>1
  <2> QED BY <2>1, <2>2 DEF Min, Max
<1>2. CASE b <= a
  <2>1. \E x \in {a, b} : \A y \in {a, b} : x <= y
    BY <1>2
  <2>2. \E x \in {a, b} : \A y \in {a, b} : x >= y
    BY <1>2
  <2> QED BY <2>1, <2>2 DEF Min, Max
<1> QED BY <1>1, <1>2

-----------------------------------------------------------------------------
(* 2. What a run knows *)

USE EvaluationAssumption

Suggestions ==
  [metric : RubricMetrics, score : Scores, ref : {a.id : a \in Artifacts} \cup {Unset}, by : Answering]

Runs ==
  [at : {"idle", "read", "ask", "answer", "store", "stored"}, mode : Modes \cup {Unset}, evidence : SUBSET Artifacts,
   engine : Answering \cup {Unset}, suggested : SUBSET Suggestions, log : Logs \cup {Unset},
   llmStatus : {"skipped", "not_configured", "failed", "succeeded"}, status : {Unset, "completed", "needs_review"}]

(* The suggestions are of one engine, each for another metric, in range and *)
(* about the evidence of the run.                                           *)
OfEngine(q, e) ==
  /\ \A x \in q.suggested :
       /\ x.by = e
       /\ x.score \in 0..Rubric[x.metric].max
       /\ x.ref = Unset \/ \E a \in q.evidence : a.id = x.ref
  /\ \A x, y \in q.suggested : x.metric = y.metric => x = y

Unanswered(q) == q.suggested = {} /\ q.log = Unset /\ q.llmStatus = "skipped"

(* The three ways a run is settled: nobody was asked, nobody answered well, *)
(* or one engine did.                                                       *)
Settled(q) ==
  \/ q.mode = "rule_only" /\ Unanswered(q)
  \/ /\ q.mode = "rule_and_llm" /\ q.suggested = {} /\ q.llmStatus \in {"failed", "not_configured"}
     /\ q.log \in Logs /\ q.log.status \in {"skipped", "failed"}
  \/ /\ q.mode = "rule_and_llm" /\ q.suggested # {} /\ q.llmStatus = "succeeded"
     /\ q.log \in Logs /\ q.log.status = "succeeded" /\ OfEngine(q, q.log.engine)

Severe(q) == HasSevereFindings(CollectRuleFindings(q.evidence))

OnCourse(q) ==
  /\ q.at \in {"idle", "read", "ask"} => Unanswered(q)
  /\ q.at = "read" => q.mode \in {"rule_only", "rule_and_llm"}
  /\ q.at \in {"ask", "answer"} => q.mode = "rule_and_llm"
  /\ q.at = "answer" => /\ q.log = Unset /\ q.llmStatus = "skipped"
                        /\ q.engine \in Answering
                        /\ OfEngine(q, q.engine)
  /\ q.at \in {"store", "stored"} => Settled(q)
  /\ q.at = "stored" =>
       q.status = IF Severe(q) \/ q.llmStatus \in {"failed", "not_configured"} THEN "needs_review" ELSE "completed"

EvaluationIInv == run \in Runs /\ stored \subseteq Artifacts /\ OnCourse(run)

LEMMA LogMade ==
  ASSUME NEW e \in Answering, NEW s \in {"skipped", "failed", "succeeded"}
  PROVE  /\ [engine |-> e, status |-> s] \in Logs
         /\ [engine |-> e, status |-> s].engine = e /\ [engine |-> e, status |-> s].status = s
  BY DEF Logs

LEMMA IdleRun == Idle \in Runs /\ OnCourse(Idle)
  BY DEF Idle, Runs, OnCourse, Unanswered

LEMMA InitInvariant == EvaluationInit => EvaluationIInv
  BY IdleRun DEF EvaluationInit, EvaluationIInv

-----------------------------------------------------------------------------
(* Steps *)

LEMMA Begins ==
  ASSUME EvaluationIInv, NEW mode \in Modes, NEW worker \in BOOLEAN, CreateInitialEvaluation(mode, worker)
  PROVE  run' \in Runs /\ OnCourse(run')
  <1>1. PICK w \in {"rule_only", "rule_and_llm"} : w = NormalizeEvaluationMode(mode)
    BY DEF CreateInitialEvaluation
  <1>2. PICK e \in Answering \cup {Unset} : e = IF worker THEN "worker" ELSE Unset
    BY DEF Answering
  <1>3. run' = [Idle EXCEPT !.at = "read", !.mode = w, !.engine = e]
    BY <1>1, <1>2 DEF CreateInitialEvaluation
  <1> QED BY <1>3 DEF Idle, Runs, OnCourse, Unanswered, Modes

LEMMA Reads ==
  ASSUME EvaluationIInv, GetEvaluationContext
  PROVE  run' \in Runs /\ OnCourse(run')
  <1>1. PICK q \in Runs : q = run /\ OnCourse(q) /\ q.at = "read" /\ stored \subseteq Artifacts
    BY DEF EvaluationIInv, GetEvaluationContext
  <1>2. PICK l \in {"ask", "store"} :
          /\ run' = [q EXCEPT !.evidence = stored, !.at = l]
          /\ l = "ask" <=> q.mode = "rule_and_llm"
    BY <1>1 DEF GetEvaluationContext
  <1> QED BY <1>1, <1>2 DEF Runs, OnCourse, Unanswered, Settled

LEMMA Asks ==
  ASSUME EvaluationIInv, EvaluateWithConfiguredAI
  PROVE  run' \in Runs /\ OnCourse(run')
  <1>1. PICK q \in Runs : q = run /\ OnCourse(q) /\ q.at = "ask"
    BY DEF EvaluationIInv, EvaluateWithConfiguredAI
  <1>2. PICK e \in Answering : run' = [q EXCEPT !.at = "answer", !.engine = e]
    BY <1>1 DEF EvaluateWithConfiguredAI, Answering
  <1> QED BY <1>1, <1>2 DEF Runs, OnCourse, Unanswered, OfEngine

LEMMA AsksNobody ==
  ASSUME EvaluationIInv, NotConfigured
  PROVE  run' \in Runs /\ OnCourse(run')
  <1>1. PICK q \in Runs : q = run /\ OnCourse(q) /\ q.at = "ask"
    BY DEF EvaluationIInv, NotConfigured
  <1>2. PICK g \in Logs : g = [engine |-> "llm", status |-> "skipped"] /\ g.status = "skipped"
    BY LogMade DEF Answering
  <1>3. run' = [q EXCEPT !.at = "store", !.llmStatus = "not_configured", !.log = g]
    BY <1>1, <1>2 DEF NotConfigured
  <1> QED BY <1>1, <1>2, <1>3 DEF Runs, OnCourse, Unanswered, Settled

LEMMA Fails ==
  ASSUME EvaluationIInv, run.at = "answer", run' = Failed
  PROVE  run' \in Runs /\ OnCourse(run')
  <1>1. PICK q \in Runs : q = run /\ OnCourse(q) /\ q.at = "answer"
    BY DEF EvaluationIInv
  <1>2. CASE run.engine = "gateway" /\ "llm" \in configured
    <2>1. run' = [q EXCEPT !.engine = "llm", !.suggested = {}]
      BY <1>1, <1>2 DEF Failed
    <2> QED BY <1>1, <2>1 DEF Runs, OnCourse, OfEngine, Answering
  <1>3. CASE ~(run.engine = "gateway" /\ "llm" \in configured)
    <2>1. PICK g \in Logs : g = Log("failed") /\ g.status = "failed" /\ g.engine = q.engine
      <3>1. q.engine \in Answering /\ Log("failed") = [engine |-> q.engine, status |-> "failed"]
        BY <1>1 DEF Log, OnCourse
      <3> QED BY <3>1, LogMade
    <2>2. PICK s \in {"failed", "not_configured"} : s = IF configured = {} THEN "not_configured" ELSE "failed"
      OBVIOUS
    <2>3. run' = [q EXCEPT !.at = "store", !.suggested = {}, !.log = g, !.llmStatus = s]
      BY <1>1, <1>3, <2>1, <2>2 DEF Failed
    <2>4. PICK t \in Runs : /\ t = run' /\ t.at = "store" /\ t.suggested = {} /\ t.log = g
                            /\ t.llmStatus = s /\ t.mode = q.mode
      <3> DEFINE t == [q EXCEPT !.at = "store", !.suggested = {}, !.log = g, !.llmStatus = s]
      <3>1. t \in Runs
        BY DEF Runs
      <3>2. t.at = "store" /\ t.suggested = {} /\ t.log = g /\ t.llmStatus = s /\ t.mode = q.mode
        BY DEF Runs
      <3> QED BY <2>3, <3>1, <3>2
    <2>5. Settled(t)
      BY <1>1, <2>1, <2>4 DEF Settled, OnCourse
    <2> QED BY <2>4, <2>5 DEF OnCourse
  <1> QED BY <1>2, <1>3

(* An entry that fits joins those read before it.                           *)
LEMMA Validates ==
  ASSUME EvaluationIInv, NEW m \in RubricMetrics \cup {Unknown}, NEW score \in Scores, NEW ref \in Refs,
         ValidateLLMOutput(m, score, ref)
  PROVE  run' \in Runs /\ OnCourse(run')
  <1>1. PICK q \in Runs : q = run /\ OnCourse(q) /\ q.at = "answer"
    BY DEF EvaluationIInv, ValidateLLMOutput
  <1>2. CASE Fits(m, score, ref)
    <2>1. q.engine \in Answering /\ OfEngine(q, q.engine) /\ q.evidence \subseteq Artifacts
      BY <1>1 DEF OnCourse, Runs
    <2>2. /\ m \in RubricMetrics /\ \A x \in q.suggested : x.metric # m
          /\ score \in 0..Rubric[m].max
          /\ ref \in {a.id : a \in q.evidence} \cup {Unset}
      BY <1>1, <1>2 DEF Fits, AllowedEvidenceRefs
    <2>3. PICK y \in Suggestions :
            /\ y = [metric |-> m, score |-> score, ref |-> ref, by |-> q.engine]
            /\ y.metric = m /\ y.score = score /\ y.ref = ref /\ y.by = q.engine
      <3>1. ref \in {a.id : a \in Artifacts} \cup {Unset}
        BY <2>1, <2>2
      <3> DEFINE z == [metric |-> m, score |-> score, ref |-> ref, by |-> q.engine]
      <3>2. z \in Suggestions
        BY <2>1, <2>2, <3>1 DEF Suggestions
      <3>3. z.metric = m /\ z.score = score /\ z.ref = ref /\ z.by = q.engine
        OBVIOUS
      <3> QED BY <3>2, <3>3
    <2>4. run' = [q EXCEPT !.suggested = q.suggested \cup {y}]
      BY <1>1, <1>2, <2>3 DEF ValidateLLMOutput
    <2>5. PICK r \in Runs : /\ r = run' /\ r.at = "answer" /\ r.suggested = q.suggested \cup {y}
                            /\ r.evidence = q.evidence /\ r.engine = q.engine /\ r.mode = q.mode
                            /\ r.log = q.log /\ r.llmStatus = q.llmStatus
      BY <1>1, <2>4 DEF Runs
    <2>6. OfEngine(r, r.engine)
      BY <2>1, <2>2, <2>3, <2>5 DEF OfEngine
    <2> QED BY <1>1, <2>5, <2>6 DEF OnCourse
  <1>3. CASE ~Fits(m, score, ref)
    <2>1. run' = Failed /\ run.at = "answer"
      BY <1>3 DEF ValidateLLMOutput
    <2> QED BY <2>1, Fails
  <1> QED BY <1>2, <1>3

LEMMA Ends ==
  ASSUME EvaluationIInv, AnswerEnds
  PROVE  run' \in Runs /\ OnCourse(run')
  <1>1. PICK q \in Runs : q = run /\ OnCourse(q) /\ q.at = "answer"
    BY DEF EvaluationIInv, AnswerEnds
  <1>2. CASE run.suggested = {}
    <2>1. run' = Failed /\ run.at = "answer"
      BY <1>2 DEF AnswerEnds
    <2> QED BY <2>1, Fails
  <1>3. CASE run.suggested # {}
    <2>1. PICK g \in Logs : g = Log("succeeded") /\ g.status = "succeeded" /\ g.engine = q.engine
      <3>1. q.engine \in Answering /\ Log("succeeded") = [engine |-> q.engine, status |-> "succeeded"]
        BY <1>1 DEF Log, OnCourse
      <3> QED BY <3>1, LogMade
    <2>2. run' = [q EXCEPT !.at = "store", !.llmStatus = "succeeded", !.log = g]
      BY <1>1, <1>3, <2>1 DEF AnswerEnds
    <2> QED BY <1>1, <1>3, <2>1, <2>2 DEF Runs, OnCourse, Settled, OfEngine
  <1> QED BY <1>2, <1>3

LEMMA Stores ==
  ASSUME EvaluationIInv, StoreInitialEvaluation
  PROVE  run' \in Runs /\ OnCourse(run')
  <1>1. PICK q \in Runs : q = run /\ OnCourse(q) /\ q.at = "store"
    BY DEF EvaluationIInv, StoreInitialEvaluation
  <1>2. PICK s \in {"needs_review", "completed"} :
          s = IF Severe(q) \/ q.llmStatus \in {"failed", "not_configured"} THEN "needs_review" ELSE "completed"
    OBVIOUS
  <1>3. run' = [q EXCEPT !.at = "stored", !.status = s]
    BY <1>1, <1>2 DEF StoreInitialEvaluation, Severe
  <1>4. PICK t \in Runs : /\ t = run' /\ t.at = "stored" /\ t.status = s /\ t.suggested = q.suggested /\ t.log = q.log
                          /\ t.llmStatus = q.llmStatus /\ t.mode = q.mode /\ t.evidence = q.evidence
    <2> DEFINE t == [q EXCEPT !.at = "stored", !.status = s]
    <2>1. t \in Runs
      BY DEF Runs
    <2>2. /\ t.at = "stored" /\ t.status = s /\ t.suggested = q.suggested /\ t.log = q.log
          /\ t.llmStatus = q.llmStatus /\ t.mode = q.mode /\ t.evidence = q.evidence
      BY DEF Runs
    <2> QED BY <1>3, <2>1, <2>2
  <1>5. Settled(t)
    <2>1. Settled(q)
      BY <1>1 DEF OnCourse
    <2> QED BY <1>4, <2>1 DEF Settled, Unanswered, OfEngine
  <1>6. t.status = IF Severe(t) \/ t.llmStatus \in {"failed", "not_configured"} THEN "needs_review" ELSE "completed"
    BY <1>2, <1>4 DEF Severe
  <1> QED BY <1>4, <1>5, <1>6 DEF OnCourse

(* What a run knows depends on nothing else that changes.                   *)
LEMMA Unmoved ==
  ASSUME spec' = spec, OnCourse(run')
  PROVE  OnCourse(run)'
  <1>1. Severe(run') <=> Severe(run)'
    BY DEF Severe, HasSevereFindings, CollectRuleFindings, ParsingFindings, CompletenessFindings, TextFindings,
       SecurityFindings, Kinds, Text, HasText
  <1> QED BY <1>1 DEF OnCourse, Unanswered, Settled, OfEngine

LEMMA NextInvariant == EvaluationIInv /\ [EvaluationNext]_evaluationVars => EvaluationIInv'
  <1> SUFFICES ASSUME EvaluationIInv, [EvaluationNext]_evaluationVars PROVE EvaluationIInv'
    OBVIOUS
  <1>0. spec' = spec
    BY DEF EvaluationNext, evaluationVars, UploadArtifact, CreateInitialEvaluation, GetEvaluationContext, EvaluateWithConfiguredAI,
       NotConfigured, CallFails, ValidateLLMOutput, AnswerEnds, StoreInitialEvaluation, Abort
  <1>1. CASE run' = run
    <2>1. stored' \subseteq Artifacts
      BY <1>1 DEF EvaluationIInv, EvaluationNext, evaluationVars, UploadArtifact, CreateInitialEvaluation, GetEvaluationContext,
         EvaluateWithConfiguredAI, NotConfigured, CallFails, ValidateLLMOutput, AnswerEnds, StoreInitialEvaluation, Abort
    <2> QED BY <1>0, <1>1, <2>1, Unmoved DEF EvaluationIInv
  <1>2. ASSUME run' # run
        PROVE  stored' = stored /\ run' \in Runs /\ OnCourse(run')
    <2>1. CASE Abort
      BY <2>1, IdleRun DEF Abort
    <2>2. CASE CallFails
      BY <2>2, Fails DEF CallFails
    <2>3. CASE \E a \in Artifacts : UploadArtifact(a)
      BY <1>2, <2>3 DEF UploadArtifact
    <2>4. ASSUME NEW mode \in Modes, NEW worker \in BOOLEAN, CreateInitialEvaluation(mode, worker)
          PROVE  stored' = stored /\ run' \in Runs /\ OnCourse(run')
      BY <2>4, Begins DEF CreateInitialEvaluation
    <2>5. ASSUME NEW m \in RubricMetrics \cup {Unknown}, NEW score \in Scores, NEW ref \in Refs, ValidateLLMOutput(m, score, ref)
          PROVE  stored' = stored /\ run' \in Runs /\ OnCourse(run')
      BY <2>5, Validates DEF ValidateLLMOutput
    <2>6. CASE GetEvaluationContext \/ EvaluateWithConfiguredAI \/ NotConfigured \/ AnswerEnds \/ StoreInitialEvaluation
      BY <2>6, Reads, Asks, AsksNobody, Ends, Stores
         DEF GetEvaluationContext, EvaluateWithConfiguredAI, NotConfigured, AnswerEnds, StoreInitialEvaluation
    <2> QED BY <1>2, <2>1, <2>2, <2>3, <2>4, <2>5, <2>6 DEF EvaluationNext, evaluationVars
  <1> QED BY <1>0, <1>1, <1>2, Unmoved DEF EvaluationIInv

-----------------------------------------------------------------------------
(* What is stored *)

(* Suggestions that are stored are those of one answer, of the engine the   *)
(* call log names, whatever was asked and failed before.                    *)
THEOREM AnswerIsWhole == EvaluationSpec => []SuggestionsOfOneAnswer
  <1>1. EvaluationIInv => SuggestionsOfOneAnswer
    <2> SUFFICES ASSUME EvaluationIInv, Stored PROVE SuggestionsOfOneAnswer
      BY DEF SuggestionsOfOneAnswer
    <2>1. Settled(run)
      BY DEF EvaluationIInv, OnCourse, Stored
    <2>2. CASE run.mode = "rule_only" /\ Unanswered(run)
      BY <2>2 DEF SuggestionsOfOneAnswer, Unanswered
    <2>3. CASE ~(run.mode = "rule_only" /\ Unanswered(run))
      BY <2>1, <2>3 DEF Settled, SuggestionsOfOneAnswer, OfEngine
    <2> QED BY <2>2, <2>3
  <1> QED BY <1>1, InitInvariant, NextInvariant, PTL DEF EvaluationSpec

(* What is severe in the findings of the rules: nothing handed in, a        *)
(* required kind missing, or a text that speaks to the engine.              *)
LEMMA SevereFindings ==
  ASSUME NEW E \in SUBSET Artifacts
  PROVE  HasSevereFindings(CollectRuleFindings(E)) <=>
           E = {} \/ ~(spec.required \subseteq Kinds(E)) \/ (\E a \in E : "injection" \in a.text)
  <1>1. CASE E = {}
    BY <1>1 DEF HasSevereFindings, CollectRuleFindings, Finding
  <1>2. CASE E # {}
    <2> DEFINE Bad(F) == \E f \in F : f.severity = "high"
    <2>1. ~Bad(ParsingFindings(E))
      <3>1. \A a \in E : Extraction(a) # "failed"
        BY DEF Extraction
      <3> QED BY <3>1 DEF ParsingFindings, Finding
    <2>2. Bad(CompletenessFindings(E)) <=> ~(spec.required \subseteq Kinds(E))
      <3>1. Bad(CompletenessFindings(E)) <=>
              spec.required \ Kinds(E) # {} \/ (Kinds(E) \cap Code = {} /\ spec.required \cap CodeNames # {})
        <4>1. \A k, s : Finding("completeness", s, k).severity = s /\ Finding("evidence", s, k).severity = s
          BY DEF Finding
        <4> HIDE DEF Finding
        <4>2. CASE Kinds(E) \cap Code = {}
          BY <4>1, <4>2 DEF CompletenessFindings
        <4>3. CASE Kinds(E) \cap Code # {}
          BY <4>1, <4>3 DEF CompletenessFindings
        <4> QED BY <4>2, <4>3
      <3>2. "source_code" \notin Kinds(E)
        BY DEF Kinds, ArtifactKinds
      <3> QED BY <3>1, <3>2 DEF CodeNames
    <2>3. ~Bad(TextFindings(E))
      BY DEF TextFindings, Finding
    <2>4. Bad(SecurityFindings(E)) <=> \E a \in E : "injection" \in a.text
      <3>1. "injection" \in Text(E) <=> \E a \in E : "injection" \in a.text
        <4>1. "injection" \notin NoText
          BY DEF NoText
        <4>2. "injection" \in UNION {a.text : a \in E} <=> \E a \in E : "injection" \in a.text
          <5>1. ASSUME NEW a \in E, "injection" \in a.text
                PROVE  "injection" \in UNION {x.text : x \in E}
            BY <5>1, Zenon
          <5>2. ASSUME "injection" \in UNION {x.text : x \in E}
                PROVE  \E a \in E : "injection" \in a.text
            BY <5>2, Zenon
          <5> QED BY <5>1, <5>2
        <4>3. "injection" \in Text(E) <=> "injection" \in UNION {a.text : a \in E}
          <5> DEFINE U == UNION {a.text : a \in E}
          <5>1. Text(E) = U \ NoText
            BY Zenon DEF Text
          <5> HIDE DEF U
          <5>2. "injection" \in Text(E) <=> "injection" \in U
            BY <4>1, <5>1
          <5> QED BY <5>2 DEF U
        <4> QED BY <4>2, <4>3, Zenon
      <3>2. Finding("security", "high", "injection").severity = "high" /\ Finding("security", "medium", "secret").severity = "medium"
        BY DEF Finding
      <3>3. Bad(SecurityFindings(E)) <=> "injection" \in Text(E)
        BY <3>2 DEF SecurityFindings
      <3> QED BY <3>1, <3>3
    <2>5. CollectRuleFindings(E) = ParsingFindings(E) \cup CompletenessFindings(E) \cup TextFindings(E) \cup SecurityFindings(E)
      BY <1>2 DEF CollectRuleFindings
    <2> QED BY <1>2, <2>1, <2>2, <2>3, <2>4, <2>5 DEF HasSevereFindings
  <1> QED BY <1>1, <1>2

(* An evaluation is completed exactly when its evidence had nothing severe  *)
(* and the engine that was asked, if one was, answered in good form.        *)
THEOREM CompletedAsEvidenceAllows == EvaluationSpec => []CompletedIsSound
  <1>1. EvaluationIInv => CompletedIsSound
    <2> SUFFICES ASSUME EvaluationIInv, Stored PROVE CompletedIsSound
      BY DEF CompletedIsSound
    <2>1. PICK E \in SUBSET Artifacts : E = run.evidence
      BY DEF EvaluationIInv, Runs
    <2>2. /\ Settled(run)
          /\ run.status = IF Severe(run) \/ run.llmStatus \in {"failed", "not_configured"} THEN "needs_review" ELSE "completed"
      BY DEF EvaluationIInv, OnCourse, Stored
    <2>3. run.llmStatus \in {"failed", "not_configured"} <=> ~(run.mode = "rule_only" \/ run.llmStatus = "succeeded")
      BY <2>2 DEF Settled, Unanswered
    <2>4. Severe(run) <=>
            run.evidence = {} \/ ~(spec.required \subseteq Kinds(run.evidence)) \/ (\E a \in run.evidence : "injection" \in a.text)
      BY <2>1, SevereFindings DEF Severe
    <2> QED BY <2>2, <2>3, <2>4 DEF CompletedIsSound
  <1> QED BY <1>1, InitInvariant, NextInvariant, PTL DEF EvaluationSpec

-----------------------------------------------------------------------------
(* 3. The findings of an evaluation *)

Severities == {"high", "medium", "low"}

Categories == {"evidence", "parsing", "steps", "completeness", "security", "logic"}

Abouts(E) ==
  {a.id : a \in E} \cup (spec.required \cup spec.sections \cup spec.steps \cup spec.keywords)
    \cup {"artifacts", "code", "text", "injection", "secret"}

FindingsAbout(T) == {Finding(x[1][1], x[1][2], x[2]) : x \in (Categories \X Severities) \X T}

LEMMA SixFinite == \A a, b, c, d, e, f : IsFiniteSet({a, b, c, d, e, f})
<1> TAKE a, b, c, d, e, f
<1>1. IsFiniteSet({a} \cup {b}) /\ IsFiniteSet({c} \cup {d}) /\ IsFiniteSet({e} \cup {f})
  BY FS_Singleton, FS_AddElement
<1>2. IsFiniteSet(({a} \cup {b}) \cup ({c} \cup {d}))
  BY <1>1, FS_Union
<1>3. IsFiniteSet((({a} \cup {b}) \cup ({c} \cup {d})) \cup ({e} \cup {f}))
  BY <1>1, <1>2, FS_Union
<1>4. (({a} \cup {b}) \cup ({c} \cup {d})) \cup ({e} \cup {f}) = {a, b, c, d, e, f}
  OBVIOUS
<1> QED BY <1>3, <1>4

LEMMA FindingsFinite == \A T : IsFiniteSet(T) => IsFiniteSet(FindingsAbout(T))
<1> TAKE T
<1> HAVE IsFiniteSet(T)
<1>1. IsFiniteSet(Categories)
  BY SixFinite DEF Categories
<1>2. IsFiniteSet(Severities)
  <2>1. Severities = {"high", "medium", "low", "low", "low", "low"}
    BY DEF Severities
  <2> QED BY <2>1, SixFinite
<1> DEFINE D == (Categories \X Severities) \X T
           f == [x \in D |-> Finding(x[1][1], x[1][2], x[2])]
<1>3. IsFiniteSet(D)
  <2>1. IsFiniteSet(Categories \X Severities)
    BY <1>1, <1>2, FS_Product
  <2> QED BY <2>1, FS_Product
<1>4. FindingsAbout(T) = {f[x] : x \in D}
  BY DEF FindingsAbout
<1> HIDE DEF f, D
<1> QED BY <1>3, <1>4, Images

LEMMA FindingsTyped ==
  ASSUME spec \in Specs, NEW E \in SUBSET Artifacts
  PROVE  /\ IsFiniteSet(CollectRuleFindings(E))
         /\ \A f \in CollectRuleFindings(E) : f.severity \in Severities
<1> DEFINE F == CollectRuleFindings(E)
<1>1. \A c \in Categories, s \in Severities, t \in Abouts(E) : Finding(c, s, t) \in FindingsAbout(Abouts(E))
  <2> TAKE c \in Categories, s \in Severities, t \in Abouts(E)
  <2> DEFINE x == <<<<c, s>>, t>>
  <2>1. x \in (Categories \X Severities) \X Abouts(E) /\ x[1][1] = c /\ x[1][2] = s /\ x[2] = t
    OBVIOUS
  <2> HIDE DEF x
  <2> QED BY <2>1 DEF FindingsAbout
<1>2. ParsingFindings(E) \subseteq FindingsAbout(Abouts(E))
  <2>1. \A a \in E : a.id \in Abouts(E)
    BY DEF Abouts
  <2> QED BY <1>1, <2>1 DEF ParsingFindings, Categories, Severities
<1>3. CompletenessFindings(E) \subseteq FindingsAbout(Abouts(E))
  <2>1. spec.required \subseteq Abouts(E) /\ "code" \in Abouts(E)
    BY DEF Abouts
  <2> QED BY <1>1, <2>1 DEF CompletenessFindings, Categories, Severities
<1>4. TextFindings(E) \subseteq FindingsAbout(Abouts(E))
  <2>1. spec.sections \subseteq Abouts(E) /\ spec.steps \subseteq Abouts(E) /\ spec.keywords \subseteq Abouts(E) /\ "text" \in Abouts(E)
    BY DEF Abouts
  <2> QED BY <1>1, <2>1 DEF TextFindings, Categories, Severities
<1>5. SecurityFindings(E) \subseteq FindingsAbout(Abouts(E))
  <2>1. "injection" \in Abouts(E) /\ "secret" \in Abouts(E)
    BY DEF Abouts
  <2> QED BY <1>1, <2>1 DEF SecurityFindings, Categories, Severities
<1>6. F \subseteq FindingsAbout(Abouts(E))
  <2>1. "artifacts" \in Abouts(E)
    BY DEF Abouts
  <2>2. {Finding("completeness", "high", "artifacts")} \subseteq FindingsAbout(Abouts(E))
    BY <1>1, <2>1 DEF Categories, Severities
  <2> QED BY <1>2, <1>3, <1>4, <1>5, <2>2 DEF CollectRuleFindings
<1>7. IsFiniteSet(Abouts(E))
  <2> DEFINE ids == {a.id : a \in E}
             words == spec.required \cup spec.sections \cup spec.steps \cup spec.keywords
             fixed == {"artifacts", "code", "text", "injection", "secret"}
  <2>1. IsFiniteSet(ids)
    <3> DEFINE id == [a \in E |-> a.id]
    <3>1. IsFiniteSet(E)
      BY FS_Subset
    <3>2. IsFiniteSet({id[a] : a \in E})
      <4> HIDE DEF id
      <4> QED BY <3>1, Images
    <3>3. ids = {id[a] : a \in E}
      OBVIOUS
    <3> QED BY <3>2, <3>3
  <2>2. IsFiniteSet(words)
    OBVIOUS
  <2>3. IsFiniteSet(fixed)
    <3>1. fixed = {"artifacts", "code", "text", "injection", "secret", "secret"}
      OBVIOUS
    <3> HIDE DEF fixed
    <3> QED BY <3>1, SixFinite
  <2>4. Abouts(E) = (ids \cup words) \cup fixed
    BY DEF Abouts
  <2> HIDE DEF ids, words, fixed
  <2>5. IsFiniteSet(ids \cup words)
    BY <2>1, <2>2, FS_Union
  <2>6. IsFiniteSet((ids \cup words) \cup fixed)
    BY <2>3, <2>5, FS_Union
  <2> QED BY <2>4, <2>6
<1>8. IsFiniteSet(F)
  <2> HIDE DEF F
  <2>1. IsFiniteSet(FindingsAbout(Abouts(E)))
    BY <1>7, FindingsFinite
  <2> QED BY <1>6, <2>1, FS_Subset
<1>9. \A f \in F : f.severity \in Severities
  <2>1. \A x \in (Categories \X Severities) \X Abouts(E) : Finding(x[1][1], x[1][2], x[2]).severity \in Severities
    BY DEF Finding
  <2> QED BY <1>6, <2>1 DEF FindingsAbout
<1> QED BY <1>8, <1>9

Penalties(m, F) == [f \in F |-> FindingPenalty(m, f)]

LEMMA PenaltyFacts ==
  ASSUME NEW m, NEW f, f.severity \in Severities
  PROVE  /\ BasePenalty(f.severity) \in {30, 15, 5}
         /\ (f.severity = "high" => BasePenalty(f.severity) = 30)
         /\ (f.severity = "medium" => BasePenalty(f.severity) = 15)
         /\ FindingPenalty(m, f) \in Nat /\ FindingPenalty(m, f) >= BasePenalty(f.severity)
<1>1. /\ BasePenalty(f.severity) \in {30, 15, 5}
      /\ (f.severity = "high" => BasePenalty(f.severity) = 30)
      /\ (f.severity = "medium" => BasePenalty(f.severity) = 15)
  BY DEF BasePenalty, Severities
<1>2. PICK more \in {0, 5} : more = IF Group(f.category) \in Rubric[m].about THEN 5 ELSE 0
  OBVIOUS
<1>3. FindingPenalty(m, f) = BasePenalty(f.severity) + more
  BY <1>2 DEF FindingPenalty
<1> QED BY <1>1, <1>2, <1>3

(* The sum the rules take with the library is the fold of section 1.        *)
LEMMA PenaltyIsSum ==
  ASSUME NEW m, NEW F, IsFiniteSet(F), \A f \in F : FindingPenalty(m, f) \in Int
  PROVE  Penalty(m, F) = Min({80, SumFunctionOnSet(Penalties(m, F), F)})
<1> DEFINE Sums(g) ==
             g = [A \in SUBSET F |-> IF A = {} THEN 0 ELSE FindingPenalty(m, Pick(A)) + g[A \ {Pick(A)}]]
           k == CHOOSE g : Sums(g)
           v == Penalties(m, F)
<1>1. Penalty(m, F) = Min({80, k[F]})
  BY DEF Penalty, MapThenSumSet, MapThenFoldSet, Pick
<1>2. \A g : Folds("sum", v, F, g) <=> Sums(g)
  <2> TAKE g
  <2> DEFINE left == [A \in SUBSET F |-> IF A = {} THEN Unit("sum") ELSE Join("sum", v[Pick(A)], g[A \ {Pick(A)}])]
             right == [A \in SUBSET F |-> IF A = {} THEN 0 ELSE FindingPenalty(m, Pick(A)) + g[A \ {Pick(A)}]]
  <2>1. Unit("sum") = 0 /\ \A a, b : Join("sum", a, b) = a + b
    BY DEF Unit, Join
  <2>2. \A A \in SUBSET F : A # {} => v[Pick(A)] = FindingPenalty(m, Pick(A))
    BY PickIn DEF Penalties
  <2>3. left = right
    BY <2>1, <2>2
  <2>4. Folds("sum", v, F, g) <=> g = left
    BY DEF Folds
  <2> QED BY <2>3, <2>4
<1>3. \A f \in F : v[f] \in Int
  BY DEF Penalties
<1> HIDE DEF v, Sums
<1>4. PICK g : FoldedBy("sum", v, F, g)
  BY <1>3, FoldByFolds
<1>5. Folds("sum", v, F, g) /\ FoldOn("sum", v, F) = g[F]
  BY <1>4 DEF FoldedBy
<1>6. Sums(k)
  BY <1>2, <1>5
<1> HIDE DEF k
<1>7. Folds("sum", v, F, k)
  BY <1>2, <1>6
<1>8. k[F] = g[F]
  BY <1>5, <1>7, SameFold
<1> QED BY <1>1, <1>5, <1>8, SumIsFold DEF v

(* What the findings cost: 30 percent for each kind that is missing, 15 for *)
(* each upload, whatever else is found.                                     *)
LEMMA FindingsCost ==
  ASSUME spec \in Specs, NEW E \in SUBSET Artifacts, E # {}, NEW m
  PROVE  LET F == CollectRuleFindings(E)
             missing == Cardinality(spec.required \ Kinds(E))
             uploads == Cardinality({a \in E : a.kind # "git_link"})
         IN  /\ missing \in Nat /\ uploads \in Nat
             /\ SumFunctionOnSet(Penalties(m, F), F) >= 30 * missing + 15 * uploads
<1> DEFINE F == CollectRuleFindings(E)
           v == Penalties(m, F)
           kinds == spec.required \ Kinds(E)
           sent == {a \in E : a.kind # "git_link"}
           about == [k \in kinds |-> Finding("completeness", "high", k)]
           queued == [a \in sent |-> Finding("parsing", "medium", a.id)]
           A == {about[k] : k \in kinds}
           B == {queued[a] : a \in sent}
<1>1. IsFiniteSet(kinds) /\ IsFiniteSet(sent)
  <2> DEFINE words == spec.required \cup spec.sections \cup spec.steps \cup spec.keywords
  <2>1. kinds \in SUBSET words /\ sent \in SUBSET Artifacts
    OBVIOUS
  <2>2. IsFiniteSet(words) /\ IsFiniteSet(Artifacts)
    OBVIOUS
  <2> HIDE DEF kinds, sent, words
  <2> QED BY <2>1, <2>2, FS_Subset
<1>2. Cardinality(A) = Cardinality(kinds)
  <2>1. \A x, y \in kinds : about[x] = about[y] => x = y
    BY DEF Finding
  <2> HIDE DEF about, kinds
  <2> QED BY <1>1, <2>1, Images
<1>3. Cardinality(B) = Cardinality(sent)
  <2>1. \A x, y \in sent : queued[x] = queued[y] => x.id = y.id
    BY DEF Finding
  <2>2. \A x, y \in sent : x.id = y.id => x = y
    OBVIOUS
  <2>3. \A x, y \in sent : queued[x] = queued[y] => x = y
    BY <2>1, <2>2
  <2> HIDE DEF queued, sent
  <2> QED BY <1>1, <2>3, Images
<1>4. A \in SUBSET F
  <2>1. A \subseteq CompletenessFindings(E)
    <3>1. \A k \in kinds : about[k] = Finding("completeness", "high", k)
      OBVIOUS
    <3>2. {Finding("completeness", "high", k) : k \in kinds} \subseteq CompletenessFindings(E)
      BY DEF CompletenessFindings
    <3> HIDE DEF about, kinds
    <3> QED BY <3>1, <3>2
  <2> QED BY <2>1 DEF CollectRuleFindings
<1>5. B \in SUBSET F
  <2>1. B \subseteq ParsingFindings(E)
    BY DEF ParsingFindings, Extraction
  <2> QED BY <2>1 DEF CollectRuleFindings
<1>a. \A f \in A : f.category = "completeness" /\ f.severity = "high"
  <2> TAKE f \in A
  <2>1. PICK k \in kinds : f = about[k]
    OBVIOUS
  <2>2. f = Finding("completeness", "high", k)
    BY <2>1
  <2> QED BY <2>2 DEF Finding
<1>b. \A f \in B : f.category = "parsing" /\ f.severity = "medium"
  <2> TAKE f \in B
  <2>1. PICK a \in sent : f = queued[a]
    OBVIOUS
  <2>2. f = Finding("parsing", "medium", a.id)
    BY <2>1
  <2> QED BY <2>2 DEF Finding
<1> HIDE DEF A, B
<1>6. A \cap B = {}
  <2>1. "completeness" # "parsing"
    OBVIOUS
  <2> QED BY <1>a, <1>b, <2>1
<1>7. IsFiniteSet(F) /\ \A f \in F : f.severity \in Severities
  BY FindingsTyped
<1>8. \A f \in F : v[f] \in Nat /\ v[f] >= BasePenalty(f.severity)
  BY <1>7, PenaltyFacts DEF Penalties
<1>9. \A f \in A : v[f] >= 30
  <2> TAKE f \in A
  <2>1. f.severity = "high" /\ f \in F
    BY <1>4, <1>a
  <2>2. v[f] \in Nat /\ v[f] >= 30
    BY <2>1, <1>7, <1>8, PenaltyFacts
  <2> QED BY <2>2
<1>10. \A f \in B : v[f] >= 15
  <2> TAKE f \in B
  <2>1. f.severity = "medium" /\ f \in F
    BY <1>5, <1>b
  <2>2. v[f] \in Nat /\ v[f] >= 15
    BY <2>1, <1>7, <1>8, PenaltyFacts
  <2> QED BY <2>2
<1>11. SumFunctionOnSet(v, F) >= 30 * Cardinality(A) + 15 * Cardinality(B)
  <2> HIDE DEF v, F
  <2> QED BY <1>4, <1>5, <1>6, <1>7, <1>8, <1>9, <1>10, SumOfParts
<1>12. Cardinality(kinds) \in Nat /\ Cardinality(sent) \in Nat
  BY <1>1, FS_CardinalityType
<1> QED BY <1>2, <1>3, <1>11, <1>12

(* A share of at most 80 percent of max, rounded down.                      *)
LEMMA LessShare ==
  ASSUME NEW max \in Nat, NEW p \in 0..80, NEW d, d = (max * p) \div 100
  PROVE  /\ d \in Nat /\ d <= max /\ 5 * d <= 4 * max
         /\ d = 0 => max * p < 100
<1>1. max * p \in Nat /\ max * p <= max * 80
  <2>1. p \in Nat /\ p <= 80 /\ p * max = max * p /\ 80 * max = max * 80
    BY TimesFacts
  <2> QED BY <2>1, LessTimes, TimesFacts
<1> DEFINE n == max * p
<1>2. d = n \div 100
  OBVIOUS
<1> HIDE DEF n
<1>3. d \in Nat /\ d * 100 <= n /\ n < d * 100 + 100
  BY <1>1, <1>2, DivFacts, DivNat DEF n
<1>4. n \in Nat /\ n <= max * 80
  BY <1>1 DEF n
<1>5. d \in Nat /\ d <= max /\ 5 * d <= 4 * max /\ (d = 0 => n < 100)
  BY <1>3, <1>4
<1> QED BY <1>5 DEF n

LEMMA ShareMonotonic ==
  ASSUME NEW max \in Nat, NEW p \in Nat, NEW q \in Nat, p <= q
  PROVE  (max * p) \div 100 <= (max * q) \div 100
<1> DEFINE a == max * p
           b == max * q
<1>1. a \in Nat /\ b \in Nat /\ a <= b
  <2>1. p * max = max * p /\ q * max = max * q
    BY TimesFacts
  <2> QED BY <2>1, LessTimes, TimesFacts
<1> HIDE DEF a, b
<1>2. a \div 100 <= b \div 100
  BY <1>1
<1> QED BY <1>2 DEF a, b

LEMMA RuleScoresInRange ==
  ASSUME spec \in Specs, NEW E \in SUBSET Artifacts, NEW m \in DOMAIN Rubric
  PROVE  LET max == Rubric[m].max
             F == CollectRuleFindings(E)
             missing == Cardinality(spec.required \ Kinds(E))
             uploads == Cardinality({a \in E : a.kind # "git_link"})
         IN  /\ RuleScore(m, E) <= max
             /\ 5 * RuleScore(m, E) >= max
             /\ E # {} => RuleScore(m, E) <= max - (max * Min({80, 30 * missing + 15 * uploads})) \div 100
             /\ RuleScore(m, E) = max => \A f \in F : max * BasePenalty(f.severity) < 100
<1> DEFINE F == CollectRuleFindings(E)
           v == Penalties(m, F)
           sum == SumFunctionOnSet(v, F)
           max == Rubric[m].max
           pen == Penalty(m, F)
           d == (max * pen) \div 100
           score == RuleScore(m, E)
           missing == Cardinality(spec.required \ Kinds(E))
           uploads == Cardinality({a \in E : a.kind # "git_link"})
           least == Min({80, 30 * missing + 15 * uploads})
<1>1. IsFiniteSet(F) /\ \A f \in F : f.severity \in Severities
  BY FindingsTyped
<1>2. \A f \in F : v[f] \in Nat /\ v[f] >= BasePenalty(f.severity) /\ v[f] = FindingPenalty(m, f)
  BY <1>1, PenaltyFacts DEF Penalties
<1>3. max \in Nat \ {0}
  OBVIOUS
<1>4. score = Max({0, max - d})
  BY DEF RuleScore
<1>5. pen = Min({80, sum})
  <2>1. \A f \in F : FindingPenalty(m, f) \in Int
    BY <1>2
  <2> QED BY <1>1, <2>1, PenaltyIsSum
<1>6. E # {} => missing \in Nat /\ uploads \in Nat /\ sum >= 30 * missing + 15 * uploads
  BY FindingsCost, MinMaxOfTwo
<1> HIDE DEF F, v, sum, max, pen, score, missing, uploads
<1>7. sum \in Nat /\ \A f \in F : sum >= v[f]
  <2>1. sum \in Nat
    <3>1. 0 \in Nat /\ \A f \in F : v[f] \in Nat /\ v[f] >= 0
      BY <1>2
    <3> QED BY <1>1, <3>1, SumAtLeast DEF sum
  <2>2. ASSUME NEW f \in F PROVE sum >= v[f]
    <3>1. (\A g \in F : v[g] \in Int) /\ (\A g \in F : v[g] \in Nat) /\ F \ {f} \in SUBSET F
      BY <1>2
    <3>2. sum = v[f] + SumFunctionOnSet(v, F \ {f})
      BY <1>1, <3>1, SumRemove DEF sum
    <3>3. SumFunctionOnSet(v, F \ {f}) \in Nat
      BY <1>1, <3>1, SumOfPart
    <3> QED BY <3>1, <3>2, <3>3, <2>1
  <2> QED BY <2>1, <2>2
<1>8. pen \in 0..80 /\ pen \in {80, sum}
  <2>1. 80 \in Int /\ sum \in Int
    BY <1>7
  <2>2. Min({80, sum}) \in {80, sum} /\ Min({80, sum}) <= 80 /\ Min({80, sum}) <= sum
    BY <2>1, MinMaxOfTwo
  <2> QED BY <2>1, <2>2, <1>5, <1>7
<1>9. d \in Nat /\ d <= max /\ 5 * d <= 4 * max /\ (d = 0 => max * pen < 100)
  BY <1>3, <1>8, LessShare
<1> HIDE DEF d
<1>10. score = max - d
  <2>1. 0 \in Int /\ max - d \in Int /\ max - d >= 0
    BY <1>3, <1>9
  <2>2. score \in {0, max - d} /\ score >= max - d
    BY <1>4, <2>1, MinMaxOfTwo
  <2>3. score >= 0
    BY <1>4, <2>1, MinMaxOfTwo
  <2> QED BY <2>1, <2>2, <2>3
<1>11. score <= max /\ 5 * score >= max
  BY <1>3, <1>9, <1>10
<1>12. E # {} => score <= max - (max * least) \div 100
  <2> SUFFICES ASSUME E # {} PROVE score <= max - (max * least) \div 100
    OBVIOUS
  <2>1. 30 * missing + 15 * uploads \in Nat /\ 30 * missing + 15 * uploads <= sum
    BY <1>6, <1>7
  <2>2. least \in Nat /\ least <= pen
    <3> DEFINE cost == 30 * missing + 15 * uploads
    <3>1. cost \in Nat /\ cost <= sum
      BY <2>1
    <3> HIDE DEF cost
    <3>2. Min({80, cost}) \in {80, cost} /\ Min({80, cost}) <= 80 /\ Min({80, cost}) <= cost
      <4>1. 80 \in Int /\ cost \in Int
        BY <3>1
      <4> QED BY <4>1, MinMaxOfTwo
    <3>3. Min({80, cost}) \in Nat /\ Min({80, cost}) <= pen
      BY <1>7, <1>8, <3>1, <3>2
    <3> QED BY <3>3 DEF cost
  <2> HIDE DEF least
  <2>3. (max * least) \div 100 <= d
    BY <1>3, <1>8, <2>2, ShareMonotonic DEF d
  <2>4. (max * least) \div 100 \in Int
    <3>1. max * least \in Int
      BY <1>3, <2>2, TimesFacts
    <3> QED BY <3>1, DivFacts
  <2> QED BY <2>3, <2>4, <1>3, <1>9, <1>10
<1>13. ASSUME score = max, NEW f \in F PROVE max * BasePenalty(f.severity) < 100
  <2> DEFINE base == BasePenalty(f.severity)
  <2>1. d = 0
    BY <1>3, <1>9, <1>10, <1>13
  <2>2. max * pen < 100
    BY <2>1, <1>9
  <2>3. base \in {30, 15, 5}
    BY <1>1, PenaltyFacts
  <2>4. base <= pen
    <3>1. v[f] \in Nat /\ v[f] >= base
      BY <1>2
    <3> QED BY <2>3, <3>1, <1>7, <1>8
  <2> HIDE DEF base
  <2>5. max * base <= max * pen /\ max * base \in Nat /\ max * pen \in Nat
    <3>1. base \in Nat /\ pen \in Nat
      BY <2>3, <1>8
    <3>2. base * max = max * base /\ pen * max = max * pen
      BY <3>1, <1>3, TimesFacts
    <3> QED BY <3>1, <3>2, <2>4, <1>3, LessTimes, TimesFacts
  <2>6. max * base < 100
    BY <2>2, <2>5
  <2> QED BY <2>6 DEF base
<1>14. \A f \in F : score = max => max * BasePenalty(f.severity) < 100
  BY <1>13
<1> QED BY <1>11, <1>12, <1>14 DEF score, max, F, missing, uploads

-----------------------------------------------------------------------------
(* What an evaluation has read *)

EvidenceKept ==
  /\ spec \in Specs /\ stored \in SUBSET Artifacts
  /\ "evidence" \in DOMAIN run /\ run.evidence \in SUBSET Artifacts

LEMMA EvidenceInit == EvaluationInit => EvidenceKept
  BY DEF EvaluationInit, Idle, EvidenceKept

LEMMA EvidenceStep == EvidenceKept /\ [EvaluationNext]_evaluationVars => EvidenceKept'
<1> SUFFICES ASSUME EvidenceKept, [EvaluationNext]_evaluationVars PROVE EvidenceKept'
  OBVIOUS
<1> USE DEF EvidenceKept
<1>1. ASSUME NEW a \in Artifacts, UploadArtifact(a) PROVE EvidenceKept'
  BY <1>1 DEF UploadArtifact
<1>2. ASSUME NEW mode \in Modes, NEW worker \in BOOLEAN, CreateInitialEvaluation(mode, worker) PROVE EvidenceKept'
  BY <1>2 DEF CreateInitialEvaluation, Idle
<1>3. CASE GetEvaluationContext
  BY <1>3 DEF GetEvaluationContext
<1>4. CASE EvaluateWithConfiguredAI \/ NotConfigured
  <2>1. CASE EvaluateWithConfiguredAI
    BY <2>1 DEF EvaluateWithConfiguredAI
  <2>2. CASE NotConfigured
    BY <2>2 DEF NotConfigured
  <2> QED BY <1>4, <2>1, <2>2
<1>5. "evidence" \in DOMAIN Failed /\ Failed.evidence = run.evidence
  BY DEF Failed
<1>6. CASE CallFails
  BY <1>5, <1>6 DEF CallFails
<1>7. ASSUME NEW m, NEW score, NEW ref, ValidateLLMOutput(m, score, ref) PROVE EvidenceKept'
  BY <1>5, <1>7 DEF ValidateLLMOutput
<1>8. CASE AnswerEnds
  BY <1>5, <1>8 DEF AnswerEnds
<1>9. CASE StoreInitialEvaluation
  BY <1>9 DEF StoreInitialEvaluation
<1>10. CASE Abort
  BY <1>10 DEF Abort, Idle
<1>11. CASE UNCHANGED evaluationVars
  BY <1>11 DEF evaluationVars
<1> QED BY <1>1, <1>2, <1>3, <1>4, <1>6, <1>7, <1>8, <1>9, <1>10, <1>11 DEF EvaluationNext

(* A rule score is in the range of its metric, no lower than a fifth of it, *)
(* and as low as what is missing and what is queued make it, for any        *)
(* artifacts, specification and rubric (evaluation_rules.go).               *)
THEOREM RuleScoresAreInRange == EvaluationSpec => []RuleScoresFit
<1>1. EvidenceKept => RuleScoresFit
  BY RuleScoresInRange DEF EvidenceKept, RuleScoresFit, RubricMetrics
<1> QED BY <1>1, EvidenceInit, EvidenceStep, PTL DEF EvaluationSpec

(* Whatever else is found, a score is not better for it: of two evidences   *)
(* the one with all the findings of the other has no higher score           *)
(* (buildRuleMetricScores in evaluation_rules.go).                          *)
THEOREM MoreFindingsNoHigherScore ==
  ASSUME spec \in Specs, NEW C \in SUBSET Artifacts, NEW D \in SUBSET Artifacts,
         CollectRuleFindings(C) \subseteq CollectRuleFindings(D), NEW m \in DOMAIN Rubric
  PROVE  RuleScore(m, D) <= RuleScore(m, C)
<1> DEFINE F == CollectRuleFindings(C)
           G == CollectRuleFindings(D)
           v == Penalties(m, F)
           w == Penalties(m, G)
           few == SumFunctionOnSet(v, F)
           many == SumFunctionOnSet(w, G)
           p == Penalty(m, F)
           q == Penalty(m, G)
           max == Rubric[m].max
<1>1. IsFiniteSet(F) /\ IsFiniteSet(G) /\ F \in SUBSET G
  BY FindingsTyped
<1>2. \A f \in G : FindingPenalty(m, f) \in Nat /\ w[f] = FindingPenalty(m, f) /\ (f \in F => v[f] = w[f])
  BY FindingsTyped, PenaltyFacts DEF Penalties
<1>3. p = Min({80, few}) /\ q = Min({80, many})
  <2>1. (\A f \in F : FindingPenalty(m, f) \in Int) /\ (\A f \in G : FindingPenalty(m, f) \in Int)
    BY <1>1, <1>2
  <2> QED BY <1>1, <2>1, PenaltyIsSum
<1>4. RuleScore(m, C) = Max({0, max - (max * p) \div 100}) /\ RuleScore(m, D) = Max({0, max - (max * q) \div 100})
  BY DEF RuleScore
<1>5. max \in Nat
  OBVIOUS
<1> HIDE DEF F, G, v, w, p, q, max
<1>6. few \in Nat /\ many \in Nat /\ few <= many
  <2>1. \A f \in F : v[f] \in Int /\ v[f] = w[f]
    BY <1>1, <1>2
  <2>2. few = SumFunctionOnSet(w, F)
    BY <1>1, <2>1, SumAgrees
  <2>3. \A f \in G : w[f] \in Nat
    BY <1>2
  <2> QED BY <1>1, <2>2, <2>3, SumOfPart
<1> HIDE DEF few, many
<1>7. p \in Nat /\ q \in Nat /\ p <= q
  <2>1. 80 \in Int /\ few \in Int /\ many \in Int
    BY <1>6
  <2>2. p \in {80, few} /\ p <= 80 /\ p <= few /\ q \in {80, many} /\ q <= 80 /\ q <= many
    <3>1. Min({80, few}) \in {80, few} /\ Min({80, few}) <= 80 /\ Min({80, few}) <= few
      BY <2>1, MinMaxOfTwo
    <3>2. Min({80, many}) \in {80, many} /\ Min({80, many}) <= 80 /\ Min({80, many}) <= many
      BY <2>1, MinMaxOfTwo
    <3> QED BY <3>1, <3>2, <1>3
  <2> QED BY <2>2, <1>6
<1> DEFINE c == (max * p) \div 100
           d == (max * q) \div 100
<1>8. c \in Int /\ d \in Int /\ c <= d
  <2>1. c <= d
    BY <1>5, <1>7, ShareMonotonic
  <2>2. max * p \in Int /\ max * q \in Int
    BY <1>5, <1>7, TimesFacts
  <2>3. c \in Int /\ d \in Int
    BY <2>2, DivFacts
  <2> QED BY <2>1, <2>3
<1> HIDE DEF c, d
<1>9. 0 \in Int /\ max - c \in Int /\ max - d \in Int
  BY <1>5, <1>8
<1>10. /\ Max({0, max - c}) \in {0, max - c} /\ Max({0, max - c}) >= 0 /\ Max({0, max - c}) >= max - c
       /\ Max({0, max - d}) \in {0, max - d} /\ Max({0, max - d}) >= 0 /\ Max({0, max - d}) >= max - d
  BY <1>9, MinMaxOfTwo
<1>11. Max({0, max - d}) <= Max({0, max - c})
  BY <1>5, <1>8, <1>9, <1>10
<1> QED BY <1>4, <1>11 DEF c, d

=============================================================================
