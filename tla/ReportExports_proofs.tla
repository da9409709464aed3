------------------------ MODULE ReportExports_proofs ------------------------
(***************************************************************************)
(* Proofs about ReportExports and the summaries it builds, for any numbers  *)
(* of submissions, experiments, requests and exports; and about the scores  *)
(* of ReviewScores, which the summaries are of.                             *)
(*                                                                          *)
(* 1. Sums, extremes and rounding.  The lemmas about folds are those of     *)
(*    InitialEvaluation_proofs.                                             *)
(* 2. Parts: adding a review, taking averages and merging keep a part the   *)
(*    summary of the reviews it stands for.                                 *)
(* 3. Requests: what a request has counted so far, and what it has left.    *)
(* 4. Exports: one writer for each export, whose file is whole before its   *)
(*    row is completed.                                                     *)
(* 5. The scores of a review: what ReviewScores accepts is what             *)
(*    SummaryAssumption says of a review.                                   *)
(***************************************************************************)
EXTENDS ReportExports, ReviewScores, InitialEvaluation_proofs

-----------------------------------------------------------------------------
(* 1. Sums, extremes and rounding *)

(* A sum over one more, and over two sets.                                  *)
LEMMA SumOneMore ==
  \A f, g, S, z :
    /\ IsFiniteSet(S) /\ z \notin S
    /\ f \in [S -> Int] /\ g \in [S \cup {z} -> Int] /\ \A x \in S : g[x] = f[x]
    => SumFunction(g) = SumFunction(f) + g[z] /\ SumFunction(f) \in Int
<1> SUFFICES ASSUME NEW f, NEW g, NEW S, NEW z, IsFiniteSet(S), z \notin S,
                    f \in [S -> Int], g \in [S \cup {z} -> Int], \A x \in S : g[x] = f[x]
             PROVE  SumFunction(g) = SumFunction(f) + g[z] /\ SumFunction(f) \in Int
  OBVIOUS
<1>1. IsFiniteSet(S \cup {z}) /\ (\A x \in S \cup {z} : g[x] \in Int) /\ (S \cup {z}) \ {z} = S
  BY FS_AddElement
<1>2. SumFunctionOnSet(g, S \cup {z}) = g[z] + SumFunctionOnSet(g, S)
  BY <1>1, SumRemove
<1>3. \A x \in S : f[x] \in Int /\ f[x] = g[x]
  OBVIOUS
<1>4. SumFunctionOnSet(f, S) = SumFunctionOnSet(g, S) /\ SumFunctionOnSet(f, S) \in Int
  BY <1>3, SumAgrees, SumTyped
<1>5. DOMAIN f = S /\ DOMAIN g = S \cup {z} /\ g[z] \in Int
  OBVIOUS
<1> QED BY <1>2, <1>4, <1>5 DEF SumFunction

Joins(f, g, j, S, T) ==
  /\ IsFiniteSet(S) /\ IsFiniteSet(T) /\ S \cap T = {}
  /\ f \in [S -> Int] /\ g \in [T -> Int] /\ j \in [S \cup T -> Int]
  /\ (\A x \in S : j[x] = f[x]) /\ (\A x \in T : j[x] = g[x])

LEMMA SumTwo ==
  \A S, T, f, g, j :
    Joins(f, g, j, S, T) => /\ SumFunction(j) = SumFunction(f) + SumFunction(g)
                            /\ SumFunction(f) \in Int /\ SumFunction(g) \in Int
<1> TAKE S, T, f, g, j
<1> HAVE Joins(f, g, j, S, T)
<1>0. /\ IsFiniteSet(S) /\ IsFiniteSet(T) /\ S \cap T = {}
      /\ f \in [S -> Int] /\ g \in [T -> Int] /\ j \in [S \cup T -> Int]
      /\ (\A x \in S : j[x] = f[x]) /\ (\A x \in T : j[x] = g[x])
  BY DEF Joins
<1> USE <1>0
<1>1. IsFiniteSet(S \cup T) /\ \A x \in S \cup T : j[x] \in Int
  BY FS_Union
<1>2. S \in SUBSET (S \cup T) /\ T \in SUBSET (S \cup T)
  OBVIOUS
<1>3. SumFunctionOnSet(j, S \cup T) = SumFunctionOnSet(j, S) + SumFunctionOnSet(j, T)
  BY <1>1, <1>2, SumUnion
<1>4. (\A x \in S : f[x] \in Int /\ f[x] = j[x]) /\ (\A x \in T : g[x] \in Int /\ g[x] = j[x])
  OBVIOUS
<1>5. SumFunctionOnSet(f, S) = SumFunctionOnSet(j, S) /\ SumFunctionOnSet(f, S) \in Int
  BY <1>4, SumAgrees, SumTyped
<1>6. SumFunctionOnSet(g, T) = SumFunctionOnSet(j, T) /\ SumFunctionOnSet(g, T) \in Int
  BY <1>4, SumAgrees, SumTyped
<1>7. DOMAIN f = S /\ DOMAIN g = T /\ DOMAIN j = S \cup T
  OBVIOUS
<1> QED BY <1>3, <1>5, <1>6, <1>7 DEF SumFunction

(* A finite set of numbers has a greatest one.                              *)
LEMMA MaxIn ==
  \A S : IsFiniteSet(S) /\ S \subseteq Int /\ S # {} => Max(S) \in S /\ \A y \in S : Max(S) >= y
<1>1. SUFFICES ASSUME NEW S, IsFiniteSet(S), S \subseteq Int, S # {}
               PROVE  Max(S) \in S /\ \A y \in S : Max(S) >= y
  OBVIOUS
<1> DEFINE Over(x) == {y \in S : y > x}
           T == {Over(x) : x \in S}
<1>2. PICK A \in T : \A B \in T : B \subseteq A => B = A
  <2>1. T \in SUBSET (SUBSET S)
    OBVIOUS
  <2>2. T # {}
    BY <1>1
  <2>3. IsFiniteSet(S)
    BY <1>1
  <2> HIDE DEF T
  <2> QED BY <2>1, <2>2, <2>3, SmallestSubset
<1>3. PICK x \in S : A = Over(x)
  OBVIOUS
<1>4. \A y \in S : x >= y
  <2>1. SUFFICES ASSUME NEW y \in S, ~(x >= y) PROVE FALSE
    OBVIOUS
  <2>2. y > x /\ x \in Int /\ y \in Int
    BY <1>1, <2>1
  <2>3. y \in Over(x) /\ y \notin Over(y)
    BY <2>2
  <2>4. Over(y) \subseteq Over(x)
    <3> SUFFICES ASSUME NEW z \in S, z > y PROVE z > x
      OBVIOUS
    <3> QED BY <1>1, <2>2
  <2>5. Over(y) \in T
    OBVIOUS
  <2> QED BY <1>2, <1>3, <2>3, <2>4, <2>5
<1> QED BY <1>4 DEF Max

LEMMA ProductPositive ==
  \A S, v : IsFiniteSet(S) /\ (\A x \in S : v[x] \in Nat \ {0}) => FoldOn("product", v, S) \in Nat \ {0}
<1> SUFFICES ASSUME NEW S, NEW v, IsFiniteSet(S), \A x \in S : v[x] \in Nat \ {0}
             PROVE  FoldOn("product", v, S) \in Nat \ {0}
  OBVIOUS
<1> DEFINE T == {A \in SUBSET S : FoldOn("product", v, A) \notin Nat \ {0}}
<1>1. SUFFICES ASSUME T # {} PROVE FALSE
  OBVIOUS
<1>2. PICK A \in T : \A B \in T : B \subseteq A => B = A
  <2>1. T \in SUBSET (SUBSET S)
    OBVIOUS
  <2> HIDE DEF T
  <2> QED BY <1>1, <2>1, SmallestSubset
<1>3. A # {}
  <2>1. FoldOn("product", v, {}) = Unit("product") /\ Unit("product") = 1
    BY FoldEmpty DEF Unit
  <2>2. 1 \in Nat \ {0}
    OBVIOUS
  <2> QED BY <1>2, <2>1, <2>2
<1>4. PICK x \in A : TRUE
  BY <1>3
<1>5. FoldOn("product", v, A \ {x}) \in Nat \ {0}
  BY <1>2, <1>4
<1>6. FoldOn("product", v, A) = v[x] * FoldOn("product", v, A \ {x})
  <2>1. IsFiniteSet(A) /\ \A y \in A : v[y] \in Int
    BY <1>2, FS_Subset
  <2> QED BY <2>1, <1>4, FoldRemove DEF Join
<1>7. v[x] \in Nat \ {0}
  BY <1>2, <1>4
<1>8. FoldOn("product", v, A) \in Nat \ {0}
  BY <1>5, <1>6, <1>7, TimesFacts
<1> QED BY <1>2, <1>8

LEMMA RoundedTyped ==
  \A s \in Nat, c \in Nat : RoundedDivide(s, c) \in Nat
<1> SUFFICES ASSUME NEW s \in Nat, NEW c \in Nat PROVE RoundedDivide(s, c) \in Nat
  OBVIOUS
<1>1. CASE c = 0
  BY <1>1 DEF RoundedDivide
<1>2. CASE c # 0
  <2>1. c \div 2 \in Nat
    BY DivNat
  <2>2. s + c \div 2 \in Nat /\ c \in Nat \ {0}
    BY <2>1, <1>2
  <2>3. (s + c \div 2) \div c \in Nat
    BY <2>2, DivNat
  <2> QED BY <2>3, <1>2 DEF RoundedDivide
<1> QED BY <1>1, <1>2

(* A rounded quotient, times its divisor, is off by half the divisor.       *)
LEMMA Rounded ==
  \A s \in Nat, c \in Nat : s = 0 \/ c # 0 => Within(RoundedDivide(s, c), c, s, 1)
<1> SUFFICES ASSUME NEW s \in Nat, NEW c \in Nat, s = 0 \/ c # 0
             PROVE  Within(RoundedDivide(s, c), c, s, 1)
  OBVIOUS
<1>1. CASE c = 0
  BY <1>1 DEF RoundedDivide, Within
<1>2. CASE c # 0
  <2> DEFINE half == c \div 2
             q == (s + half) \div c
             p == q * c
  <2>1. half \in Nat /\ 2 * half <= c /\ c <= 2 * half + 1
    BY DivNat
  <2>2. q \in Int /\ p <= s + half /\ s + half < p + c
    BY <2>1, <1>2, DivFacts
  <2>3. p \in Int
    BY <2>2
  <2>4. RoundedDivide(s, c) = q
    BY <1>2 DEF RoundedDivide
  <2> HIDE DEF p, half
  <2>5. 2 * (p - s) <= 1 * c /\ -(2 * (p - s)) <= 1 * c
    BY <2>1, <2>2, <2>3
  <2> HIDE DEF q
  <2> QED BY <2>4, <2>5 DEF Within, p
<1> QED BY <1>1, <1>2

-----------------------------------------------------------------------------
(* 2. Parts and the reviews they stand for *)

USE SummaryAssumption, ScaleAssumption

(* c holds the contents of the reviews that are added up.                   *)
Totals(c) == [s \in DOMAIN c |-> c[s].total]
Finals(c, m) == [s \in DOMAIN c |-> c[s].scores[m].final]
Bucket(c, b) == {s \in DOMAIN c : ScoreBucket(c[s].total) = b}

Highest(p, c) ==
  /\ \A s \in DOMAIN c : c[s].total <= p.max
  /\ IF DOMAIN c = {} THEN p.max = 0 ELSE \E s \in DOMAIN c : c[s].total = p.max

Counts(p, c) ==
  /\ p.published = Cardinality(DOMAIN c)
  /\ p.sum = SumFunction(Totals(c))
  /\ \A b \in Buckets : p.buckets[b] = Cardinality(Bucket(c, b))
  /\ Highest(p, c)
  /\ \A m \in Metrics : p.metrics[m].count = Cardinality(DOMAIN c)

(* A part before its averages are taken, a course that merged some parts,   *)
(* and what is shown.                                                       *)
AddedUp(p, c) == Counts(p, c) /\ \A m \in Metrics : p.metrics[m].score = SumFunction(Finals(c, m))

Merged(p, c) ==
  Counts(p, c) /\ \A m \in Metrics : LET off == 2 * (p.metrics[m].score - SumFunction(Finals(c, m))) IN
                                      off <= Cardinality(DOMAIN c) /\ -off <= Cardinality(DOMAIN c)

Shows(p, c, halves) ==
  /\ Counts(p, c)
  /\ Within(p.average, p.published, p.sum, 1)
  /\ \A m \in Metrics : Within(p.metrics[m].score, Cardinality(DOMAIN c), SumFunction(Finals(c, m)), halves)

LEMMA BucketOf == \A t \in Nat : ScoreBucket(t) \in Buckets
  BY DEF ScoreBucket, Buckets

LEMMA ReviewTyped ==
  \A r \in Reviews : r.total \in Nat /\ \A m \in Metrics : r.scores[m].final \in Nat /\ r.scores[m].max \in Nat \ {0}
  OBVIOUS

LEMMA PercentTyped ==
  \A r \in Reviews, m \in Metrics : (r.scores[m].final * WeightTotalBPS) \div r.scores[m].max \in Nat
<1> TAKE r \in Reviews, m \in Metrics
<1>1. r.scores[m].final \in Nat /\ r.scores[m].max \in Nat \ {0} /\ WeightTotalBPS \in Nat
  BY ReviewTyped
<1>2. r.scores[m].final * WeightTotalBPS \in Nat
  BY <1>1, TimesFacts
<1> QED BY <1>1, <1>2, DivNat

LEMMA EmptyTyped == Empty \in Parts
  BY DEF Empty, Parts

(* Figures of no review.                                                    *)
LEMMA EmptyCounts ==
  \A c : DOMAIN c = {} => AddedUp(Empty, c) /\ Merged(Empty, c)
<1> SUFFICES ASSUME NEW c, DOMAIN c = {} PROVE AddedUp(Empty, c) /\ Merged(Empty, c)
  OBVIOUS
<1>1. Cardinality({}) = 0 /\ Cardinality({}) \in Int
  BY FS_EmptySet
<1>2. SumFunction(Totals(c)) = 0 /\ \A m \in Metrics : SumFunction(Finals(c, m)) = 0
  <2>1. DOMAIN Totals(c) = {} /\ \A m \in Metrics : DOMAIN Finals(c, m) = {}
    BY DEF Totals, Finals
  <2> QED BY <2>1, SumEmpty DEF SumFunction
<1>3. \A b \in Buckets : Bucket(c, b) = {}
  BY DEF Bucket
<1>4. Counts(Empty, c)
  BY <1>1, <1>2, <1>3 DEF Counts, Empty, Highest
<1> QED BY <1>1, <1>2, <1>4 DEF AddedUp, Merged, Empty

LEMMA PartTyped ==
  \A p \in Parts, n \in Nat, t \in Nat, lo \in Nat, hi \in Nat, bs \in [Buckets -> Nat],
     ms \in [Metrics -> [score : Nat, percent : Nat, count : Nat]] :
    [p EXCEPT !.published = n, !.sum = t, !.min = lo, !.max = hi, !.buckets = bs, !.metrics = ms] \in Parts
  BY DEF Parts

(* One review more.                                                         *)
LEMMA AddReviewTyped ==
  ASSUME NEW p \in Parts, NEW r \in Reviews
  PROVE  AddReview(p, r) \in Parts
<1> DEFINE q == AddReview(p, r)
<1>1. r \in Reviews /\ r.total \in Nat /\ \A m \in Metrics : r.scores[m].final \in Nat /\ r.scores[m].max \in Nat \ {0}
  BY ReviewTyped
<1>2. ScoreBucket(r.total) \in Buckets
  BY <1>1, BucketOf
<1>3. \A m \in Metrics : (r.scores[m].final * WeightTotalBPS) \div r.scores[m].max \in Nat
  BY <1>1, PercentTyped
<1>4. /\ q.published = p.published + 1
      /\ q.sum = p.sum + r.total
      /\ q.average = p.average
      /\ q.min = IF p.published = 0 \/ r.total < p.min THEN r.total ELSE p.min
      /\ q.max = IF r.total > p.max THEN r.total ELSE p.max
      /\ q.buckets = [p.buckets EXCEPT ![ScoreBucket(r.total)] = @ + 1]
      /\ q.metrics = [m \in Metrics |->
               [score |-> p.metrics[m].score + r.scores[m].final,
                percent |-> p.metrics[m].percent + (r.scores[m].final * WeightTotalBPS) \div r.scores[m].max,
                count |-> p.metrics[m].count + 1]]
  BY DEF AddReview, Parts
<1>5. q \in Parts
  <2> DEFINE n == p.published + 1
             t == p.sum + r.total
             lo == IF p.published = 0 \/ r.total < p.min THEN r.total ELSE p.min
             hi == IF r.total > p.max THEN r.total ELSE p.max
             bs == [p.buckets EXCEPT ![ScoreBucket(r.total)] = @ + 1]
             ms == [m \in Metrics |->
                      [score |-> p.metrics[m].score + r.scores[m].final,
                       percent |-> p.metrics[m].percent + (r.scores[m].final * WeightTotalBPS) \div r.scores[m].max,
                       count |-> p.metrics[m].count + 1]]
  <2>1. q = [p EXCEPT !.published = n, !.sum = t, !.min = lo, !.max = hi, !.buckets = bs, !.metrics = ms]
    BY DEF AddReview
  <2>2. n \in Nat /\ t \in Nat /\ lo \in Nat /\ hi \in Nat
    BY <1>1 DEF Parts
  <2>3. bs \in [Buckets -> Nat]
    BY <1>2 DEF Parts
  <2>4. ms \in [Metrics -> [score : Nat, percent : Nat, count : Nat]]
    BY <1>1, <1>3 DEF Parts
  <2> HIDE DEF n, t, lo, hi, bs, ms, q
  <2> QED BY <2>1, <2>2, <2>3, <2>4, PartTyped
<1> QED BY <1>5

LEMMA AddReviewCounts ==
  ASSUME NEW S, IsFiniteSet(S), NEW z, z \notin S,
         NEW c \in [S -> Reviews], NEW d \in [S \cup {z} -> Reviews], \A s \in S : d[s] = c[s],
         NEW p \in Parts, AddedUp(p, c)
  PROVE  AddReview(p, d[z]) \in Parts /\ AddedUp(AddReview(p, d[z]), d)
<1> DEFINE r == d[z]
           q == AddReview(p, r)
<1>1. r \in Reviews /\ r.total \in Nat /\ \A m \in Metrics : r.scores[m].final \in Nat /\ r.scores[m].max \in Nat \ {0}
  BY ReviewTyped
<1>2. ScoreBucket(r.total) \in Buckets
  BY <1>1, BucketOf
<1>3. \A m \in Metrics : (r.scores[m].final * WeightTotalBPS) \div r.scores[m].max \in Nat
  BY <1>1, PercentTyped
<1>4. /\ q.published = p.published + 1
      /\ q.sum = p.sum + r.total
      /\ q.average = p.average
      /\ q.min = IF p.published = 0 \/ r.total < p.min THEN r.total ELSE p.min
      /\ q.max = IF r.total > p.max THEN r.total ELSE p.max
      /\ q.buckets = [p.buckets EXCEPT ![ScoreBucket(r.total)] = @ + 1]
      /\ q.metrics = [m \in Metrics |->
               [score |-> p.metrics[m].score + r.scores[m].final,
                percent |-> p.metrics[m].percent + (r.scores[m].final * WeightTotalBPS) \div r.scores[m].max,
                count |-> p.metrics[m].count + 1]]
  BY DEF AddReview, Parts
<1>a. ASSUME NEW m \in Metrics
      PROVE  /\ q.metrics[m].score = p.metrics[m].score + r.scores[m].final
             /\ q.metrics[m].count = p.metrics[m].count + 1
  <2> HIDE DEF q, r
  <2> QED BY <1>4
<1> HIDE DEF r
<1>5. q \in Parts
  BY <1>1, AddReviewTyped
<1> HIDE DEF q
<1>6. DOMAIN c = S /\ DOMAIN d = S \cup {z} /\ Cardinality(S) \in Nat /\ Cardinality(S \cup {z}) = Cardinality(S) + 1
  BY FS_AddElement, FS_CardinalityType
<1>7. SumFunction(Totals(d)) = SumFunction(Totals(c)) + r.total
  <2>1. Totals(c) \in [S -> Int] /\ Totals(d) \in [S \cup {z} -> Int] /\ Totals(d)[z] = r.total
    BY <1>6, ReviewTyped DEF Totals, r
  <2>2. \A s \in S : Totals(d)[s] = Totals(c)[s]
    BY <1>6 DEF Totals
  <2> QED BY <2>1, <2>2, SumOneMore
<1>8. \A m \in Metrics : SumFunction(Finals(d, m)) = SumFunction(Finals(c, m)) + r.scores[m].final
  <2> TAKE m \in Metrics
  <2>1. Finals(c, m) \in [S -> Int] /\ Finals(d, m) \in [S \cup {z} -> Int] /\ Finals(d, m)[z] = r.scores[m].final
    BY <1>6, ReviewTyped DEF Finals, r
  <2>2. \A s \in S : Finals(d, m)[s] = Finals(c, m)[s]
    BY <1>6 DEF Finals
  <2> QED BY <2>1, <2>2, SumOneMore
<1>9. \A b \in Buckets : q.buckets[b] = Cardinality(Bucket(d, b))
  <2> TAKE b \in Buckets
  <2>1. IsFiniteSet(Bucket(c, b)) /\ z \notin Bucket(c, b) /\ p.buckets[b] = Cardinality(Bucket(c, b))
    <3>1. Bucket(c, b) \subseteq S
      BY <1>6 DEF Bucket
    <3> QED BY <3>1, FS_Subset DEF AddedUp, Counts
  <2>2. CASE b = ScoreBucket(r.total)
    <3>1. Bucket(d, b) = Bucket(c, b) \cup {z}
      BY <1>6, <2>2 DEF Bucket, r
    <3>2. q.buckets[b] = p.buckets[b] + 1
      BY <1>2, <1>4, <2>2 DEF Parts
    <3>3. Cardinality(Bucket(c, b) \cup {z}) = Cardinality(Bucket(c, b)) + 1
      BY <2>1, FS_AddElement
    <3> QED BY <2>1, <3>1, <3>2, <3>3
  <2>3. CASE b # ScoreBucket(r.total)
    <3>1. Bucket(d, b) = Bucket(c, b)
      BY <1>6, <2>3 DEF Bucket, r
    <3>2. q.buckets[b] = p.buckets[b]
      BY <1>2, <1>4, <2>3 DEF Parts
    <3> QED BY <2>1, <3>1, <3>2
  <2> QED BY <2>2, <2>3
<1>10. Highest(q, d)
  <2>1. p.max \in Nat /\ (\A s \in S : c[s].total <= p.max /\ c[s].total \in Nat)
    BY <1>6, ReviewTyped DEF Parts, AddedUp, Counts, Highest
  <2>2. IF S = {} THEN p.max = 0 ELSE \E s \in S : c[s].total = p.max
    BY <1>6 DEF AddedUp, Counts, Highest
  <2>3. \A s \in S \cup {z} : d[s].total <= q.max
    BY <1>1, <1>4, <2>1 DEF r
  <2>4. \E s \in S \cup {z} : d[s].total = q.max
    <3>1. CASE r.total > p.max
      BY <1>4, <3>1 DEF r
    <3>2. CASE ~(r.total > p.max) /\ S = {}
      BY <1>1, <1>4, <2>1, <2>2, <3>2 DEF r
    <3>3. CASE ~(r.total > p.max) /\ S # {}
      BY <1>4, <2>2, <3>3
    <3> QED BY <3>1, <3>2, <3>3
  <2> QED BY <1>6, <2>3, <2>4 DEF Highest
<1>11. Counts(q, d)
  <2>1. p.published = Cardinality(S) /\ p.sum = SumFunction(Totals(c)) /\ \A m \in Metrics : p.metrics[m].count = Cardinality(S)
    BY <1>6 DEF AddedUp, Counts
  <2>2. q.published = Cardinality(DOMAIN d) /\ q.sum = SumFunction(Totals(d))
    BY <1>4, <1>6, <1>7, <2>1
  <2>3. \A m \in Metrics : q.metrics[m].count = Cardinality(DOMAIN d)
    BY <1>6, <1>a, <2>1
  <2> QED BY <1>9, <1>10, <2>2, <2>3 DEF Counts
<1>12. \A m \in Metrics : q.metrics[m].score = SumFunction(Finals(d, m))
  <2> TAKE m \in Metrics
  <2>1. p.metrics[m].score = SumFunction(Finals(c, m))
    BY DEF AddedUp
  <2>2. q.metrics[m].score = p.metrics[m].score + r.scores[m].final
    BY <1>a
  <2>3. SumFunction(Finals(d, m)) = SumFunction(Finals(c, m)) + r.scores[m].final
    BY <1>8
  <2> QED BY <2>1, <2>2, <2>3
<1> QED BY <1>5, <1>11, <1>12 DEF AddedUp, q, r

LEMMA SumsTyped ==
  ASSUME NEW S, IsFiniteSet(S), NEW c \in [S -> Reviews]
  PROVE  /\ DOMAIN c = S /\ Cardinality(S) \in Nat /\ (Cardinality(S) = 0 <=> S = {})
         /\ SumFunction(Totals(c)) \in Int /\ (S = {} => SumFunction(Totals(c)) = 0)
         /\ \A m \in Metrics : SumFunction(Finals(c, m)) \in Int /\ (S = {} => SumFunction(Finals(c, m)) = 0)
<1>1. DOMAIN c = S /\ Cardinality(S) \in Nat /\ (Cardinality(S) = 0 <=> S = {})
  BY FS_CardinalityType, FS_EmptySet
<1>2. SumFunction(Totals(c)) \in Int /\ (S = {} => SumFunction(Totals(c)) = 0)
  <2>1. DOMAIN Totals(c) = S /\ \A s \in S : Totals(c)[s] \in Int
    BY <1>1, ReviewTyped DEF Totals
  <2> QED BY <2>1, SumTyped, SumEmpty DEF SumFunction
<1>3. ASSUME NEW m \in Metrics
      PROVE  SumFunction(Finals(c, m)) \in Int /\ (S = {} => SumFunction(Finals(c, m)) = 0)
  <2>1. DOMAIN Finals(c, m) = S /\ \A s \in S : Finals(c, m)[s] \in Int
    BY <1>1, ReviewTyped DEF Finals
  <2> QED BY <2>1, SumTyped, SumEmpty DEF SumFunction
<1> QED BY <1>1, <1>2, <1>3

LEMMA AveragedFields ==
  ASSUME NEW p \in Parts
  PROVE  /\ Averaged(p) \in Parts
         /\ Averaged(p).published = p.published /\ Averaged(p).sum = p.sum /\ Averaged(p).max = p.max
         /\ Averaged(p).buckets = p.buckets
         /\ Averaged(p).average = RoundedDivide(p.sum, p.published)
         /\ \A m \in Metrics : /\ Averaged(p).metrics[m].score = RoundedDivide(p.metrics[m].score, p.metrics[m].count)
                               /\ Averaged(p).metrics[m].count = p.metrics[m].count
<1> DEFINE a == RoundedDivide(p.sum, p.published)
           ms == BuildMetricAverages(p.metrics)
<1>1. p.sum \in Nat /\ p.published \in Nat /\ \A m \in Metrics : p.metrics[m].score \in Nat /\ p.metrics[m].percent \in Nat
                                                               /\ p.metrics[m].count \in Nat
  BY DEF Parts
<1>2. a \in Nat
  BY <1>1, RoundedTyped
<1>3. ms = [m \in Metrics |-> [score |-> RoundedDivide(p.metrics[m].score, p.metrics[m].count),
                               percent |-> RoundedDivide(p.metrics[m].percent, p.metrics[m].count),
                               count |-> p.metrics[m].count]]
  BY DEF BuildMetricAverages
<1> HIDE DEF ms
<1>4. ms \in [Metrics -> [score : Nat, percent : Nat, count : Nat]]
  <2>1. \A m \in Metrics : /\ RoundedDivide(p.metrics[m].score, p.metrics[m].count) \in Nat
                           /\ RoundedDivide(p.metrics[m].percent, p.metrics[m].count) \in Nat
    BY <1>1, RoundedTyped
  <2> QED BY <1>1, <1>3, <2>1
<1>5. Averaged(p) = [p EXCEPT !.average = a, !.metrics = ms]
  BY DEF Averaged, ms
<1> HIDE DEF a
<1>6. Averaged(p) \in Parts
  BY <1>2, <1>4, <1>5 DEF Parts
<1>7. /\ Averaged(p).published = p.published /\ Averaged(p).sum = p.sum /\ Averaged(p).max = p.max
      /\ Averaged(p).buckets = p.buckets /\ Averaged(p).average = a /\ Averaged(p).metrics = ms
  BY <1>5 DEF Parts
<1> QED BY <1>3, <1>6, <1>7 DEF a

(* Averages do not change what is counted.                                  *)
LEMMA AveragedCounts ==
  ASSUME NEW S, IsFiniteSet(S), NEW c \in [S -> Reviews], NEW p \in Parts, Counts(p, c)
  PROVE  Counts(Averaged(p), c) /\ Within(Averaged(p).average, Averaged(p).published, Averaged(p).sum, 1)
<1>1. Counts(Averaged(p), c)
  BY AveragedFields DEF Counts, Highest
<1>2. p.sum \in Nat /\ p.published \in Nat /\ (p.sum = 0 \/ p.published # 0)
  BY SumsTyped DEF Counts, Parts
<1> QED BY <1>1, <1>2, AveragedFields, Rounded

LEMMA AveragedShows ==
  ASSUME NEW S, IsFiniteSet(S), NEW c \in [S -> Reviews], NEW p \in Parts, AddedUp(p, c)
  PROVE  Shows(Averaged(p), c, 1)
<1>1. Counts(p, c)
  BY DEF AddedUp
<1>2. ASSUME NEW m \in Metrics
      PROVE  Within(Averaged(p).metrics[m].score, Cardinality(DOMAIN c), SumFunction(Finals(c, m)), 1)
  <2>1. p.metrics[m].score = SumFunction(Finals(c, m)) /\ p.metrics[m].count = Cardinality(DOMAIN c)
    BY <1>1 DEF AddedUp, Counts
  <2>2. p.metrics[m].score \in Nat /\ p.metrics[m].count \in Nat
    BY DEF Parts
  <2>3. p.metrics[m].score = 0 \/ p.metrics[m].count # 0
    BY <2>1, SumsTyped
  <2>4. Within(RoundedDivide(p.metrics[m].score, p.metrics[m].count), p.metrics[m].count, p.metrics[m].score, 1)
    BY <2>2, <2>3, Rounded
  <2> QED BY <2>1, <2>4, AveragedFields
<1> QED BY <1>1, <1>2, AveragedCounts DEF Shows

(* Rounding a second time doubles the error.                                *)
LEMMA CourseShows ==
  ASSUME NEW S, IsFiniteSet(S), NEW c \in [S -> Reviews], NEW p \in Parts, Merged(p, c)
  PROVE  Shows(Averaged(p), c, 2)
<1>1. Counts(p, c)
  BY DEF Merged
<1>2. ASSUME NEW m \in Metrics
      PROVE  Within(Averaged(p).metrics[m].score, Cardinality(DOMAIN c), SumFunction(Finals(c, m)), 2)
  <2> DEFINE n == Cardinality(S)
             x == p.metrics[m].score
             y == SumFunction(Finals(c, m))
             a == RoundedDivide(x, n)
  <2>1. p.metrics[m].count = n /\ DOMAIN c = S
    BY <1>1, SumsTyped DEF Counts
  <2>2. x \in Nat /\ n \in Nat /\ y \in Int /\ (n = 0 => y = 0)
    BY SumsTyped DEF Parts
  <2>3. 2 * (x - y) <= n /\ -(2 * (x - y)) <= n
    BY <2>1 DEF Merged
  <2>4. x = 0 \/ n # 0
    <3> HIDE DEF x, y, n
    <3> QED BY <2>2, <2>3
  <2>5. a \in Nat /\ Within(a, n, x, 1)
    BY <2>2, <2>4, Rounded, RoundedTyped
  <2> HIDE DEF a, n, x, y
  <2> DEFINE b == a * n
  <2>6. b \in Int /\ 2 * (b - x) <= 1 * n /\ -(2 * (b - x)) <= 1 * n
    BY <2>2, <2>5 DEF Within
  <2> HIDE DEF b
  <2>7. 2 * (b - y) <= 2 * n /\ -(2 * (b - y)) <= 2 * n
    BY <2>2, <2>3, <2>6
  <2>8. Within(a, n, y, 2)
    BY <2>7 DEF Within, b
  <2> QED BY <2>1, <2>8, AveragedFields DEF a, n, x, y
<1> QED BY <1>1, <1>2, AveragedCounts DEF Shows

LEMMA MergeFields ==
  ASSUME NEW w \in Parts, NEW p \in Parts
  PROVE  /\ Merge(w, p) \in Parts
         /\ Merge(w, p).published = w.published + p.published
         /\ Merge(w, p).sum = w.sum + p.sum
         /\ Merge(w, p).max = IF p.published > 0 /\ p.max > w.max THEN p.max ELSE w.max
         /\ \A b \in Buckets : Merge(w, p).buckets[b] = w.buckets[b] + p.buckets[b]
         /\ \A m \in Metrics :
              /\ Merge(w, p).metrics[m].score = w.metrics[m].score + p.metrics[m].score * p.metrics[m].count
              /\ Merge(w, p).metrics[m].count = w.metrics[m].count + p.metrics[m].count
<1> DEFINE n == w.published + p.published
           t == w.sum + p.sum
           lo == IF p.published > 0 /\ (w.min = 0 \/ p.min < w.min) THEN p.min ELSE w.min
           hi == IF p.published > 0 /\ p.max > w.max THEN p.max ELSE w.max
           bs == [b \in Buckets |-> w.buckets[b] + p.buckets[b]]
           ms == [m \in Metrics |->
                    [score |-> w.metrics[m].score + p.metrics[m].score * p.metrics[m].count,
                     percent |-> w.metrics[m].percent + p.metrics[m].percent * p.metrics[m].count,
                     count |-> w.metrics[m].count + p.metrics[m].count]]
           q == Merge(w, p)
<1>1. q = [w EXCEPT !.published = n, !.sum = t, !.min = lo, !.max = hi, !.buckets = bs, !.metrics = ms]
  BY DEF Merge
<1>2. n \in Nat /\ t \in Nat /\ lo \in Nat /\ hi \in Nat
  BY DEF Parts
<1>3. bs \in [Buckets -> Nat]
  BY DEF Parts
<1>4. ms \in [Metrics -> [score : Nat, percent : Nat, count : Nat]]
  <2>1. \A m \in Metrics : /\ w.metrics[m] \in [score : Nat, percent : Nat, count : Nat]
                           /\ p.metrics[m] \in [score : Nat, percent : Nat, count : Nat]
    BY DEF Parts
  <2>2. \A i, j \in Nat : i * j \in Nat /\ i + j \in Nat
    OBVIOUS
  <2>3. \A m \in Metrics : /\ p.metrics[m].score * p.metrics[m].count \in Nat
                           /\ p.metrics[m].percent * p.metrics[m].count \in Nat
    BY <2>1, <2>2
  <2> QED BY <2>1, <2>2, <2>3
<1> HIDE DEF n, t, lo, hi, bs, ms, q
<1>5. q \in Parts
  BY <1>1, <1>2, <1>3, <1>4, PartTyped
<1>6. q.published = n /\ q.sum = t /\ q.max = hi /\ q.buckets = bs /\ q.metrics = ms
  BY <1>1 DEF Parts
<1> QED BY <1>5, <1>6 DEF n, t, hi, bs, ms, q

(* A course takes over an experiment.  The average of a metric, times the   *)
(* number of its scores, is at most half that number off their sum, and     *)
(* these errors add up to half the number of scores of the course.          *)
LEMMA MergeJoins ==
  ASSUME NEW S, IsFiniteSet(S), NEW T, IsFiniteSet(T), S \cap T = {},
         NEW c \in [S -> Reviews], NEW d \in [T -> Reviews], NEW e \in [S \cup T -> Reviews],
         \A s \in S : e[s] = c[s], \A s \in T : e[s] = d[s],
         NEW w \in Parts, Merged(w, c), NEW p \in Parts, Shows(p, d, 1)
  PROVE  Merge(w, p) \in Parts /\ Merged(Merge(w, p), e)
<1> DEFINE q == Merge(w, p)
<1>1. /\ DOMAIN c = S /\ DOMAIN d = T /\ DOMAIN e = S \cup T
      /\ Cardinality(S) \in Nat /\ Cardinality(T) \in Nat /\ Cardinality(S \cup T) = Cardinality(S) + Cardinality(T)
      /\ (Cardinality(T) = 0 <=> T = {})
  <2>1. Cardinality(S \cap T) = 0
    BY FS_EmptySet
  <2>2. Cardinality(S \cup T) = Cardinality(S) + Cardinality(T) - 0
    BY <2>1, FS_Union
  <2>3. Cardinality(S) \in Nat /\ Cardinality(T) \in Nat /\ (Cardinality(T) = 0 <=> T = {})
    BY FS_CardinalityType, FS_EmptySet
  <2> QED BY <2>2, <2>3
<1>0. /\ q \in Parts
      /\ q.published = w.published + p.published
      /\ q.sum = w.sum + p.sum
      /\ q.max = IF p.published > 0 /\ p.max > w.max THEN p.max ELSE w.max
      /\ \A b \in Buckets : q.buckets[b] = w.buckets[b] + p.buckets[b]
      /\ \A m \in Metrics :
           /\ q.metrics[m].score = w.metrics[m].score + p.metrics[m].score * p.metrics[m].count
           /\ q.metrics[m].count = w.metrics[m].count + p.metrics[m].count
  BY MergeFields
<1> HIDE DEF q
<1>2. Counts(w, c) /\ Counts(p, d)
  BY DEF Merged, Shows
<1>3. /\ w.published = Cardinality(S) /\ w.sum = SumFunction(Totals(c)) /\ \A m \in Metrics : w.metrics[m].count = Cardinality(S)
      /\ p.published = Cardinality(T) /\ p.sum = SumFunction(Totals(d)) /\ \A m \in Metrics : p.metrics[m].count = Cardinality(T)
  BY <1>1, <1>2 DEF Counts
<1>4. SumFunction(Totals(e)) = SumFunction(Totals(c)) + SumFunction(Totals(d))
  <2>1. Totals(c) \in [S -> Int] /\ Totals(d) \in [T -> Int] /\ Totals(e) \in [S \cup T -> Int]
    BY <1>1, ReviewTyped DEF Totals
  <2>2. (\A s \in S : Totals(e)[s] = Totals(c)[s]) /\ (\A s \in T : Totals(e)[s] = Totals(d)[s])
    BY <1>1 DEF Totals
  <2>3. Joins(Totals(c), Totals(d), Totals(e), S, T)
    BY <2>1, <2>2 DEF Joins
  <2> QED BY <2>3, SumTwo
<1>5. ASSUME NEW m \in Metrics
      PROVE  /\ SumFunction(Finals(e, m)) = SumFunction(Finals(c, m)) + SumFunction(Finals(d, m))
             /\ SumFunction(Finals(c, m)) \in Int /\ SumFunction(Finals(d, m)) \in Int
  <2>1. Finals(c, m) \in [S -> Int] /\ Finals(d, m) \in [T -> Int] /\ Finals(e, m) \in [S \cup T -> Int]
    BY <1>1, ReviewTyped DEF Finals
  <2>2. (\A s \in S : Finals(e, m)[s] = Finals(c, m)[s]) /\ (\A s \in T : Finals(e, m)[s] = Finals(d, m)[s])
    BY <1>1 DEF Finals
  <2>3. Joins(Finals(c, m), Finals(d, m), Finals(e, m), S, T)
    BY <2>1, <2>2 DEF Joins
  <2> QED BY <2>3, SumTwo
<1>6. ASSUME NEW b \in Buckets
      PROVE  q.buckets[b] = Cardinality(Bucket(e, b))
  <2>1. Bucket(e, b) = Bucket(c, b) \cup Bucket(d, b) /\ Bucket(c, b) \cap Bucket(d, b) = {}
    BY <1>1 DEF Bucket
  <2>2. IsFiniteSet(Bucket(c, b)) /\ IsFiniteSet(Bucket(d, b))
    <3>1. Bucket(c, b) \subseteq S /\ Bucket(d, b) \subseteq T
      BY <1>1 DEF Bucket
    <3> QED BY <3>1, FS_Subset
  <2>3. Cardinality(Bucket(c, b) \cap Bucket(d, b)) = 0
    BY <2>1, FS_EmptySet
  <2>4. Cardinality(Bucket(e, b)) = Cardinality(Bucket(c, b)) + Cardinality(Bucket(d, b)) - 0
    BY <2>1, <2>2, <2>3, FS_Union
  <2>5. Cardinality(Bucket(c, b)) \in Nat /\ Cardinality(Bucket(d, b)) \in Nat
    BY <2>2, FS_CardinalityType
  <2>6. w.buckets[b] = Cardinality(Bucket(c, b)) /\ p.buckets[b] = Cardinality(Bucket(d, b))
    BY <1>2 DEF Counts
  <2> QED BY <2>4, <2>5, <2>6, <1>0
<1>7. Highest(q, e)
  <2>1. /\ w.max \in Nat /\ (\A s \in S : c[s].total <= w.max /\ c[s].total \in Nat)
        /\ p.max \in Nat /\ (\A s \in T : d[s].total <= p.max /\ d[s].total \in Nat)
    BY <1>1, <1>2, ReviewTyped DEF Parts, Counts, Highest
  <2>2. /\ IF S = {} THEN w.max = 0 ELSE \E s \in S : c[s].total = w.max
        /\ IF T = {} THEN p.max = 0 ELSE \E s \in T : d[s].total = p.max
    BY <1>1, <1>2 DEF Counts, Highest
  <2>3. CASE T = {}
    <3>1. q.max = w.max /\ S \cup T = S
      <4>1. p.published = 0
        BY <1>1, <1>3, <2>3
      <4>2. q.max = w.max
        BY <1>0, <4>1
      <4> QED BY <4>2, <2>3
    <3> QED BY <1>1, <2>1, <2>2, <3>1 DEF Highest
  <2>4. CASE T # {}
    <3>1. q.max = IF p.max > w.max THEN p.max ELSE w.max
      <4>1. p.published > 0
        BY <1>1, <1>3, <2>4
      <4> QED BY <4>1, <1>0
    <3>2. \A s \in S \cup T : e[s].total <= q.max
      BY <2>1, <3>1
    <3>3. \E s \in S \cup T : e[s].total = q.max
      <4>1. CASE p.max > w.max
        BY <2>2, <2>4, <3>1, <4>1
      <4>2. CASE ~(p.max > w.max) /\ S # {}
        BY <2>2, <3>1, <4>2
      <4>3. CASE ~(p.max > w.max) /\ S = {}
        <5>1. q.max = p.max
          BY <2>1, <2>2, <3>1, <4>3
        <5> QED BY <2>2, <2>4, <5>1
      <4> QED BY <4>1, <4>2, <4>3
    <3> QED BY <1>1, <2>4, <3>2, <3>3 DEF Highest
  <2> QED BY <2>3, <2>4
<1>8. Counts(q, e)
  <2>1. q.published = Cardinality(DOMAIN e) /\ q.sum = SumFunction(Totals(e))
    BY <1>1, <1>3, <1>4, <1>0
  <2>2. \A m \in Metrics : q.metrics[m].count = Cardinality(DOMAIN e)
    BY <1>1, <1>3, <1>0
  <2> QED BY <1>6, <1>7, <2>1, <2>2 DEF Counts
<1>9. ASSUME NEW m \in Metrics
      PROVE  LET off == 2 * (q.metrics[m].score - SumFunction(Finals(e, m))) IN
             off <= Cardinality(DOMAIN e) /\ -off <= Cardinality(DOMAIN e)
  <2> DEFINE x == SumFunction(Finals(c, m))
             y == SumFunction(Finals(d, m))
             a == w.metrics[m].score
             b == p.metrics[m].score * Cardinality(T)
             i == Cardinality(S)
             k == Cardinality(T)
  <2>1. 2 * (a - x) <= i /\ -(2 * (a - x)) <= i
    BY <1>1 DEF Merged
  <2>2. 2 * (b - y) <= 1 * k /\ -(2 * (b - y)) <= 1 * k
    BY <1>1 DEF Shows, Within
  <2>3. q.metrics[m].score = a + b
    BY <1>3, <1>0
  <2>4. a \in Int /\ i \in Int /\ k \in Int /\ x \in Int /\ y \in Int
    BY <1>1, <1>5 DEF Parts
  <2>5. b \in Int
    <3>1. p.metrics[m].score \in Int
      BY DEF Parts
    <3> QED BY <3>1, <1>1
  <2>6. SumFunction(Finals(e, m)) = x + y /\ Cardinality(DOMAIN e) = i + k
    BY <1>1, <1>5
  <2> HIDE DEF a, b, x, y, i, k
  <2>7. 2 * ((a + b) - (x + y)) <= i + k /\ -(2 * ((a + b) - (x + y))) <= i + k
    BY <2>1, <2>2, <2>4, <2>5
  <2> QED BY <2>3, <2>6, <2>7
<1>10. Merged(q, e)
  BY <1>8, <1>9 DEF Merged
<1> QED BY <1>0, <1>10 DEF q

-----------------------------------------------------------------------------
(* 3. What a request has counted.  rv is a table of reviews, q a request.   *)

ReviewTables == [Submissions -> {NoReview} \cup [status : {"draft", "published"}, content : Reviews]]

Requests ==
  [do : {None, "experiment", "course", "submission", "own", "download"},
   at : {"idle", "list", "read", "built", "render", "write", "complete", "answer", "send"},
   on : {None} \cup Experiments \cup Submissions \cup Exports, limit : Nat, todo : SUBSET Experiments,
   left : SUBSET Submissions, part : Parts, whole : Parts, counted : SUBSET Submissions, before : SUBSET Submissions]

InPublic(rv) == {s \in Submissions : rv[s].status = "published"}

Contents(rv, S) == [s \in S |-> rv[s].content]

CountedOf(q, e) == {s \in q.counted : ExperimentOf[s] = e}

(* Between two experiments: a course has merged all that is counted.        *)
Listing(rv, q) ==
  /\ q.do \in {"experiment", "course"}
  /\ q.before \subseteq q.counted
  /\ \A s \in q.counted : ExperimentOf[s] \notin q.todo
  /\ IF q.do = "course" THEN Merged(q.whole, Contents(rv, q.counted)) ELSE q.counted = {} /\ q.todo # {}

(* At experiment e: its part is added up, the others are merged, and what   *)
(* was published when it was listed is counted or still to be read.         *)
Reading(rv, q, e) ==
  /\ q.do \in {"experiment", "course"}
  /\ q.before \subseteq q.counted \cup q.left
  /\ q.left \cap q.counted = {}
  /\ \A s \in q.left : ExperimentOf[s] = e
  /\ e \notin q.todo /\ \A s \in q.counted : ExperimentOf[s] \notin q.todo
  /\ AddedUp(q.part, Contents(rv, CountedOf(q, e)))
  /\ IF q.do = "course" THEN Merged(q.whole, Contents(rv, q.counted \ CountedOf(q, e)))
     ELSE q.counted = CountedOf(q, e)

Finished(rv, q) ==
  /\ q.do \in {"experiment", "course", "submission", "own"}
  /\ q.do \in {"experiment", "course"} => q.before \subseteq q.counted
  /\ q.do = "experiment" => Shows(q.part, Contents(rv, q.counted), 1)
  /\ q.do = "course" => Shows(q.whole, Contents(rv, q.counted), 2)

RequestOnCourse(rv, q) ==
  /\ q.counted \cup q.before \subseteq InPublic(rv)
  /\ q.at = "list" => Listing(rv, q)
  /\ q.at = "read" => \E e \in Experiments : Reading(rv, q, e)
  /\ q.at = "built" => Finished(rv, q)

SummaryInv ==
  /\ opened \subseteq Submissions
  /\ reviews \in ReviewTables
  /\ request \in [Handlers -> Requests]
  /\ \A h \in Handlers : RequestOnCourse(reviews, request[h])

LEMMA ContentsTyped ==
  ASSUME NEW rv \in ReviewTables, NEW S \in SUBSET InPublic(rv)
  PROVE  IsFiniteSet(S) /\ Contents(rv, S) \in [S -> Reviews] /\ DOMAIN Contents(rv, S) = S
<1>1. S \subseteq Submissions /\ \A s \in S : rv[s].status = "published"
  BY DEF InPublic
<1>2. \A s \in S : rv[s].content \in Reviews
  BY <1>1 DEF ReviewTables, NoReview
<1> QED BY <1>1, <1>2, FS_Subset DEF Contents

(* What is published stays: a request keeps its figures.                    *)
LEMMA OthersKeep ==
  ASSUME NEW rv \in ReviewTables, NEW rw \in ReviewTables, \A s \in InPublic(rv) : rw[s] = rv[s],
         NEW q \in Requests, RequestOnCourse(rv, q)
  PROVE  RequestOnCourse(rw, q)
<1>1. q.counted \subseteq InPublic(rv)
  BY DEF RequestOnCourse
<1>2. InPublic(rv) \subseteq InPublic(rw)
  BY DEF InPublic
<1>3. \A S \in SUBSET q.counted : Contents(rv, S) = Contents(rw, S)
  BY <1>1 DEF Contents
<1>4. q.counted \in SUBSET q.counted /\ \A e : CountedOf(q, e) \in SUBSET q.counted /\ q.counted \ CountedOf(q, e) \in SUBSET q.counted
  BY DEF CountedOf
<1>5. /\ Contents(rv, q.counted) = Contents(rw, q.counted)
      /\ \A e : /\ Contents(rv, CountedOf(q, e)) = Contents(rw, CountedOf(q, e))
                /\ Contents(rv, q.counted \ CountedOf(q, e)) = Contents(rw, q.counted \ CountedOf(q, e))
  BY <1>3, <1>4
<1>6. q.counted \cup q.before \subseteq InPublic(rw)
  BY <1>2 DEF RequestOnCourse
<1>7. q.at = "list" => Listing(rw, q)
  BY <1>5 DEF RequestOnCourse, Listing
<1>8. q.at = "read" => \E e \in Experiments : Reading(rw, q, e)
  BY <1>5 DEF RequestOnCourse, Reading
<1>9. q.at = "built" => Finished(rw, q)
  BY <1>5 DEF RequestOnCourse, Finished
<1> QED BY <1>6, <1>7, <1>8, <1>9 DEF RequestOnCourse

LEMMA ListKeeps ==
  ASSUME NEW rv \in ReviewTables, NEW q \in Requests, q.at = "list", RequestOnCourse(rv, q),
         NEW e \in q.todo, NEW page \in SUBSET Submissions, \A s \in page : ExperimentOf[s] = e,
         NEW r \in Requests, r.at = "read", r.do = q.do, r.todo = q.todo \ {e}, r.left = page, r.part = Empty,
         r.whole = q.whole, r.counted = q.counted, r.before = q.before \cup (page \cap InPublic(rv))
  PROVE  RequestOnCourse(rv, r)
<1>1. Listing(rv, q) /\ e \in Experiments
  BY DEF RequestOnCourse, Requests
<1>2. CountedOf(r, e) = {} /\ r.counted \ CountedOf(r, e) = q.counted
  BY <1>1 DEF CountedOf, Listing
<1>3. AddedUp(r.part, Contents(rv, CountedOf(r, e)))
  BY <1>2, EmptyCounts DEF Contents
<1>4. r.left \cap r.counted = {}
  BY <1>1 DEF Listing
<1>5. r.counted \cup r.before \subseteq InPublic(rv)
  BY DEF RequestOnCourse
<1>6. Reading(rv, r, e)
  BY <1>1, <1>2, <1>3, <1>4 DEF Reading, Listing
<1> QED BY <1>1, <1>5, <1>6 DEF RequestOnCourse

(* A submission is read: published, it is added up; otherwise it was not    *)
(* published when it was listed either.                                     *)
LEMMA ReadKeeps ==
  ASSUME NEW rv \in ReviewTables, NEW q \in Requests, q.at = "read", RequestOnCourse(rv, q), NEW z \in q.left,
         NEW r \in Requests, r.at = "read", r.do = q.do, r.todo = q.todo, r.left = q.left \ {z}, r.whole = q.whole,
         r.before = q.before,
         \/ /\ z \in InPublic(rv)
            /\ r.part = AddReview(q.part, rv[z].content) /\ r.counted = q.counted \cup {z}
         \/ z \notin InPublic(rv) /\ r.part = q.part /\ r.counted = q.counted
  PROVE  RequestOnCourse(rv, r)
<1>1. PICK e \in Experiments : Reading(rv, q, e)
  BY DEF RequestOnCourse
<1>2. ExperimentOf[z] = e /\ z \notin q.counted
  BY <1>1 DEF Reading
<1>3. q.counted \cup q.before \subseteq InPublic(rv)
  BY DEF RequestOnCourse
<1>4. CASE z \in InPublic(rv) /\ r.part = AddReview(q.part, rv[z].content) /\ r.counted = q.counted \cup {z}
  <2> DEFINE S == CountedOf(q, e)
             c == Contents(rv, S)
             d == Contents(rv, S \cup {z})
  <2>1. S \in SUBSET InPublic(rv) /\ S \cup {z} \in SUBSET InPublic(rv) /\ z \notin S
    BY <1>2, <1>3, <1>4 DEF CountedOf
  <2>2. IsFiniteSet(S) /\ c \in [S -> Reviews] /\ d \in [S \cup {z} -> Reviews]
    BY <2>1, ContentsTyped
  <2>3. (\A s \in S : d[s] = c[s]) /\ d[z] = rv[z].content
    BY DEF Contents
  <2>4. AddedUp(q.part, c) /\ q.part \in Parts
    BY <1>1 DEF Reading, Requests
  <2>5. CountedOf(r, e) = S \cup {z} /\ r.counted \ CountedOf(r, e) = q.counted \ S
    BY <1>2, <1>4 DEF CountedOf
  <2> HIDE DEF S, c, d
  <2>6. AddedUp(AddReview(q.part, d[z]), d)
    BY <2>1, <2>2, <2>3, <2>4, AddReviewCounts
  <2>7. AddedUp(r.part, Contents(rv, CountedOf(r, e)))
    BY <1>4, <2>3, <2>5, <2>6 DEF d
  <2>8. (q.do = "course" => Merged(r.whole, Contents(rv, r.counted \ CountedOf(r, e))))
        /\ (q.do # "course" => r.counted = CountedOf(r, e))
    BY <1>1, <1>4, <2>5 DEF Reading, S
  <2>9. /\ r.do \in {"experiment", "course"}
        /\ r.before \subseteq r.counted \cup r.left
        /\ r.left \cap r.counted = {}
        /\ \A s \in r.left : ExperimentOf[s] = e
        /\ e \notin r.todo /\ \A s \in r.counted : ExperimentOf[s] \notin r.todo
    BY <1>1, <1>2, <1>4 DEF Reading
  <2>10. Reading(rv, r, e)
    BY <2>7, <2>8, <2>9 DEF Reading
  <2>11. r.counted \cup r.before \subseteq InPublic(rv)
    BY <1>3, <1>4
  <2> QED BY <2>10, <2>11 DEF RequestOnCourse
<1>5. CASE z \notin InPublic(rv) /\ r.part = q.part /\ r.counted = q.counted
  <2>1. CountedOf(r, e) = CountedOf(q, e)
    BY <1>5 DEF CountedOf
  <2>2. r.before \subseteq r.counted \cup r.left
    BY <1>1, <1>3, <1>5 DEF Reading
  <2>3. Reading(rv, r, e)
    BY <1>1, <1>5, <2>1, <2>2 DEF Reading
  <2> QED BY <1>3, <1>5, <2>3 DEF RequestOnCourse
<1> QED BY <1>4, <1>5

(* An experiment is done: it is the report, or merged into the course.      *)
LEMMA FinishExperimentKeeps ==
  ASSUME NEW rv \in ReviewTables, NEW q \in Requests, q.at = "read", RequestOnCourse(rv, q), q.left = {},
         NEW r \in Requests, r.at = (IF q.do = "course" THEN "list" ELSE "built"), r.do = q.do, r.todo = q.todo,
         r.part = Averaged(q.part), r.whole = (IF q.do = "course" THEN Merge(q.whole, Averaged(q.part)) ELSE q.whole),
         r.counted = q.counted, r.before = q.before
  PROVE  RequestOnCourse(rv, r)
<1>1. PICK e \in Experiments : Reading(rv, q, e)
  BY DEF RequestOnCourse
<1> DEFINE S == q.counted \ CountedOf(q, e)
           T == CountedOf(q, e)
           c == Contents(rv, S)
           d == Contents(rv, T)
           j == Contents(rv, q.counted)
<1>2. q.counted \in SUBSET InPublic(rv) /\ S \in SUBSET InPublic(rv) /\ T \in SUBSET InPublic(rv)
      /\ S \cup T = q.counted /\ S \cap T = {}
  BY DEF RequestOnCourse, CountedOf
<1>3. IsFiniteSet(S) /\ IsFiniteSet(T) /\ c \in [S -> Reviews] /\ d \in [T -> Reviews] /\ j \in [S \cup T -> Reviews]
  BY <1>2, ContentsTyped
<1>4. (\A s \in S : j[s] = c[s]) /\ (\A s \in T : j[s] = d[s])
  BY <1>2 DEF Contents
<1>5. q.part \in Parts /\ q.whole \in Parts /\ AddedUp(q.part, d) /\ Averaged(q.part) \in Parts
  BY <1>1, AveragedFields DEF Reading, Requests
<1>6. /\ r.before \subseteq r.counted /\ r.do \in {"experiment", "course"}
      /\ \A s \in r.counted : ExperimentOf[s] \notin r.todo
      /\ q.do = "course" => Merged(q.whole, c)
      /\ q.do # "course" => q.counted = T
  BY <1>1 DEF Reading
<1>7. r.counted \cup r.before \subseteq InPublic(rv)
  BY DEF RequestOnCourse
<1> HIDE DEF S, T, c, d, j
<1>8. Shows(Averaged(q.part), d, 1)
  BY <1>3, <1>5, AveragedShows
<1>9. CASE q.do = "course"
  <2>1. Merged(Merge(q.whole, Averaged(q.part)), j)
    BY <1>2, <1>3, <1>4, <1>5, <1>6, <1>8, <1>9, MergeJoins
  <2>2. Merged(r.whole, Contents(rv, r.counted))
    BY <1>9, <2>1 DEF j
  <2>3. Listing(rv, r)
    BY <1>6, <1>9, <2>2 DEF Listing
  <2> QED BY <1>7, <1>9, <2>3 DEF RequestOnCourse
<1>10. CASE q.do # "course"
  <2>1. Shows(r.part, Contents(rv, r.counted), 1)
    BY <1>6, <1>8, <1>10 DEF d
  <2>2. Finished(rv, r)
    BY <1>6, <1>10, <2>1 DEF Finished
  <2> QED BY <1>7, <1>10, <2>2 DEF RequestOnCourse
<1> QED BY <1>9, <1>10

LEMMA FinishCourseKeeps ==
  ASSUME NEW rv \in ReviewTables, NEW q \in Requests, q.at = "list", RequestOnCourse(rv, q), q.todo = {},
         NEW r \in Requests, r.at = "built", r.do = q.do, r.whole = Averaged(q.whole), r.counted = q.counted, r.before = q.before
  PROVE  RequestOnCourse(rv, r)
<1>1. Listing(rv, q) /\ q.do = "course"
  BY DEF RequestOnCourse, Listing
<1>2. q.counted \in SUBSET InPublic(rv) /\ r.counted \cup r.before \subseteq InPublic(rv)
  BY DEF RequestOnCourse
<1>3. Shows(Averaged(q.whole), Contents(rv, q.counted), 2)
  <2>1. IsFiniteSet(q.counted) /\ Contents(rv, q.counted) \in [q.counted -> Reviews]
    BY <1>2, ContentsTyped
  <2>2. Merged(q.whole, Contents(rv, q.counted)) /\ q.whole \in Parts
    BY <1>1 DEF Listing, Requests
  <2> QED BY <2>1, <2>2, CourseShows
<1>4. Finished(rv, r)
  BY <1>1, <1>3 DEF Listing, Finished
<1> QED BY <1>2, <1>4 DEF RequestOnCourse

(* The steps of Others and of a request. *)

LEMMA OthersPreserve ==
  ASSUME SummaryInv, Others
  PROVE  SummaryInv'
<1>1. \A s \in Submissions : reviews[s] = NoReview => reviews[s].status \notin {"draft", "published"}
  BY DEF NoReview
<1>2. PICK s \in Submissions : OpenSubmission(s) \/ PublishTeacherReview(s) \/ (\E c \in Reviews : UpsertTeacherReview(s, c))
  BY DEF Others
<1>3. SUFFICES /\ opened' \subseteq Submissions /\ reviews' \in ReviewTables /\ request' = request
               /\ \A z \in InPublic(reviews) : reviews'[z] = reviews[z]
  <2>1. \A h \in Handlers : RequestOnCourse(reviews', request[h])
    <3> TAKE h \in Handlers
    <3>1. reviews \in ReviewTables /\ request[h] \in Requests /\ RequestOnCourse(reviews, request[h])
      BY DEF SummaryInv
    <3> QED BY <1>3, <3>1, OthersKeep
  <2> QED BY <1>3, <2>1 DEF SummaryInv
<1>4. CASE OpenSubmission(s)
  BY <1>4 DEF SummaryInv, OpenSubmission
<1>5. CASE PublishTeacherReview(s)
  <2>1. reviews[s].status = "draft" /\ reviews[s].content \in Reviews
    BY <1>1, <1>5 DEF SummaryInv, ReviewTables, PublishTeacherReview
  <2>2. reviews'[s] \in [status : {"draft", "published"}, content : Reviews]
    BY <1>1, <1>5 DEF SummaryInv, ReviewTables, PublishTeacherReview
  <2>3. reviews' \in ReviewTables
    BY <1>5, <2>2 DEF SummaryInv, ReviewTables, PublishTeacherReview
  <2> QED BY <1>5, <2>1, <2>3 DEF SummaryInv, PublishTeacherReview, ReviewTables, InPublic
<1>6. ASSUME NEW c \in Reviews, UpsertTeacherReview(s, c)
      PROVE  /\ opened' \subseteq Submissions /\ reviews' \in ReviewTables /\ request' = request
             /\ \A z \in InPublic(reviews) : reviews'[z] = reviews[z]
  BY <1>6 DEF SummaryInv, UpsertTeacherReview, ReviewTables, InPublic
<1> QED BY <1>2, <1>4, <1>5, <1>6

LEMMA OneMoves ==
  ASSUME SummaryInv, NEW h \in Handlers, NEW r \in Requests, request' = [request EXCEPT ![h] = r], RequestOnCourse(reviews, r),
         UNCHANGED <<opened, reviews>>
  PROVE  SummaryInv'
<1>1. request' \in [Handlers -> Requests] /\ request'[h] = r /\ \A k \in Handlers \ {h} : request'[k] = request[k]
  BY DEF SummaryInv
<1>2. \A k \in Handlers : RequestOnCourse(reviews, request'[k])
  BY <1>1 DEF SummaryInv
<1> QED BY <1>1, <1>2 DEF SummaryInv

LEMMA NoRequestFits == NoRequest \in Requests /\ RequestOnCourse(reviews, NoRequest)
  BY EmptyTyped DEF NoRequest, Requests, RequestOnCourse

LEMMA BuildPreserves ==
  ASSUME SummaryInv, NEW h \in Handlers, BuildReport(h)
  PROVE  SummaryInv'
<1> DEFINE q == request[h]
<1>1. q \in Requests /\ RequestOnCourse(reviews, q) /\ reviews \in ReviewTables
  BY DEF SummaryInv
<1>2. ASSUME NEW limit \in Limits, GetCourseReportSummary(h, limit)
      PROVE  SummaryInv'
  <2> DEFINE r == [q EXCEPT !.do = "course", !.at = "list", !.todo = Newest(Experiments, limit)]
  <2>1. request' = [request EXCEPT ![h] = r] /\ q = NoRequest
    BY <1>2 DEF GetCourseReportSummary, SummaryInv
  <2>2. r \in Requests
    BY <1>1 DEF Requests, Newest
  <2>3. /\ r.at = "list" /\ r.do = "course" /\ r.whole = Empty /\ r.counted = {} /\ r.before = {}
    BY <2>1 DEF NoRequest
  <2> HIDE DEF r
  <2>4. Merged(r.whole, Contents(reviews, r.counted))
    BY <2>3, EmptyCounts DEF Contents
  <2>5. RequestOnCourse(reviews, r)
    BY <2>3, <2>4 DEF RequestOnCourse, Listing
  <2> QED BY <1>2, <2>1, <2>2, <2>5, OneMoves DEF GetCourseReportSummary
<1>3. ASSUME NEW e \in Experiments, NEW limit \in Limits, GetExperimentReportSummary(h, e, limit)
      PROVE  SummaryInv'
  <2> DEFINE r == [q EXCEPT !.do = "experiment", !.at = "list", !.on = e, !.limit = limit, !.todo = {e}]
  <2>1. request' = [request EXCEPT ![h] = r] /\ q = NoRequest
    BY <1>3 DEF GetExperimentReportSummary, SummaryInv
  <2>2. r \in Requests
    <3>1. limit \in Nat /\ {e} \in SUBSET Experiments /\ e \in {None} \cup Experiments \cup Submissions \cup Exports
      OBVIOUS
    <3> QED BY <1>1, <3>1 DEF Requests
  <2>3. /\ r.at = "list" /\ r.do = "experiment" /\ r.counted = {} /\ r.before = {} /\ r.todo = {e}
    BY <2>1 DEF NoRequest
  <2> HIDE DEF r
  <2>5. RequestOnCourse(reviews, r)
    BY <2>3 DEF RequestOnCourse, Listing
  <2> QED BY <1>3, <2>1, <2>2, <2>5, OneMoves DEF GetExperimentReportSummary
<1>4. ASSUME NEW s \in Submissions, NEW student \in BOOLEAN, GetSubmissionReport(h, s, student)
      PROVE  SummaryInv'
  <2> DEFINE do == IF student THEN "own" ELSE "submission"
             p == [Empty EXCEPT !.sum = reviews[s].content.total]
             r == [q EXCEPT !.do = do, !.at = "built", !.on = s, !.part = p]
  <2>1. request' = [request EXCEPT ![h] = r] /\ q = NoRequest
    BY <1>4 DEF GetSubmissionReport, SummaryInv
  <2>2. reviews[s].content.total \in Nat
    BY <1>1, <1>4, ReviewTyped DEF GetSubmissionReport, ReviewTables
  <2>3. r \in Requests
    <3>1. p \in Parts
      BY <2>2, EmptyTyped DEF Parts
    <3> HIDE DEF p
    <3> QED BY <1>1, <3>1 DEF Requests
  <2>4. r.at = "built" /\ r.do \in {"own", "submission"} /\ r.counted = {} /\ r.before = {}
    BY <2>1 DEF NoRequest
  <2> HIDE DEF r
  <2>5. RequestOnCourse(reviews, r)
    BY <2>4 DEF RequestOnCourse, Finished
  <2> QED BY <1>4, <2>1, <2>3, <2>5, OneMoves DEF GetSubmissionReport
<1>5. CASE ListSubmissionsForExperiment(h)
  <2> DEFINE e == Max(q.todo)
             page == Newest({s \in opened : ExperimentOf[s] = e}, q.limit)
             r == [q EXCEPT !.at = "read", !.todo = @ \ {e}, !.left = page, !.part = Empty,
                            !.before = @ \cup (page \cap Published)]
  <2>1. q.at = "list" /\ q.todo # {} /\ request' = [request EXCEPT ![h] = r]
    BY <1>5 DEF ListSubmissionsForExperiment, SummaryInv
  <2>2. e \in q.todo
    <3>1. q.todo \subseteq Experiments
      BY <1>1 DEF Requests
    <3>2. q.todo \subseteq Int
      <4>1. \A x \in Experiments : x \in Int
        BY SummaryAssumption
      <4> QED BY ONLY <3>1, <4>1
    <3>3. IsFiniteSet(q.todo)
      BY <3>1, FS_Subset
    <3> QED BY <2>1, <3>1, <3>2, <3>3, MaxIn
  <2>3. page \in SUBSET Submissions /\ \A s \in page : ExperimentOf[s] = e
    BY DEF Newest, SummaryInv
  <2> HIDE DEF e, page
  <2>4. r \in Requests
    BY <1>1, <2>3, EmptyTyped DEF Requests
  <2>5. /\ r.at = "read" /\ r.do = q.do /\ r.todo = q.todo \ {e} /\ r.left = page /\ r.part = Empty
        /\ r.whole = q.whole /\ r.counted = q.counted /\ r.before = q.before \cup (page \cap InPublic(reviews))
    BY <1>1 DEF Requests, InPublic, Published
  <2> HIDE DEF r
  <2>6. RequestOnCourse(reviews, r)
    BY <1>1, <2>1, <2>2, <2>3, <2>4, <2>5, ListKeeps
  <2> QED BY <1>5, <2>1, <2>4, <2>6, OneMoves DEF ListSubmissionsForExperiment
<1>6. CASE ReadSubmission(h)
  <2> DEFINE s == Max(q.left)
             p == IF s \in Published THEN AddReview(q.part, reviews[s].content) ELSE q.part
             c == IF s \in Published THEN q.counted \cup {s} ELSE q.counted
             r == [q EXCEPT !.left = @ \ {s}, !.part = p, !.counted = c]
  <2>1. q.at = "read" /\ q.left # {} /\ request' = [request EXCEPT ![h] = r]
    BY <1>6 DEF ReadSubmission, SummaryInv
  <2>2. s \in q.left /\ s \in Submissions
    <3>1. q.left \subseteq Submissions
      BY <1>1 DEF Requests
    <3>2. q.left \subseteq Int
      <4>1. \A x \in Submissions : x \in Int
        BY SummaryAssumption
      <4> QED BY ONLY <3>1, <4>1
    <3>3. IsFiniteSet(q.left)
      BY <3>1, FS_Subset
    <3> QED BY <2>1, <3>1, <3>2, <3>3, MaxIn
  <2> HIDE DEF s
  <2>3. p \in Parts /\ c \in SUBSET Submissions
    <3>1. q.part \in Parts /\ q.counted \in SUBSET Submissions
      BY <1>1 DEF Requests
    <3>2. s \in Published => reviews[s].content \in Reviews
      BY <1>1, <2>2 DEF Published, ReviewTables, NoReview
    <3>3. s \in Published => AddReview(q.part, reviews[s].content) \in Parts
      BY <3>1, <3>2, AddReviewTyped
    <3> QED BY <2>2, <3>1, <3>3
  <2>4. \/ s \in InPublic(reviews) /\ p = AddReview(q.part, reviews[s].content) /\ c = q.counted \cup {s}
        \/ s \notin InPublic(reviews) /\ p = q.part /\ c = q.counted
    BY DEF InPublic, Published
  <2> HIDE DEF p, c
  <2>5. r \in Requests
    BY <1>1, <2>3 DEF Requests
  <2>6. /\ r.at = "read" /\ r.do = q.do /\ r.todo = q.todo /\ r.left = q.left \ {s} /\ r.whole = q.whole
        /\ r.before = q.before /\ r.part = p /\ r.counted = c
    BY <1>1, <2>1 DEF Requests
  <2> HIDE DEF r
  <2>7. RequestOnCourse(reviews, r)
    BY <1>1, <2>1, <2>2, <2>4, <2>5, <2>6, ReadKeeps
  <2> QED BY <1>6, <2>1, <2>5, <2>7, OneMoves DEF ReadSubmission
<1>7. CASE FinishExperiment(h)
  <2> DEFINE p == Averaged(q.part)
             l == IF q.do = "course" THEN "list" ELSE "built"
             w == IF q.do = "course" THEN Merge(q.whole, p) ELSE q.whole
             r == [q EXCEPT !.part = p, !.at = l, !.whole = w]
  <2>1. q.at = "read" /\ q.left = {} /\ request' = [request EXCEPT ![h] = r]
    BY <1>7 DEF FinishExperiment, SummaryInv
  <2>2. p \in Parts /\ w \in Parts
    <3>1. q.part \in Parts /\ q.whole \in Parts
      BY <1>1 DEF Requests
    <3>2. p \in Parts
      BY <3>1, AveragedFields
    <3> HIDE DEF p
    <3> QED BY <3>1, <3>2, MergeFields
  <2> HIDE DEF p, w
  <2>3. r \in Requests
    BY <1>1, <2>2 DEF Requests
  <2>4. /\ r.at = l /\ r.do = q.do /\ r.todo = q.todo /\ r.part = p /\ r.whole = w
        /\ r.counted = q.counted /\ r.before = q.before
    BY <1>1 DEF Requests
  <2> HIDE DEF r
  <2>5. RequestOnCourse(reviews, r)
    BY <1>1, <2>1, <2>3, <2>4, FinishExperimentKeeps DEF p, w
  <2> QED BY <1>7, <2>1, <2>3, <2>5, OneMoves DEF FinishExperiment
<1>8. CASE FinishCourse(h)
  <2> DEFINE w == Averaged(q.whole)
             r == [q EXCEPT !.whole = w, !.part = Empty, !.at = "built"]
  <2>1. q.at = "list" /\ q.todo = {} /\ request' = [request EXCEPT ![h] = r]
    BY <1>8 DEF FinishCourse, SummaryInv
  <2>2. w \in Parts
    <3>1. q.whole \in Parts
      BY <1>1 DEF Requests
    <3> QED BY <3>1, AveragedFields
  <2> HIDE DEF w
  <2>3. r \in Requests
    BY <1>1, <2>2, EmptyTyped DEF Requests
  <2>4. r.at = "built" /\ r.do = q.do /\ r.whole = w /\ r.counted = q.counted /\ r.before = q.before
    BY <1>1 DEF Requests
  <2> HIDE DEF r
  <2>5. RequestOnCourse(reviews, r)
    BY <1>1, <2>1, <2>3, <2>4, FinishCourseKeeps DEF w
  <2> QED BY <1>8, <2>1, <2>3, <2>5, OneMoves DEF FinishCourse
<1> QED BY <1>2, <1>3, <1>4, <1>5, <1>6, <1>7, <1>8 DEF BuildReport

-----------------------------------------------------------------------------
(* 4. What an export is worth *)

ExportTypes ==
  /\ exports \in [Exports -> [status : {None, "queued", "succeeded", "failed"}, by : Users \cup {None},
                              digest : Payloads \cup {None}]]
  /\ files \in [Exports -> Payloads \cup {None, Partial}]
  /\ exporter \in [Handlers -> [id : Exports \cup {None}, by : Users \cup {None}, payload : Payloads \cup {None}]]

Writing(h) == request[h].at \in {"render", "write", "complete"}

(* A writer has a queued row and a payload; at the end the payload is in    *)
(* the file.                                                                *)
WriterFits(h) ==
  /\ Writing(h) => /\ exporter[h].id \in Exports /\ exporter[h].payload \in Payloads
                   /\ exports[exporter[h].id].status = "queued"
  /\ request[h].at = "complete" => files[exporter[h].id] = exporter[h].payload

OneWriter == \A h, k \in Handlers : Writing(h) /\ Writing(k) /\ exporter[h].id = exporter[k].id => h = k

RowsHaveFiles == \A x \in Exports : exports[x].status = "succeeded" => files[x] = exports[x].digest /\ files[x] \in Payloads

SenderFits(h) ==
  request[h].at = "send" => /\ request[h].on \in Exports
                            /\ exports[request[h].on].status = "succeeded"
                            /\ exporter[h].payload = exports[request[h].on].digest

ExportInv ==
  /\ ExportTypes
  /\ \A h \in Handlers : WriterFits(h) /\ SenderFits(h)
  /\ OneWriter
  /\ RowsHaveFiles

ReportInv == SummaryInv /\ ExportInv

-----------------------------------------------------------------------------
(* The steps of exports *)

USE ExportAssumption

LEMMA PayloadNotNone ==
  \A y \in Payloads : y # None /\ y # Partial
<1> TAKE y \in Payloads
<1>1. y # None
  OBVIOUS
<1>2. y[1] \in KnownFormats
  BY DEF Payloads
<1>3. Partial[1] = None
  BY DEF Partial
<1> QED BY <1>1, <1>2, <1>3

(* Only what a request does on the way to its figures needs them.           *)
LEMMA LeavesFigures ==
  ASSUME SummaryInv, NEW h \in Handlers, NEW r \in Requests, request' = [request EXCEPT ![h] = r],
         r.counted = request[h].counted, r.before = request[h].before, r.at \notin {"list", "read", "built"},
         UNCHANGED <<opened, reviews>>
  PROVE  SummaryInv'
<1>1. RequestOnCourse(reviews, r)
  BY DEF SummaryInv, RequestOnCourse
<1> QED BY <1>1, OneMoves

LEMMA GotoKeeps ==
  ASSUME SummaryInv, NEW h \in Handlers, NEW l \in {"render", "write", "complete", "answer"}, Goto(h, l),
         UNCHANGED <<opened, reviews>>
  PROVE  /\ SummaryInv'
         /\ request'[h].at = l /\ \A k \in Handlers \ {h} : request'[k] = request[k]
<1> DEFINE r == [request[h] EXCEPT !.at = l]
<1>1. request[h] \in Requests /\ request' = [request EXCEPT ![h] = r] /\ request \in [Handlers -> Requests]
  BY DEF Goto, SummaryInv
<1>2. r \in Requests /\ r.counted = request[h].counted /\ r.before = request[h].before /\ r.at = l
  BY <1>1 DEF Requests
<1> HIDE DEF r
<1>3. SummaryInv'
  BY <1>1, <1>2, LeavesFigures
<1> QED BY <1>1, <1>2, <1>3

LEMMA SummaryOfPart ==
  ASSUME SummaryInv, NEW h \in Handlers
  PROVE  Summary(h) \in Parts
<1>1. request[h] \in Requests
  BY DEF SummaryInv
<1> QED BY <1>1 DEF Summary, Requests

(* A request that neither writes nor sends does not concern the exports.    *)
LEMMA Bystander ==
  ASSUME ExportInv, NEW h \in Handlers, request'[h].at \notin {"render", "write", "complete", "send"},
         \A k \in Handlers \ {h} : request'[k] = request[k], UNCHANGED <<exports, files>>,
         exporter' \in [Handlers -> [id : Exports \cup {None}, by : Users \cup {None}, payload : Payloads \cup {None}]],
         \A k \in Handlers \ {h} : exporter'[k] = exporter[k]
  PROVE  ExportInv'
<1>1. ExportTypes'
  BY DEF ExportInv, ExportTypes
<1>2. \A k \in Handlers : (Writing(k)' => k # h /\ Writing(k)) /\ (request'[k].at = "send" => k # h)
  BY DEF Writing
<1>3. \A k \in Handlers : WriterFits(k)'
  BY <1>2 DEF ExportInv, WriterFits, Writing
<1>4. \A k \in Handlers : SenderFits(k)'
  BY <1>2 DEF ExportInv, SenderFits
<1>5. OneWriter'
  BY <1>2 DEF ExportInv, OneWriter
<1>6. RowsHaveFiles'
  BY DEF ExportInv, RowsHaveFiles
<1> QED BY <1>1, <1>3, <1>4, <1>5, <1>6 DEF ExportInv

LEMMA BuildMoves ==
  ASSUME SummaryInv, NEW h \in Handlers, BuildReport(h)
  PROVE  request'[h].at \in {"list", "read", "built"} /\ \A k \in Handlers \ {h} : request'[k] = request[k]
<1>1. request \in [Handlers -> Requests]
  BY DEF SummaryInv
<1>2. ASSUME NEW limit \in Limits, GetCourseReportSummary(h, limit)
      PROVE  request'[h].at \in {"list", "read", "built"} /\ \A k \in Handlers \ {h} : request'[k] = request[k]
  BY <1>1, <1>2 DEF GetCourseReportSummary, Requests
<1>3. ASSUME NEW e \in Experiments, NEW limit \in Limits, GetExperimentReportSummary(h, e, limit)
      PROVE  request'[h].at \in {"list", "read", "built"} /\ \A k \in Handlers \ {h} : request'[k] = request[k]
  BY <1>1, <1>3 DEF GetExperimentReportSummary, Requests
<1>4. ASSUME NEW s \in Submissions, NEW student \in BOOLEAN, GetSubmissionReport(h, s, student)
      PROVE  request'[h].at \in {"list", "read", "built"} /\ \A k \in Handlers \ {h} : request'[k] = request[k]
  BY <1>1, <1>4 DEF GetSubmissionReport, Requests
<1>5. CASE ListSubmissionsForExperiment(h)
  BY <1>1, <1>5 DEF ListSubmissionsForExperiment, Requests
<1>6. CASE ReadSubmission(h)
  BY <1>1, <1>6 DEF ReadSubmission, Requests
<1>7. CASE FinishExperiment(h)
  BY <1>1, <1>7 DEF FinishExperiment, Requests
<1>8. CASE FinishCourse(h)
  BY <1>1, <1>8 DEF FinishCourse, Requests
<1> QED BY <1>2, <1>3, <1>4, <1>5, <1>6, <1>7, <1>8 DEF BuildReport

LEMMA CreatePreserves ==
  ASSUME ReportInv, NEW h \in Handlers, NEW x \in Exports, NEW u \in Users, NEW f \in Formats, CreateReportExport(h, x, u, f)
  PROVE  ReportInv'
<1> DEFINE y == <<NormalizeReportFormat(f), request[h].do, Summary(h)>>
           row == [status |-> "queued", by |-> u, digest |-> None]
           mine == [id |-> x, by |-> u, payload |-> y]
<1>1. /\ exports' = [exports EXCEPT ![x] = row] /\ exporter' = [exporter EXCEPT ![h] = mine]
      /\ exports[x] = NoExport /\ files' = files /\ Goto(h, "render") /\ UNCHANGED <<opened, reviews>>
  BY DEF CreateReportExport
<1>2. y \in Payloads
  <2>1. request[h].do \in {"submission", "experiment", "course"}
    BY DEF CreateReportExport, ReportInv, SummaryInv, RequestOnCourse, Finished
  <2>2. NormalizeReportFormat(f) \in KnownFormats
    BY DEF CreateReportExport
  <2> QED BY <2>1, <2>2, SummaryOfPart DEF ReportInv, Payloads
<1> HIDE DEF y
<1>3. SummaryInv' /\ request'[h].at = "render" /\ \A k \in Handlers \ {h} : request'[k] = request[k]
  BY <1>1, GotoKeeps DEF ReportInv
<1>4. ExportTypes'
  BY <1>1, <1>2 DEF ReportInv, ExportInv, ExportTypes
<1>5. /\ exports'[x] = row /\ \A z \in Exports \ {x} : exports'[z] = exports[z]
      /\ exporter'[h] = mine /\ \A k \in Handlers \ {h} : exporter'[k] = exporter[k]
  BY <1>1 DEF ReportInv, ExportInv, ExportTypes
<1>6. exports[x].status \notin {"queued", "succeeded"}
  BY <1>1 DEF NoExport
<1>7. \A k \in Handlers \ {h} : (Writing(k)' <=> Writing(k)) /\ (Writing(k) => exporter[k].id # x)
  BY <1>3, <1>6 DEF ReportInv, ExportInv, WriterFits, Writing
<1>8. \A k \in Handlers : WriterFits(k)'
  <2>1. WriterFits(h)'
    BY <1>2, <1>3, <1>5 DEF WriterFits, Writing
  <2>2. ASSUME NEW k \in Handlers \ {h} PROVE WriterFits(k)'
    BY <1>1, <1>3, <1>5, <1>7 DEF ReportInv, ExportInv, WriterFits, Writing
  <2> QED BY <2>1, <2>2
<1>9. \A k \in Handlers : SenderFits(k)'
  BY <1>3, <1>5, <1>6 DEF ReportInv, ExportInv, SenderFits
<1>10. OneWriter'
  BY <1>5, <1>7 DEF ReportInv, ExportInv, OneWriter
<1>11. RowsHaveFiles'
  BY <1>1, <1>5 DEF ReportInv, ExportInv, RowsHaveFiles
<1> QED BY <1>3, <1>4, <1>8, <1>9, <1>10, <1>11 DEF ReportInv, ExportInv

(* A writer writes to its file: its row is queued, so no row that is        *)
(* completed loses its file.                                                *)
LEMMA FilePreserves ==
  ASSUME ReportInv, NEW h \in Handlers, OpenFile(h) \/ WriteFile(h)
  PROVE  ReportInv'
<1> DEFINE x == exporter[h].id
           y == IF request[h].at = "render" THEN Partial ELSE exporter[h].payload
           l == IF request[h].at = "render" THEN "write" ELSE "complete"
<1>1. /\ files' = [files EXCEPT ![x] = y] /\ Goto(h, l) /\ Writing(h) /\ UNCHANGED <<opened, reviews, exports, exporter>>
      /\ l = "complete" => y = exporter[h].payload
  BY DEF OpenFile, WriteFile, Writing
<1>2. x \in Exports /\ exporter[h].payload \in Payloads /\ exports[x].status = "queued"
  BY <1>1 DEF ReportInv, ExportInv, WriterFits
<1>3. y \in Payloads \cup {None, Partial} /\ l \in {"write", "complete"}
  BY <1>2
<1> HIDE DEF y, l
<1>4. SummaryInv' /\ request'[h].at = l /\ \A k \in Handlers \ {h} : request'[k] = request[k]
  BY <1>1, <1>3, GotoKeeps DEF ReportInv
<1>5. ExportTypes'
  BY <1>1, <1>3 DEF ReportInv, ExportInv, ExportTypes
<1>6. files'[x] = y /\ \A z \in Exports \ {x} : files'[z] = files[z]
  BY <1>1, <1>2 DEF ReportInv, ExportInv, ExportTypes
<1> HIDE DEF x
<1>7. \A k \in Handlers \ {h} : (Writing(k)' <=> Writing(k)) /\ (Writing(k) => exporter[k].id # x)
  BY <1>1, <1>4 DEF ReportInv, ExportInv, OneWriter, Writing, x
<1>8. \A k \in Handlers : WriterFits(k)'
  <2>1. WriterFits(h)'
    BY <1>1, <1>2, <1>4, <1>6 DEF WriterFits, Writing, x
  <2>2. ASSUME NEW k \in Handlers \ {h} PROVE WriterFits(k)'
    <3>1. WriterFits(k)
      BY DEF ReportInv, ExportInv
    <3> QED BY <1>1, <1>4, <1>6, <1>7, <3>1 DEF WriterFits, Writing
  <2> QED BY <2>1, <2>2
<1>9. \A k \in Handlers : SenderFits(k)'
  BY <1>1, <1>3, <1>4 DEF ReportInv, ExportInv, SenderFits
<1>10. OneWriter'
  BY <1>1, <1>7 DEF ReportInv, ExportInv, OneWriter
<1>11. RowsHaveFiles'
  BY <1>1, <1>2, <1>6 DEF ReportInv, ExportInv, RowsHaveFiles
<1> QED BY <1>4, <1>5, <1>8, <1>9, <1>10, <1>11 DEF ReportInv, ExportInv

(* The row of a writer is completed, with its file whole, or failed.        *)
LEMMA CompletePreserves ==
  ASSUME ReportInv, NEW h \in Handlers, CompleteReportExport(h) \/ CompleteFailedExport(h)
  PROVE  ReportInv'
<1> DEFINE x == exporter[h].id
           done == request[h].at = "complete"
           row == [exports[x] EXCEPT !.status = IF done THEN "succeeded" ELSE "failed",
                                     !.digest = IF done THEN exporter[h].payload ELSE None]
<1>1. /\ exports' = [exports EXCEPT ![x] = row] /\ Goto(h, "answer") /\ Writing(h)
      /\ UNCHANGED <<opened, reviews, files, exporter>>
  <2>1. CASE CompleteReportExport(h)
    BY <2>1 DEF CompleteReportExport, Writing
  <2>2. CASE CompleteFailedExport(h)
    BY <2>2 DEF CompleteFailedExport, Writing
  <2> QED BY <2>1, <2>2
<1>2. /\ x \in Exports /\ exporter[h].payload \in Payloads /\ exports[x].status = "queued"
      /\ done => files[x] = exporter[h].payload
  BY <1>1 DEF ReportInv, ExportInv, WriterFits
<1>3. exports[x] \in [status : {None, "queued", "succeeded", "failed"}, by : Users \cup {None}, digest : Payloads \cup {None}]
  BY <1>2 DEF ReportInv, ExportInv, ExportTypes
<1>4. row \in [status : {None, "queued", "succeeded", "failed"}, by : Users \cup {None}, digest : Payloads \cup {None}]
  BY <1>2, <1>3
<1>5. row.status \in {"succeeded", "failed"} /\ (row.status = "succeeded" => row.digest = files[x] /\ files[x] \in Payloads)
  BY <1>2, <1>3
<1> HIDE DEF row, done
<1>6. SummaryInv' /\ request'[h].at = "answer" /\ \A k \in Handlers \ {h} : request'[k] = request[k]
  BY <1>1, GotoKeeps DEF ReportInv
<1>7. ExportTypes'
  BY <1>1, <1>4 DEF ReportInv, ExportInv, ExportTypes
<1>8. exports'[x] = row /\ \A z \in Exports \ {x} : exports'[z] = exports[z]
  BY <1>1, <1>2 DEF ReportInv, ExportInv, ExportTypes
<1> HIDE DEF x
<1>9. \A k \in Handlers : Writing(k)' => k # h /\ Writing(k) /\ exporter[k].id # x
  BY <1>1, <1>6 DEF ReportInv, ExportInv, OneWriter, Writing, x
<1>10. \A k \in Handlers : WriterFits(k)'
  <2> TAKE k \in Handlers
  <2>1. WriterFits(k)
    BY DEF ReportInv, ExportInv
  <2> QED BY <1>1, <1>6, <1>8, <1>9, <2>1 DEF WriterFits, Writing
<1>11. \A k \in Handlers : SenderFits(k)'
  <2> TAKE k \in Handlers
  <2>1. SenderFits(k)
    BY DEF ReportInv, ExportInv
  <2> QED BY <1>1, <1>2, <1>6, <1>8, <2>1 DEF SenderFits
<1>12. OneWriter'
  BY <1>1, <1>9 DEF ReportInv, ExportInv, OneWriter
<1>13. RowsHaveFiles'
  BY <1>1, <1>5, <1>8 DEF ReportInv, ExportInv, RowsHaveFiles
<1> QED BY <1>6, <1>7, <1>10, <1>11, <1>12, <1>13 DEF ReportInv, ExportInv

LEMMA OpenExportPreserves ==
  ASSUME ReportInv, NEW h \in Handlers, NEW u \in Users, NEW x \in Exports, OpenReportExport(h, u, x)
  PROVE  ReportInv'
<1> DEFINE r == [request[h] EXCEPT !.do = "download", !.at = "send", !.on = x]
           mine == [exporter[h] EXCEPT !.by = u, !.payload = exports[x].digest]
<1>1. /\ request' = [request EXCEPT ![h] = r] /\ exporter' = [exporter EXCEPT ![h] = mine]
      /\ exports[x].status = "succeeded" /\ UNCHANGED <<opened, reviews, exports, files>>
  BY DEF OpenReportExport
<1>2. request[h] \in Requests /\ request \in [Handlers -> Requests]
  BY DEF ReportInv, SummaryInv
<1>3. /\ r \in Requests /\ r.counted = request[h].counted /\ r.before = request[h].before
      /\ r.at = "send" /\ r.on = x
  BY <1>2 DEF Requests
<1>4. /\ mine \in [id : Exports \cup {None}, by : Users \cup {None}, payload : Payloads \cup {None}]
      /\ mine.payload = exports[x].digest
  <2>1. exporter[h] \in [id : Exports \cup {None}, by : Users \cup {None}, payload : Payloads \cup {None}]
    BY DEF ReportInv, ExportInv, ExportTypes
  <2>2. exports[x].digest \in Payloads \cup {None}
    BY DEF ReportInv, ExportInv, ExportTypes
  <2> QED BY <2>1, <2>2
<1> HIDE DEF r, mine
<1>5. SummaryInv'
  BY <1>1, <1>3, LeavesFigures DEF ReportInv
<1>6. request'[h] = r /\ \A k \in Handlers \ {h} : request'[k] = request[k]
  BY <1>1, <1>2
<1>7. ExportTypes'
  BY <1>1, <1>4 DEF ReportInv, ExportInv, ExportTypes
<1>8. exporter'[h] = mine /\ \A k \in Handlers \ {h} : exporter'[k] = exporter[k]
  BY <1>1 DEF ReportInv, ExportInv, ExportTypes
<1>9. \A k \in Handlers : Writing(k)' => k # h /\ Writing(k)
  BY <1>3, <1>6 DEF Writing
<1>10. \A k \in Handlers : WriterFits(k)'
  BY <1>1, <1>3, <1>6, <1>8, <1>9 DEF ReportInv, ExportInv, WriterFits, Writing
<1>11. \A k \in Handlers : SenderFits(k)'
  BY <1>1, <1>3, <1>4, <1>6, <1>8 DEF ReportInv, ExportInv, SenderFits
<1>12. OneWriter'
  BY <1>8, <1>9 DEF ReportInv, ExportInv, OneWriter
<1>13. RowsHaveFiles'
  BY <1>1 DEF ReportInv, ExportInv, RowsHaveFiles
<1> QED BY <1>5, <1>7, <1>10, <1>11, <1>12, <1>13 DEF ReportInv, ExportInv

LEMMA EndPreserves ==
  ASSUME ReportInv, NEW h \in Handlers, Answer(h) \/ End(h)
  PROVE  ReportInv'
<1>1. request' = [request EXCEPT ![h] = NoRequest] /\ UNCHANGED <<opened, reviews, exports, files>>
  BY DEF Answer, End, exportVars
<1>2. exporter' = exporter \/ exporter' = [exporter EXCEPT ![h] = NotExporting]
  BY DEF Answer, End, exportVars
<1>3. exporter' \in [Handlers -> [id : Exports \cup {None}, by : Users \cup {None}, payload : Payloads \cup {None}]]
      /\ \A k \in Handlers \ {h} : exporter'[k] = exporter[k]
  BY <1>2 DEF ReportInv, ExportInv, ExportTypes, NotExporting
<1>4. SummaryInv'
  BY <1>1, NoRequestFits, OneMoves DEF ReportInv
<1>5. request'[h].at = "idle" /\ \A k \in Handlers \ {h} : request'[k] = request[k]
  BY <1>1 DEF ReportInv, SummaryInv, NoRequest
<1>6. ExportInv'
  BY <1>1, <1>3, <1>5, Bystander DEF ReportInv
<1> QED BY <1>4, <1>6 DEF ReportInv

LEMMA ReportInit == Init => ReportInv
<1> SUFFICES ASSUME Init PROVE ReportInv
  OBVIOUS
<1>1. opened \subseteq Submissions /\ reviews = [s \in Submissions |-> NoReview] /\ request = [h \in Handlers |-> NoRequest]
  BY DEF Init, SummaryInit
<1>2. SummaryInv
  <2>1. reviews \in ReviewTables
    BY <1>1 DEF ReviewTables
  <2> QED BY <1>1, <2>1, NoRequestFits DEF SummaryInv
<1>3. ExportTypes
  BY DEF Init, ExportTypes, NoExport, NotExporting
<1>4. \A h \in Handlers : request[h].at = "idle"
  BY <1>1 DEF NoRequest
<1>5. \A x \in Exports : exports[x].status = None
  BY DEF Init, NoExport
<1>6. ExportInv
  BY <1>3, <1>4, <1>5 DEF ExportInv, WriterFits, SenderFits, OneWriter, RowsHaveFiles, Writing
<1> QED BY <1>2, <1>6 DEF ReportInv

LEMMA ReportStep == ReportInv /\ [Next]_vars => ReportInv'
<1> SUFFICES ASSUME ReportInv, [Next]_vars PROVE ReportInv'
  OBVIOUS
<1>1. CASE Others /\ UNCHANGED exportVars
  <2>1. SummaryInv' /\ request' = request
    BY <1>1, OthersPreserve DEF ReportInv, Others, OpenSubmission, PublishTeacherReview, UpsertTeacherReview
  <2>2. ExportInv'
    BY <1>1, <2>1 DEF ReportInv, ExportInv, exportVars, ExportTypes, WriterFits, SenderFits, OneWriter, RowsHaveFiles, Writing
  <2> QED BY <2>1, <2>2 DEF ReportInv
<1>2. ASSUME NEW h \in Builders, BuildReport(h), UNCHANGED exportVars
      PROVE  ReportInv'
  <2>1. h \in Handlers /\ UNCHANGED <<exports, files, exporter>>
    BY <1>2 DEF exportVars
  <2>2. SummaryInv'
    BY <1>2, <2>1, BuildPreserves DEF ReportInv
  <2>3. request'[h].at \in {"list", "read", "built"} /\ \A k \in Handlers \ {h} : request'[k] = request[k]
    BY <1>2, <2>1, BuildMoves DEF ReportInv
  <2>4. exporter \in [Handlers -> [id : Exports \cup {None}, by : Users \cup {None}, payload : Payloads \cup {None}]]
    BY DEF ReportInv, ExportInv, ExportTypes
  <2>5. ExportInv'
    BY <2>1, <2>3, <2>4, Bystander DEF ReportInv
  <2> QED BY <2>2, <2>5 DEF ReportInv
<1>3. ASSUME NEW h \in Handlers, ExportStep(h)
      PROVE  ReportInv'
  BY <1>3, CreatePreserves, FilePreserves, CompletePreserves, OpenExportPreserves, EndPreserves DEF ExportStep
<1>4. CASE UNCHANGED vars
  BY <1>4 DEF vars, summaryVars, exportVars, ReportInv, SummaryInv, ExportInv, ExportTypes, WriterFits, SenderFits,
              OneWriter, RowsHaveFiles, Writing
<1> QED BY <1>1, <1>2, <1>3, <1>4 DEF Next

(* What a request has counted, what it has left, and what an export is      *)
(* worth: report_service.go, whatever is saved and published meanwhile.     *)
THEOREM ReportInvariance == Spec => []ReportInv
<1>1. Init => ReportInv
  BY ReportInit
<1>2. ReportInv /\ [Next]_vars => ReportInv'
  BY ReportStep
<1> QED BY <1>1, <1>2, PTL DEF Spec

(* A file that is sent is whole, and the one its digest stands for, however *)
(* writers and senders of any number of exports are cut off.                *)
THEOREM DownloadsAreWhole == Spec => []DownloadIsWhole
<1>1. ReportInv => DownloadIsWhole
  BY PayloadNotNone DEF ReportInv, ExportInv, SenderFits, RowsHaveFiles, DownloadIsWhole
<1> QED BY <1>1, ReportInvariance, PTL

(* A summary counts what was published when an experiment was listed, no    *)
(* draft and nothing twice, for any number of submissions, experiments and  *)
(* requests, and any reviews saved and published between two reads.         *)
THEOREM SummariesCountPublished == Spec => []CountsPublished
<1>1. ASSUME ReportInv, NEW h \in Handlers, Built(h)
      PROVE  LET S == request[h].counted
                 x == Summary(h)
             IN  /\ request[h].before \subseteq S
                 /\ S \subseteq Published
                 /\ x.published = Cardinality(S)
                 /\ x.sum = SumFunction([s \in S |-> reviews[s].content.total])
                 /\ \A b \in Buckets : x.buckets[b] = Cardinality({s \in S : ScoreBucket(reviews[s].content.total) = b})
                 /\ S # {} => x.max = Max({reviews[s].content.total : s \in S})
  <2> DEFINE S == request[h].counted
             x == Summary(h)
             c == Contents(reviews, S)
  <2>1. /\ reviews \in ReviewTables /\ S \in SUBSET InPublic(reviews) /\ request[h].before \subseteq S
        /\ Counts(x, c)
    BY <1>1 DEF ReportInv, SummaryInv, RequestOnCourse, Finished, Built, Shows, Summary
  <2>2. IsFiniteSet(S) /\ c \in [S -> Reviews] /\ DOMAIN c = S
    BY <2>1, ContentsTyped
  <2>3. S \subseteq Published
    BY <2>1 DEF InPublic, Published
  <2>4. \A s \in S : c[s] = reviews[s].content
    BY DEF Contents
  <2>5. Totals(c) = [s \in S |-> reviews[s].content.total]
    BY <2>2, <2>4 DEF Totals
  <2>6. \A b : Bucket(c, b) = {s \in S : ScoreBucket(reviews[s].content.total) = b}
    BY <2>2, <2>4 DEF Bucket
  <2>7. S # {} => x.max = Max({reviews[s].content.total : s \in S})
    <3>1. SUFFICES ASSUME S # {} PROVE x.max = Max({reviews[s].content.total : s \in S})
      OBVIOUS
    <3> DEFINE M == {reviews[s].content.total : s \in S}
    <3>2. \A n \in M : n \in Int /\ n <= x.max
      BY <2>1, <2>2, <2>4, ReviewTyped DEF Counts, Highest
    <3>3. x.max \in M
      BY <2>1, <2>2, <2>4, <3>1 DEF Counts, Highest
    <3> HIDE DEF M, x
    <3>4. \A n \in M : (\A k \in M : n >= k) => n = x.max
      BY <3>2, <3>3
    <3>5. \A k \in M : x.max >= k
      BY <3>2, <3>3
    <3>6. Max(M) = x.max
      BY <3>3, <3>4, <3>5 DEF Max
    <3> QED BY <3>6 DEF M
  <2> HIDE DEF S, x, c
  <2>8. x.published = Cardinality(S) /\ x.sum = SumFunction(Totals(c)) /\ \A b \in Buckets : x.buckets[b] = Cardinality(Bucket(c, b))
    BY <2>1, <2>2 DEF Counts
  <2> QED BY <2>1, <2>3, <2>5, <2>6, <2>7, <2>8 DEF S, x
<1>2. ReportInv => CountsPublished
  BY <1>1 DEF CountsPublished
<1> QED BY <1>2, ReportInvariance, PTL

(* The averages shown are the means to the nearest, those of the metrics of *)
(* a course to less than one, however many experiments are merged.          *)
THEOREM AveragesAreClose == Spec => []AveragesClose
<1>1. ASSUME ReportInv, NEW h \in Handlers, Built(h)
      PROVE  LET S == request[h].counted
                 x == Summary(h)
                 halves == IF request[h].do = "course" THEN 2 ELSE 1
             IN  /\ Within(x.average, x.published, SumFunction([s \in S |-> reviews[s].content.total]), 1)
                 /\ \A m \in Metrics :
                      /\ x.metrics[m].count = Cardinality(S)
                      /\ Within(x.metrics[m].score, Cardinality(S),
                                SumFunction([s \in S |-> reviews[s].content.scores[m].final]), halves)
  <2> DEFINE S == request[h].counted
             x == Summary(h)
             c == Contents(reviews, S)
             halves == IF request[h].do = "course" THEN 2 ELSE 1
  <2>1. reviews \in ReviewTables /\ S \in SUBSET InPublic(reviews) /\ Shows(x, c, halves)
    BY <1>1 DEF ReportInv, SummaryInv, RequestOnCourse, Finished, Built, Summary
  <2>2. DOMAIN c = S /\ \A s \in S : c[s] = reviews[s].content
    BY DEF Contents
  <2>3. Totals(c) = [s \in S |-> reviews[s].content.total]
    BY <2>2 DEF Totals
  <2>4. \A m \in Metrics : Finals(c, m) = [s \in S |-> reviews[s].content.scores[m].final]
    BY <2>2 DEF Finals
  <2> HIDE DEF S, x, c, halves
  <2>5. Within(x.average, x.published, SumFunction(Totals(c)), 1)
    BY <2>1 DEF Shows, Counts
  <2>6. \A m \in Metrics : /\ x.metrics[m].count = Cardinality(S)
                           /\ Within(x.metrics[m].score, Cardinality(S), SumFunction(Finals(c, m)), halves)
    BY <2>1, <2>2 DEF Shows, Counts
  <2> QED BY <2>3, <2>4, <2>5, <2>6 DEF S, x, halves
<1>2. ReportInv => AveragesClose
  BY <1>1 DEF AveragesClose
<1> QED BY <1>2, ReportInvariance, PTL

-----------------------------------------------------------------------------
(* 5. The scores of a review *)

HIDE SummaryAssumption
USE ScoreAssumption

(* The points of one metric: f of max at weight w, with t for full marks.   *)
GoodPoints(f, w, t, max, points, q) ==
  /\ q \in Nat
  /\ q * max <= points /\ points < (q + 1) * max
  /\ q <= t * w
  /\ q = t * w <=> w = 0 \/ f = max

LEMMA PointsOfMetric ==
  ASSUME NEW f \in Nat, NEW w \in Nat, NEW t \in Nat \ {0}, NEW max \in Nat \ {0}, f <= max,
         NEW points, points = f * w * t, NEW q, q = points \div max
  PROVE  GoodPoints(f, w, t, max, points, q)
<1> DEFINE full == t * w
<1>1. full \in Nat /\ points = f * full /\ (full = 0 <=> w = 0)
  <2>1. f * w * t = f * (w * t)
    BY TimesFacts
  <2> QED BY <2>1, TimesFacts
<1>2. f * full \in Nat
  BY <1>1, TimesFacts
<1>3. q \in Nat /\ q * max <= f * full /\ f * full < q * max + max
  BY <1>1, <1>2, DivFacts, DivNat
<1> HIDE DEF full
<1>4. q * max \in Nat /\ (q + 1) * max = q * max + max
  BY <1>3, TimesFacts
<1>5. f * full <= max * full /\ max * full = full * max
  BY <1>1, LessTimes, TimesFacts
<1>6. q <= full
  <2>1. q * max <= full * max
    BY <1>1, <1>2, <1>3, <1>4, <1>5, TimesFacts
  <2> QED BY <2>1, <1>1, <1>3, LessTimes
<1>7. q = full => full = 0 \/ f = max
  <2> SUFFICES ASSUME q = full, full # 0, f # max PROVE FALSE
    OBVIOUS
  <2>1. f * full < max * full
    BY <1>1, LessTimes
  <2> QED BY <2>1, <1>1, <1>2, <1>3, <1>4, <1>5
<1>8. full = 0 => q = full
  BY <1>3, <1>6, <1>1
<1>9. f = max => q = full
  <2> SUFFICES ASSUME f = max PROVE q = full
    OBVIOUS
  <2>1. full * max < (q + 1) * max
    BY <1>3, <1>4, <1>5
  <2>2. full < q + 1
    BY <2>1, <1>1, <1>3, LessTimes
  <2> QED BY <2>2, <1>1, <1>3, <1>6
<1>10. q * max <= points /\ points < (q + 1) * max
  BY <1>1, <1>3, <1>4
<1>11. q = t * w <=> w = 0 \/ f = max
  BY <1>1, <1>7, <1>8, <1>9 DEF full
<1>12. q <= t * w
  BY <1>6 DEF full
<1> QED BY <1>3, <1>10, <1>11, <1>12 DEF GoodPoints

(* A total of n points over weights that sum to w, shown as s.             *)
GoodTotal(n, t, w, s) ==
  /\ s \in 0..t
  /\ s = t <=> n = t * w
  /\ s * w <= n /\ n < (s + 1) * w

LEMMA TotalOfPoints ==
  ASSUME NEW n \in Nat, NEW t \in Nat, NEW w \in Nat \ {0}, n <= t * w, NEW s, s = n \div w
  PROVE  GoodTotal(n, t, w, s)
<1>1. s \in Nat /\ s * w <= n /\ n < s * w + w
  BY DivFacts, DivNat
<1>2. s * w \in Nat /\ t * w \in Nat /\ (s + 1) * w = s * w + w
  BY <1>1, TimesFacts
<1>3. s <= t
  <2>1. s * w <= t * w
    BY <1>1, <1>2
  <2> QED BY <2>1, <1>1, LessTimes
<1>4. n = t * w => s = t
  <2> SUFFICES ASSUME n = t * w PROVE s = t
    OBVIOUS
  <2>1. t * w < (s + 1) * w
    BY <1>1, <1>2
  <2>2. t < s + 1
    BY <2>1, <1>1, LessTimes
  <2> QED BY <2>2, <1>1, <1>3
<1>5. s = t => n = t * w
  BY <1>1, <1>2
<1> QED BY <1>1, <1>2, <1>3, <1>4, <1>5 DEF GoodTotal

(* Sum and product of ReviewScores, which folds functions. *)
LEMMA ScoreFolds ==
  /\ \A f : SumFunction(f) = SumFunctionOnSet(f, DOMAIN f)
  /\ \A f : ProductOf(f) = FoldOn("product", f, DOMAIN f)
<1>1. \A f : SumFunction(f) = SumFunctionOnSet(f, DOMAIN f)
  BY DEF SumFunction
<1>2. \A a, b : Join("product", a, b) = a * b /\ Unit("product") = 1
  BY DEF Join, Unit
<1>3. \A f : ProductOf(f) = FoldOn("product", f, DOMAIN f)
  BY <1>2 DEF ProductOf, FoldFunction, FoldFunctionOnSet, MapThenFoldSet, FoldOn, Folds, Pick, Join, Unit
<1> QED BY <1>1, <1>3

(* Positions scored so far. *)
Scored == 1..next - 1

MaxOf == [m \in Metrics |-> rubric[m].max]

ProductWithout(m) == FoldOn("product", MaxOf, Metrics \ {m})

(* What a metric adds to the mean, over the product of the maxima.          *)
Share == [m \in Metrics |-> Final(m) * rubric[m].weight * WeightTotalBPS * ProductWithout(m)]

ScoringTyped ==
  /\ rubric \in [Metrics -> [max : Nat \ {0}, weight : Nat]]
  /\ inputs \in Seq(Inputs)
  /\ next \in Nat \ {0} /\ next <= Len(inputs) + 1
  /\ seen \subseteq Metrics
  /\ numerator \in Nat /\ weight \in Nat

(* The metrics seen are those of the positions scored, one each.            *)
SeenScored ==
  /\ \A i \in Scored : inputs[i].metric \in seen /\ inputs[i].final \in 0..rubric[inputs[i].metric].max
  /\ \A m \in seen : \E i \in Scored : inputs[i].metric = m
  /\ \A i, j \in Scored : inputs[i].metric = inputs[j].metric => i = j
  /\ Cardinality(seen) = next - 1

(* No metric gives more points than its weight, and all give as many only   *)
(* with full marks.                                                         *)
PointsWithinWeight ==
  /\ numerator <= WeightTotalBPS * weight
  /\ numerator = WeightTotalBPS * weight <=>
       \A i \in Scored : rubric[inputs[i].metric].weight > 0 => inputs[i].final = rubric[inputs[i].metric].max

(* Each division loses less than the weight of its metric, as a weight that *)
(* is not zero is at least one.  (Were a metric named twice, Final would be *)
(* about one of its scores only; such a request is not accepted.)           *)
PointsCloseToShares ==
  (\A i, j \in DOMAIN inputs : inputs[i].metric = inputs[j].metric => i = j) =>
    LET all == FoldOn("product", MaxOf, Metrics)
        sum == SumFunctionOnSet(Share, seen)
    IN  /\ numerator * all <= sum /\ sum <= (numerator + weight) * all
        /\ weight > 0 => sum < (numerator + weight) * all

AcceptedWhenDone ==
  outcome = "accepted" => next = Len(inputs) + 1 /\ Len(inputs) = Cardinality(Metrics) /\ weight > 0

ScoringInv == ScoringTyped /\ SeenScored /\ PointsWithinWeight /\ PointsCloseToShares /\ AcceptedWhenDone

LEMMA SharesStay ==
  UNCHANGED <<rubric, inputs>> =>
    /\ MaxOf' = MaxOf /\ Share' = Share
    /\ FoldOn("product", MaxOf, Metrics)' = FoldOn("product", MaxOf, Metrics)
<1> SUFFICES ASSUME UNCHANGED <<rubric, inputs>>
             PROVE  /\ MaxOf' = MaxOf /\ Share' = Share
                    /\ FoldOn("product", MaxOf, Metrics)' = FoldOn("product", MaxOf, Metrics)
  OBVIOUS
<1>1. MaxOf' = MaxOf
  BY DEF MaxOf
<1>2. Share' = Share
  BY <1>1 DEF Share, ProductWithout, Final
<1> QED BY <1>1, <1>2

LEMMA SharesTyped ==
  ASSUME ScoringTyped, SeenScored,
         \A i, j \in DOMAIN inputs : inputs[i].metric = inputs[j].metric => i = j
  PROVE  /\ FoldOn("product", MaxOf, Metrics) \in Nat \ {0} /\ \A m \in Metrics : ProductWithout(m) \in Nat \ {0}
         /\ \A m \in seen : Share[m] \in Nat
         /\ SumFunctionOnSet(Share, seen) \in Int
<1>1. /\ rubric \in [Metrics -> [max : Nat \ {0}, weight : Nat]] /\ seen \subseteq Metrics
      /\ WeightTotalBPS \in Nat /\ IsFiniteSet(Metrics)
  BY DEF ScoringTyped
<1>2. \A m \in Metrics : MaxOf[m] \in Nat \ {0}
  BY <1>1 DEF MaxOf
<1>3. FoldOn("product", MaxOf, Metrics) \in Nat \ {0}
  BY <1>1, <1>2, ProductPositive
<1>4. \A m \in Metrics : ProductWithout(m) \in Nat \ {0}
  <2>1. \A m : IsFiniteSet(Metrics \ {m})
    BY <1>1, FS_Subset
  <2> QED BY <1>2, <2>1, ProductPositive DEF ProductWithout
<1>5. ASSUME NEW m \in seen PROVE Share[m] \in Nat
  <2>1. PICK i \in Scored : inputs[i].metric = m /\ inputs[i].final \in 0..rubric[m].max
    BY DEF SeenScored
  <2>2. i \in DOMAIN inputs
    <3>1. inputs \in Seq(Inputs) /\ next \in Nat /\ next <= Len(inputs) + 1
      BY DEF ScoringTyped
    <3>2. DOMAIN inputs = 1..Len(inputs) /\ Len(inputs) \in Nat
      BY <3>1
    <3> QED BY <3>1, <3>2 DEF Scored
  <2>3. Final(m) = inputs[i].final
    BY <2>1, <2>2 DEF Final
  <2>4. Final(m) \in Nat /\ rubric[m].weight \in Nat /\ ProductWithout(m) \in Nat
    BY <1>1, <1>4, <2>1, <2>3
  <2>5. Share[m] = Final(m) * rubric[m].weight * WeightTotalBPS * ProductWithout(m)
    BY <1>1 DEF Share
  <2>6. \A a, b, c, d \in Nat : a * b * c * d \in Nat
    BY TimesFacts
  <2> QED BY <1>1, <2>4, <2>5, <2>6
<1>6. SumFunctionOnSet(Share, seen) \in Int
  <2>1. IsFiniteSet(seen) /\ \A m \in seen : Share[m] \in Int
    BY <1>1, <1>5, FS_Subset
  <2> QED BY <2>1, SumTyped
<1> QED BY <1>3, <1>4, <1>5, <1>6

LEMMA ScoringInit == ScoreInit => ScoringInv
<1> SUFFICES ASSUME ScoreInit PROVE ScoringInv
  OBVIOUS
<1>1. rubric \in [Metrics -> [max : Nat \ {0}, weight : Nat]]
  BY DEF ScoreInit, Rubrics
<1>2. PICK n \in 0..MaxInputs : inputs \in [1..n -> Inputs]
  BY DEF ScoreInit
<1>3. inputs \in Seq(Inputs)
  <2>1. n \in Nat
    BY <1>2
  <2> QED BY <1>2, <2>1
<1>4. next = 1 /\ seen = {} /\ numerator = 0 /\ weight = 0 /\ outcome = "scoring" /\ Scored = {}
  BY DEF ScoreInit, Scored
<1>5. ScoringTyped
  <2>1. Len(inputs) \in Nat
    BY <1>3
  <2> QED BY <1>1, <1>3, <1>4, <2>1 DEF ScoringTyped
<1>6. SeenScored
  BY <1>4, FS_EmptySet DEF SeenScored
<1>7. PointsWithinWeight
  <2>1. WeightTotalBPS * 0 = 0
    OBVIOUS
  <2> QED BY <1>4, <2>1 DEF PointsWithinWeight
<1>8. PointsCloseToShares
  <2>1. \A x \in Metrics : MaxOf[x] \in Nat \ {0}
    BY <1>1 DEF MaxOf
  <2>2. FoldOn("product", MaxOf, Metrics) \in Nat \ {0}
    BY <2>1, ProductPositive
  <2>3. SumFunctionOnSet(Share, seen) = 0
    BY <1>4, SumEmpty
  <2> QED BY <1>4, <2>2, <2>3 DEF PointsCloseToShares
<1>9. AcceptedWhenDone
  BY <1>4 DEF AcceptedWhenDone
<1> QED BY <1>5, <1>6, <1>7, <1>8, <1>9 DEF ScoringInv

(* One more metric: the share of what is added is met within its weight.    *)
LEMMA OneMoreShare ==
  ASSUME NEW n \in Nat, NEW q \in Nat, NEW v \in Nat, NEW w \in Nat, NEW sum \in Nat, NEW share \in Nat,
         NEW all \in Nat, NEW max \in Nat \ {0}, NEW rest \in Nat \ {0}, NEW points \in Nat,
         all = max * rest, share = points * rest,
         q * max <= points, points < (q + 1) * max, w = 0 => points = 0,
         n * all <= sum, sum <= (n + v) * all, v > 0 => sum < (n + v) * all
  PROVE  /\ (n + q) * all <= share + sum /\ share + sum <= ((n + q) + (v + w)) * all
         /\ v + w > 0 => share + sum < ((n + q) + (v + w)) * all
<1>1. /\ q * all = (q * max) * rest /\ (q + 1) * all = ((q + 1) * max) * rest
      /\ (n + q) * all = n * all + q * all
      /\ ((n + q) + (v + w)) * all = (n + v) * all + (q + w) * all
  <2>1. (n + q) + (v + w) = (n + v) + (q + w)
    OBVIOUS
  <2> QED BY <2>1, TimesFacts
<1>2. n * all \in Nat /\ (n + v) * all \in Nat /\ q * all \in Nat /\ (q + 1) * all \in Nat /\ (q + w) * all \in Nat
  BY TimesFacts
<1>3. q * all <= share /\ share < (q + 1) * all
  <2>1. q * max \in Nat /\ (q + 1) * max \in Nat
    BY TimesFacts
  <2> QED BY <1>1, <2>1, LessTimes
<1>4. w > 0 => share < (q + w) * all
  <2>1. w > 0 => (q + 1) * all <= (q + w) * all
    BY LessTimes
  <2> QED BY <2>1, <1>2, <1>3
<1>5. w = 0 => share <= (q + w) * all
  <2>1. w = 0 => share = 0
    BY TimesFacts
  <2> QED BY <2>1, <1>2
<1> QED BY <1>1, <1>2, <1>3, <1>4, <1>5

(* A score that fits is added. *)
LEMMA ScorePreserves ==
  ASSUME ScoringInv, FitsRubric(next), next <= Len(inputs), outcome = "scoring",
         seen' = seen \cup {inputs[next].metric},
         numerator' = numerator + Weighted(next),
         weight' = weight + rubric[inputs[next].metric].weight,
         next' = next + 1, UNCHANGED <<outcome, rubric, inputs>>
  PROVE  ScoringInv'
<1> DEFINE m == inputs[next].metric
           f == inputs[next].final
           w == rubric[m].weight
           max == rubric[m].max
           q == Weighted(next)
           points == f * w * WeightTotalBPS
           Full(i) == rubric[inputs[i].metric].weight > 0 => inputs[i].final = rubric[inputs[i].metric].max
<1>1. ScoringTyped /\ SeenScored /\ PointsWithinWeight /\ PointsCloseToShares
  BY DEF ScoringInv
<1>2. /\ rubric \in [Metrics -> [max : Nat \ {0}, weight : Nat]]
      /\ next \in Nat \ {0} /\ Len(inputs) \in Nat /\ DOMAIN inputs = 1..Len(inputs) /\ next \in DOMAIN inputs
      /\ seen \subseteq Metrics /\ numerator \in Nat /\ weight \in Nat
      /\ Scored = 1..next - 1 /\ Scored' = Scored \cup {next} /\ next \notin Scored /\ Scored \subseteq DOMAIN inputs
  <2>1. inputs \in Seq(Inputs)
    BY <1>1 DEF ScoringTyped
  <2>2. Len(inputs) \in Nat /\ DOMAIN inputs = 1..Len(inputs)
    BY <2>1
  <2> QED BY <1>1, <2>2 DEF ScoringTyped, Scored
<1>3. m \in Metrics /\ m \notin seen /\ f \in 0..max
  BY DEF FitsRubric
<1>4. max \in Nat \ {0} /\ w \in Nat /\ f \in Nat /\ f <= max /\ WeightTotalBPS \in Nat \ {0}
  BY <1>2, <1>3
<1>5. q = points \div max
  BY DEF Weighted
<1>8. seen' = seen \cup {m} /\ numerator' = numerator + q /\ weight' = weight + w
  OBVIOUS
<1> HIDE DEF q
<1>6. /\ q \in Nat /\ q * max <= points /\ points < (q + 1) * max
      /\ q <= WeightTotalBPS * w
      /\ q = WeightTotalBPS * w <=> w = 0 \/ f = max
  <2>1. points = f * w * WeightTotalBPS
    OBVIOUS
  <2> HIDE DEF f, w, max, points
  <2>2. GoodPoints(f, w, WeightTotalBPS, max, points, q)
    BY <2>1, <1>4, <1>5, PointsOfMetric
  <2> QED BY <2>2 DEF GoodPoints
<1>7. points \in Nat /\ (w = 0 => points = 0)
  <2> HIDE DEF f, w
  <2> QED BY <1>4, TimesFacts
<1> HIDE DEF points
<1>9. ScoringTyped'
  <2>1. next' <= Len(inputs) + 1 /\ next' \in Nat \ {0}
    BY <1>2
  <2>2. q \in Nat
    BY <1>6
  <2>3. numerator' \in Nat /\ weight' \in Nat /\ seen' \subseteq Metrics
    <3> HIDE DEF m, w
    <3> QED BY <2>2, <1>2, <1>3, <1>4, <1>8
  <2> QED BY <1>1, <2>1, <2>3 DEF ScoringTyped
<1>10. SeenScored'
  <2>1. \A i \in Scored : inputs[i].metric \in seen /\ inputs[i].final \in 0..rubric[inputs[i].metric].max
    BY <1>1 DEF SeenScored
  <2>2. \A i \in Scored' : inputs[i].metric \in seen' /\ inputs[i].final \in 0..rubric[inputs[i].metric].max
    BY <2>1, <1>2, <1>3, <1>8
  <2>3. \A k \in seen' : \E i \in Scored' : inputs[i].metric = k
    BY <1>1, <1>2, <1>8 DEF SeenScored
  <2>4. \A i, j \in Scored' : inputs[i].metric = inputs[j].metric => i = j
    <3>1. \A i, j \in Scored : inputs[i].metric = inputs[j].metric => i = j
      BY <1>1 DEF SeenScored
    <3> QED BY <2>1, <3>1, <1>2, <1>3
  <2>5. Cardinality(seen') = next' - 1
    <3>1. IsFiniteSet(seen)
      BY <1>2, FS_Subset
    <3>2. Cardinality(seen \cup {m}) = Cardinality(seen) + 1
      BY <3>1, <1>3, FS_AddElement
    <3> QED BY <3>2, <1>1, <1>2, <1>8 DEF SeenScored
  <2> QED BY <2>2, <2>3, <2>4, <2>5 DEF SeenScored
<1>11. PointsWithinWeight'
  <2>1. numerator <= WeightTotalBPS * weight /\ (numerator = WeightTotalBPS * weight <=> \A i \in Scored : Full(i))
    BY <1>1 DEF PointsWithinWeight
  <2>2. WeightTotalBPS * (weight + w) = WeightTotalBPS * weight + WeightTotalBPS * w
    BY <1>2, <1>4, TimesFacts
  <2>3. WeightTotalBPS * weight \in Nat /\ WeightTotalBPS * w \in Nat
    BY <1>2, <1>4, TimesFacts
  <2>4. numerator + q <= WeightTotalBPS * (weight + w)
    <3> HIDE DEF w
    <3> QED BY <1>2, <1>4, <1>6, <2>1, <2>2, <2>3
  <2>5. numerator + q = WeightTotalBPS * (weight + w) <=> numerator = WeightTotalBPS * weight /\ q = WeightTotalBPS * w
    <3> HIDE DEF w
    <3> QED BY <1>2, <1>4, <1>6, <2>1, <2>2, <2>3
  <2>6. q = WeightTotalBPS * w <=> Full(next)
    BY <1>4, <1>6
  <2>7. (\A i \in Scored' : Full(i)) <=> (\A i \in Scored : Full(i)) /\ Full(next)
    BY <1>2
  <2>8. numerator + q = WeightTotalBPS * (weight + w) <=> \A i \in Scored' : Full(i)
    BY <2>1, <2>5, <2>6, <2>7
  <2> QED BY <1>8, <2>4, <2>8 DEF PointsWithinWeight
<1>12. PointsCloseToShares'
  <2> DEFINE all == FoldOn("product", MaxOf, Metrics)
             rest == ProductWithout(m)
             sum == SumFunctionOnSet(Share, seen)
             Apart == \A i, j \in DOMAIN inputs : inputs[i].metric = inputs[j].metric => i = j
  <2>1. SUFFICES ASSUME Apart
                 PROVE  LET sum2 == SumFunctionOnSet(Share, seen') IN
                        /\ numerator' * all <= sum2 /\ sum2 <= (numerator' + weight') * all
                        /\ weight' > 0 => sum2 < (numerator' + weight') * all
    <3>1. Share' = Share /\ FoldOn("product", MaxOf, Metrics)' = all
      BY SharesStay
    <3>2. Apart' <=> Apart
      OBVIOUS
    <3> QED BY <3>1, <3>2 DEF PointsCloseToShares
  <2>2. \A k \in Metrics : MaxOf[k] \in Nat \ {0}
    BY <1>2 DEF MaxOf
  <2>3. /\ all \in Nat \ {0} /\ \A k \in Metrics : ProductWithout(k) \in Nat \ {0}
        /\ \A k \in seen : Share[k] \in Nat
        /\ sum \in Int
    BY <1>1, <2>1, SharesTyped
  <2>4. all = max * rest
    <3>1. \A k \in Metrics : MaxOf[k] \in Int
      BY <2>2
    <3>2. all = Join("product", MaxOf[m], rest)
      <4>1. IsFiniteSet(Metrics)
        OBVIOUS
      <4>2. \A z \in Metrics : all = Join("product", MaxOf[z], FoldOn("product", MaxOf, Metrics \ {z}))
        BY <3>1, <4>1, FoldRemove
      <4> QED BY <4>2, <1>3 DEF ProductWithout
    <3> QED BY <3>2, <1>3 DEF Join, MaxOf
  <2>5. Final(m) = f
    BY <1>2, <2>1 DEF Final
  <2>6. Share[m] = points * rest
    BY <2>5, <1>3 DEF Share, points
  <2>7. Share[m] \in Nat
    <3>1. rest \in Nat
      BY <1>3, <2>3
    <3> HIDE DEF rest
    <3> QED BY <2>6, <3>1, <1>7, TimesFacts
  <2>8. SumFunctionOnSet(Share, seen') = Share[m] + sum
    <3>1. IsFiniteSet(seen')
      BY <1>9, FS_Subset DEF ScoringTyped
    <3>2. \A k \in seen' : Share[k] \in Int
      BY <2>3, <2>7, <1>8
    <3>3. seen' \ {m} = seen /\ m \in seen'
      BY <1>3, <1>8
    <3> QED BY <3>1, <3>2, <3>3, SumRemove
  <2>10. numerator * all <= sum /\ sum <= (numerator + weight) * all /\ (weight > 0 => sum < (numerator + weight) * all)
    BY <1>1, <2>1 DEF PointsCloseToShares
  <2>11. rest \in Nat \ {0} /\ all \in Nat
    BY <2>3, <1>3
  <2>9. sum \in Int
    BY <2>3
  <2> HIDE DEF all, rest, sum, Apart
  <2>12. sum \in Nat
    <3>1. numerator * all \in Nat
      BY <2>11, <1>2, TimesFacts
    <3> QED BY <3>1, <2>9, <2>10
  <2>13. /\ (numerator + q) * all <= Share[m] + sum /\ Share[m] + sum <= ((numerator + q) + (weight + w)) * all
         /\ weight + w > 0 => Share[m] + sum < ((numerator + q) + (weight + w)) * all
    <3> HIDE DEF m, w, max, f
    <3> QED BY <2>4, <2>6, <2>7, <2>10, <2>11, <2>12, <1>2, <1>4, <1>6, <1>7, OneMoreShare
  <2> QED BY <2>8, <2>13, <1>8
<1>13. AcceptedWhenDone'
  BY DEF AcceptedWhenDone
<1> QED BY <1>9, <1>10, <1>11, <1>12, <1>13 DEF ScoringInv

LEMMA FinishPreserves == ScoringInv /\ Finish => ScoringInv'
<1> SUFFICES ASSUME ScoringInv, Finish PROVE ScoringInv'
  OBVIOUS
<1>1. UNCHANGED <<rubric, inputs, next, seen, numerator, weight>>
  BY DEF Finish
<1>2. ScoringTyped' /\ SeenScored' /\ PointsWithinWeight'
  BY <1>1 DEF ScoringInv, ScoringTyped, SeenScored, PointsWithinWeight, Scored
<1>3. PointsCloseToShares'
  BY <1>1, SharesStay DEF ScoringInv, PointsCloseToShares
<1>4. AcceptedWhenDone'
  <2> SUFFICES ASSUME outcome' = "accepted" PROVE next = Len(inputs) + 1 /\ Len(inputs) = Cardinality(Metrics) /\ weight > 0
    BY <1>1 DEF AcceptedWhenDone
  <2>1. Len(inputs) = Cardinality(Metrics) /\ weight > 0 /\ next > Len(inputs)
    BY DEF Finish
  <2>2. next <= Len(inputs) + 1 /\ next \in Nat /\ Len(inputs) \in Nat
    BY DEF ScoringInv, ScoringTyped
  <2> QED BY <2>1, <2>2, ScoreFolds
<1> QED BY <1>2, <1>3, <1>4 DEF ScoringInv

LEMMA ScoringStep == ScoringInv /\ [ScoreNext]_scoreVars => ScoringInv'
<1> SUFFICES ASSUME ScoringInv, [ScoreNext]_scoreVars PROVE ScoringInv'
  OBVIOUS
<1>1. CASE Score
  <2>1. CASE FitsRubric(next) /\ outcome' = outcome
    BY <1>1, <2>1, ScorePreserves DEF Score
  <2>2. CASE outcome' = "rejected" /\ UNCHANGED <<next, seen, numerator, weight, rubric, inputs>>
    <3>1. ScoringTyped' /\ SeenScored' /\ PointsWithinWeight'
      BY <2>2 DEF ScoringInv, ScoringTyped, SeenScored, PointsWithinWeight, Scored
    <3>2. PointsCloseToShares'
      BY <2>2, SharesStay DEF ScoringInv, PointsCloseToShares
    <3>3. AcceptedWhenDone'
      BY <2>2 DEF AcceptedWhenDone
    <3> QED BY <3>1, <3>2, <3>3 DEF ScoringInv
  <2> QED BY <1>1, <2>1, <2>2 DEF Score
<1>2. CASE Finish
  BY <1>2, FinishPreserves
<1>3. CASE UNCHANGED scoreVars
  <2>1. UNCHANGED <<rubric, inputs, next, seen, numerator, weight, outcome>>
    BY <1>3 DEF scoreVars
  <2>2. ScoringTyped' /\ SeenScored' /\ PointsWithinWeight' /\ AcceptedWhenDone'
    BY <2>1 DEF ScoringInv, ScoringTyped, SeenScored, PointsWithinWeight, Scored, AcceptedWhenDone
  <2>3. PointsCloseToShares'
    BY <2>1, SharesStay DEF ScoringInv, PointsCloseToShares
  <2> QED BY <2>2, <2>3 DEF ScoringInv
<1> QED BY <1>1, <1>2, <1>3 DEF ScoreNext

(* An accepted request has scored every metric once.                        *)
LEMMA AcceptedFacts ==
  ASSUME ScoringInv, outcome = "accepted"
  PROVE  /\ seen = Metrics /\ DOMAIN inputs = Scored
         /\ \A i, j \in DOMAIN inputs : inputs[i].metric = inputs[j].metric => i = j
         /\ \A i \in DOMAIN inputs : inputs[i].metric \in Metrics /\ Final(inputs[i].metric) = inputs[i].final
         /\ \A m \in Metrics : \E i \in DOMAIN inputs : inputs[i].metric = m
         /\ weight \in Nat \ {0} /\ numerator \in Nat
<1>1. ScoringTyped /\ SeenScored /\ next = Len(inputs) + 1 /\ Len(inputs) = Cardinality(Metrics) /\ weight > 0
  BY DEF ScoringInv, AcceptedWhenDone
<1>2. inputs \in Seq(Inputs) /\ seen \subseteq Metrics /\ weight \in Nat /\ numerator \in Nat
  BY <1>1 DEF ScoringTyped
<1>3. Len(inputs) \in Nat /\ DOMAIN inputs = 1..Len(inputs)
  BY <1>2
<1>4. DOMAIN inputs = Scored
  BY <1>1, <1>3 DEF Scored
<1>5. seen = Metrics
  <2>1. Cardinality(seen) = Cardinality(Metrics)
    BY <1>1, <1>3 DEF SeenScored
  <2> QED BY <2>1, <1>2, FS_Subset
<1>6. /\ \A i, j \in DOMAIN inputs : inputs[i].metric = inputs[j].metric => i = j
      /\ \A i \in DOMAIN inputs : inputs[i].metric \in Metrics
      /\ \A m \in Metrics : \E i \in DOMAIN inputs : inputs[i].metric = m
  BY <1>1, <1>4, <1>5 DEF SeenScored
<1>7. \A i \in DOMAIN inputs : Final(inputs[i].metric) = inputs[i].final
  BY <1>6 DEF Final
<1> QED BY <1>1, <1>2, <1>4, <1>5, <1>6, <1>7

(* The total that is stored with a review.                                  *)
LEMMA TotalStored ==
  ASSUME ScoringInv, outcome = "accepted"
  PROVE  GoodTotal(numerator, WeightTotalBPS, weight, TotalScoreBPS)
<1>1. weight \in Nat \ {0} /\ numerator \in Nat /\ WeightTotalBPS \in Nat
  BY AcceptedFacts
<1>2. numerator <= WeightTotalBPS * weight
  BY DEF ScoringInv, PointsWithinWeight
<1>3. TotalScoreBPS = numerator \div weight
  BY DEF TotalScoreBPS
<1> QED BY <1>1, <1>2, <1>3, TotalOfPoints

(* What is accepted, the points it gives, and their distance from the mean: *)
(* buildTeacherMetricScores, whatever the metrics and the scores.           *)
THEOREM ScoringInvariance == ScoreSpec => []ScoringInv
<1>1. ScoreInit => ScoringInv
  BY ScoringInit
<1>2. ScoringInv /\ [ScoreNext]_scoreVars => ScoringInv'
  BY ScoringStep
<1> QED BY <1>1, <1>2, PTL DEF ScoreSpec

(* An accepted review scores every metric of its rubric, its total is a     *)
(* share of 100 percent, and is all of it only with full marks wherever     *)
(* there is weight, for any number of metrics and any maxima and weights.   *)
THEOREM AcceptedReviewsAreComplete == ScoreSpec => []AcceptedIsComplete
<1>1. ScoringInv => AcceptedIsComplete
  <2> SUFFICES ASSUME ScoringInv, outcome = "accepted"
               PROVE  /\ {inputs[i].metric : i \in DOMAIN inputs} = Metrics
                      /\ TotalScoreBPS \in 0..WeightTotalBPS
                      /\ TotalScoreBPS = WeightTotalBPS <=>
                           \A m \in Metrics : rubric[m].weight > 0 => Final(m) = rubric[m].max
    BY DEF AcceptedIsComplete
  <2>1. {inputs[i].metric : i \in DOMAIN inputs} = Metrics
    BY AcceptedFacts
  <2>2. TotalScoreBPS \in 0..WeightTotalBPS
    BY TotalStored DEF GoodTotal
  <2>3. TotalScoreBPS = WeightTotalBPS <=> numerator = WeightTotalBPS * weight
    BY TotalStored DEF GoodTotal
  <2>4. numerator = WeightTotalBPS * weight <=>
          \A i \in DOMAIN inputs : rubric[inputs[i].metric].weight > 0 => inputs[i].final = rubric[inputs[i].metric].max
    BY AcceptedFacts DEF ScoringInv, PointsWithinWeight
  <2>5. (\A i \in DOMAIN inputs : rubric[inputs[i].metric].weight > 0 => inputs[i].final = rubric[inputs[i].metric].max)
          <=> \A m \in Metrics : rubric[m].weight > 0 => Final(m) = rubric[m].max
    BY AcceptedFacts
  <2> QED BY <2>1, <2>2, <2>3, <2>4, <2>5
<1> QED BY <1>1, ScoringInvariance, PTL

(* The divisions never raise the total and cost it less than two basis      *)
(* points, however many metrics are added up.                               *)
THEOREM TotalsAreCloseToMean == ScoreSpec => []TotalCloseToMean
<1>1. ScoringInv => TotalCloseToMean
  <2> SUFFICES ASSUME ScoringInv, outcome = "accepted"
               PROVE  TotalScoreBPS * Below <= Above /\ Above < (TotalScoreBPS + 2) * Below
    BY DEF TotalCloseToMean
  <2> DEFINE all == FoldOn("product", MaxOf, Metrics)
             total == TotalScoreBPS
             n == numerator
             v == weight
  <2>1. Below = all * v
    <3>1. DOMAIN MaxOf = Metrics
      BY DEF MaxOf
    <3> QED BY <3>1, ScoreFolds DEF Below, MaxOf
  <2>2. Above = SumFunctionOnSet(Share, Metrics)
    <3>1. ASSUME NEW m \in Metrics
          PROVE  ProductOf([k \in Metrics \ {m} |-> rubric[k].max]) = ProductWithout(m)
      <4> DEFINE others == [k \in Metrics \ {m} |-> rubric[k].max]
      <4>1. IsFiniteSet(Metrics \ {m}) /\ \A k \in Metrics \ {m} : others[k] \in Int /\ others[k] = MaxOf[k]
        <5>1. rubric \in [Metrics -> [max : Nat \ {0}, weight : Nat]]
          BY DEF ScoringInv, ScoringTyped
        <5> QED BY <5>1, FS_Subset DEF MaxOf
      <4>2. DOMAIN others = Metrics \ {m}
        OBVIOUS
      <4> HIDE DEF others
      <4>3. FoldOn("product", others, Metrics \ {m}) = FoldOn("product", MaxOf, Metrics \ {m})
        BY <4>1, FoldAgrees
      <4>4. ProductOf(others) = ProductWithout(m)
        BY <4>2, <4>3, ScoreFolds DEF ProductWithout
      <4> QED BY <4>4 DEF others
    <3> DEFINE above == [m \in Metrics |-> Final(m) * rubric[m].weight * WeightTotalBPS *
                                             ProductOf([k \in Metrics \ {m} |-> rubric[k].max])]
    <3>2. above = Share
      BY <3>1 DEF Share
    <3>3. Above = SumFunction(above)
      BY DEF Above
    <3>4. DOMAIN Share = Metrics
      BY DEF Share
    <3> HIDE DEF above
    <3> QED BY <3>2, <3>3, <3>4, ScoreFolds
  <2>3. n * all <= Above /\ Above < (n + v) * all
    BY <2>2, AcceptedFacts DEF ScoringInv, PointsCloseToShares
  <2>4. all \in Nat \ {0} /\ SumFunctionOnSet(Share, Metrics) \in Int
    <3>1. ScoringTyped /\ SeenScored
      BY DEF ScoringInv
    <3> QED BY <3>1, AcceptedFacts, SharesTyped
  <2>5. n \in Nat /\ v \in Nat \ {0} /\ total \in Nat /\ total * v <= n /\ n < (total + 1) * v
    BY AcceptedFacts, TotalStored DEF GoodTotal
  <2> HIDE DEF all, total, n, v
  <2>6. total * (all * v) = (total * v) * all /\ (total + 2) * (all * v) = ((total + 2) * v) * all
    BY <2>4, <2>5, TimesFacts
  <2>7. (total * v) * all <= n * all
    <3>1. total * v \in Nat
      BY <2>4, <2>5, TimesFacts
    <3> QED BY <3>1, <2>4, <2>5, LessTimes
  <2>8. (n + v) * all <= ((total + 2) * v) * all
    <3>1. (total + 2) * v = (total + 1) * v + v /\ (total + 1) * v \in Nat /\ (total + 2) * v \in Nat
      <4>1. total + 2 = (total + 1) + 1
        BY <2>4, <2>5
      <4> QED BY <4>1, <2>4, <2>5, TimesFacts
    <3>2. n + v <= (total + 2) * v /\ n + v \in Nat
      BY <3>1, <2>4, <2>5
    <3> QED BY <3>1, <3>2, <2>4, <2>5, LessTimes
  <2>9. (total * v) * all \in Int /\ n * all \in Int /\ (n + v) * all \in Int /\ ((total + 2) * v) * all \in Int
    <3>1. total * v \in Nat /\ n + v \in Nat /\ (total + 2) * v \in Nat
      BY <2>4, <2>5, TimesFacts
    <3> QED BY <3>1, <2>4, <2>5, TimesFacts
  <2>10. total * (all * v) <= Above /\ Above < (total + 2) * (all * v)
    BY <2>2, <2>3, <2>4, <2>6, <2>7, <2>8, <2>9
  <2> QED BY <2>1, <2>10 DEF total
<1> QED BY <1>1, ScoringInvariance, PTL

(* What a summary takes for granted of the reviews it reads.                *)
FitsSummary(r) ==
  /\ r.total \in 0..WeightTotalBPS
  /\ \A m \in Metrics : r.scores[m].max \in Nat \ {0} /\ r.scores[m].final \in 0..r.scores[m].max

LEMMA ReviewsFitSummary == \A r \in Reviews : FitsSummary(r)
  BY SummaryAssumption, ScaleAssumption DEF FitsSummary

AcceptedReview ==
  [total |-> TotalScoreBPS,
   scores |-> [m \in Metrics |-> [final |-> Final(m), max |-> rubric[m].max]]]

(* What is accepted and stored is a review as the statistics expect it.     *)
THEOREM AcceptedFitsSummary ==
  ScoreSpec => [](outcome = "accepted" => FitsSummary(AcceptedReview))
<1>1. ScoringInv => (outcome = "accepted" => FitsSummary(AcceptedReview))
  <2> SUFFICES ASSUME ScoringInv, outcome = "accepted" PROVE FitsSummary(AcceptedReview)
    OBVIOUS
  <2>1. TotalScoreBPS \in 0..WeightTotalBPS
    BY TotalStored DEF GoodTotal
  <2>2. ASSUME NEW m \in Metrics PROVE rubric[m].max \in Nat \ {0} /\ Final(m) \in 0..rubric[m].max
    <3>1. PICK i \in DOMAIN inputs : inputs[i].metric = m /\ Final(m) = inputs[i].final
      BY AcceptedFacts
    <3>2. inputs[i].final \in 0..rubric[m].max
      BY <3>1, AcceptedFacts DEF ScoringInv, SeenScored
    <3>3. rubric[m].max \in Nat \ {0}
      BY DEF ScoringInv, ScoringTyped
    <3> QED BY <3>1, <3>2, <3>3
  <2> QED BY <2>1, <2>2 DEF FitsSummary, AcceptedReview
<1> QED BY <1>1, ScoringInvariance, PTL

=============================================================================
