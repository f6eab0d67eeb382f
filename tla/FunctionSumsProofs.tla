------------------------ MODULE FunctionSumsProofs ------------------------
(***************************************************************************)
(* What a change of one value does to the sum of a function.  No induction *)
(* is needed: a sum is the cardinality of a union of disjoint columns.     *)
(***************************************************************************)
EXTENDS FunctionSums, Integers, FiniteSetTheorems, TLAPS

\* A column of n units has n elements.
LEMMA ColumnCardinality ==
  ASSUME NEW x, NEW n \in Nat
  PROVE  IsFiniteSet(Column(x, n)) /\ Cardinality(Column(x, n)) = n
<1>1. IsFiniteSet({x}) /\ Cardinality({x}) = 1
  BY FS_Singleton
<1>2. IsFiniteSet(1..n) /\ Cardinality(1..n) = n
  BY FS_Interval
<1>3. IsFiniteSet(Column(x, n)) /\ Cardinality(Column(x, n)) = Cardinality({x}) * Cardinality(1..n)
  BY <1>1, <1>2, FS_Product DEF Column
<1>. QED  BY <1>1, <1>2, <1>3

\* The units of a function with a finite domain are finitely many.
LEMMA UnitsFinite ==
  ASSUME NEW S, IsFiniteSet(S), NEW f \in [S -> Nat]
  PROVE  IsFiniteSet(Units(f))
<1> DEFINE C == {Column(x, f[x]) : x \in S}
           g == [x \in S |-> Column(x, f[x])]
<1>1. g \in Surjection(S, C)
  BY DEF Surjection
<1>2. IsFiniteSet(C)
  BY <1>1, FS_Surjection
<1>3. \A T \in C : IsFiniteSet(T)
  BY ColumnCardinality
<1>4. IsFiniteSet(UNION C)
  BY <1>2, <1>3, FS_UNION
<1>. QED  BY <1>4 DEF Units

\* A sum over a finite domain is a natural number.
LEMMA TotalType ==
  ASSUME NEW S, IsFiniteSet(S), NEW f \in [S -> Nat]
  PROVE  Total(f) \in Nat
BY UnitsFinite, FS_CardinalityType DEF Total

\* A sum splits into one value and the sum of the others.
LEMMA TotalSplit ==
  ASSUME NEW S, IsFiniteSet(S), NEW f \in [S -> Nat], NEW a \in S
  PROVE  /\ Total([x \in S \ {a} |-> f[x]]) \in Nat
         /\ Total(f) = Total([x \in S \ {a} |-> f[x]]) + f[a]
<1> DEFINE r == [x \in S \ {a} |-> f[x]]
<1>1. IsFiniteSet(S \ {a}) /\ r \in [S \ {a} -> Nat]
  BY FS_RemoveElement
<1>2. IsFiniteSet(Units(r)) /\ Total(r) \in Nat
  BY <1>1, UnitsFinite, TotalType
<1>3. Units(f) = Units(r) \cup Column(a, f[a])
  BY DEF Units
<1>4. Units(r) \cap Column(a, f[a]) = {}
  BY DEF Units, Column
<1>5. IsFiniteSet(Column(a, f[a])) /\ Cardinality(Column(a, f[a])) = f[a]
  BY ColumnCardinality
<1>6. Cardinality({}) = 0
  BY FS_EmptySet
<1>7. Cardinality(Units(f)) = Cardinality(Units(r)) + f[a] - 0
  BY <1>2, <1>3, <1>4, <1>5, <1>6, FS_Union
<1>. QED  BY <1>2, <1>7 DEF Total

\* Replacing one value of a function changes its sum by the difference.
LEMMA TotalUpdate ==
  ASSUME NEW S, IsFiniteSet(S), NEW f \in [S -> Nat], NEW a \in S, NEW n \in Nat
  PROVE  Total([f EXCEPT ![a] = n]) = Total(f) - f[a] + n
<1> DEFINE g == [f EXCEPT ![a] = n]
<1>1. g \in [S -> Nat] /\ g[a] = n
  OBVIOUS
<1>2. [x \in S \ {a} |-> g[x]] = [x \in S \ {a} |-> f[x]]
  OBVIOUS
<1>3. Total(f) = Total([x \in S \ {a} |-> f[x]]) + f[a]
  BY TotalSplit
<1>4. Total(g) = Total([x \in S \ {a} |-> g[x]]) + g[a]
  BY <1>1, TotalSplit
<1>5. Total([x \in S \ {a} |-> f[x]]) \in Nat
  BY TotalSplit
<1> HIDE DEF g
<1>6. Total(g) = Total(f) - f[a] + n
  BY <1>1, <1>2, <1>3, <1>4, <1>5
<1>. QED  BY <1>6 DEF g
===========================================================================
