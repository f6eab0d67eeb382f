----------------------- MODULE MachineIntegersProofs -----------------------
(***************************************************************************)
(* When a conversion changes nothing.                                      *)
(***************************************************************************)
EXTENDS MachineIntegers, TLAPS

\* A natural number below the modulus is its own remainder.
LEMMA ModSmall ==
  ASSUME NEW n \in Nat, NEW m \in Nat, n < m
  PROVE  n % m = n
OBVIOUS

\* A number one modulus too large or too small.
LEMMA ModOver ==
  ASSUME NEW n \in Nat, NEW m \in Nat, m <= n, n < m + m
  PROVE  n % m = n - m
OBVIOUS

LEMMA ModUnder ==
  ASSUME NEW n \in Int, NEW m \in Nat, -m <= n, n < 0
  PROVE  n % m = n + m
OBVIOUS

\* Half the range of a machine word is a natural number.
LEMMA WordType ==
  /\ HalfWord \in Nat \ {0}
  /\ Word \in Nat \ {0}
  /\ HalfWord < Word
BY HalfWordAssumption DEF Word

\* The conversions leave alone what fits, and give a number of the type.
LEMMA I32Exact ==
  ASSUME NEW n \in Int, -HalfWord <= n, n < HalfWord
  PROVE  I32(n) = n
<1>1. HalfWord \in Nat /\ Word = 2 * HalfWord
  BY WordType DEF Word
<1>2. n + HalfWord \in Nat /\ Word \in Nat /\ n + HalfWord < Word
  BY <1>1
<1>3. (n + HalfWord) % Word = n + HalfWord
  BY <1>2, ModSmall
<1>. QED  BY <1>1, <1>3 DEF I32

LEMMA I32Type ==
  ASSUME NEW n \in Int
  PROVE  I32(n) \in Int
BY WordType DEF I32

LEMMA U32Exact ==
  ASSUME NEW n \in Nat, n < Word
  PROVE  U32(n) = n
BY WordType, ModSmall DEF U32

LEMMA U32Type ==
  ASSUME NEW n \in Int
  PROVE  U32(n) \in Nat
BY WordType DEF U32

\* A difference of sizes that exceeds a machine integer after both conversions
\* exceeds it before, also when the larger size does not fit.
LEMMA DifferenceExceeds ==
  ASSUME NEW n \in Nat, NEW m \in Nat, m < HalfWord,
         NEW e \in Int, e < HalfWord, I32(I32(n) - m) > e
  PROVE  n - m > e
<1>1. HalfWord \in Nat /\ Word = HalfWord + HalfWord /\ Word \in Nat
  BY WordType DEF Word
<1>2. CASE n < HalfWord
  <2>1. I32(n) = n
    BY <1>1, <1>2, I32Exact
  <2>2. I32(n - m) = n - m
    BY <1>1, <1>2, I32Exact
  <2>. QED  BY <2>1, <2>2
<1>3. CASE HalfWord <= n /\ n - m < HalfWord
  <2>1. n + HalfWord \in Nat /\ Word <= n + HalfWord /\ n + HalfWord < Word + Word
    BY <1>1, <1>3
  <2>2. I32(n) = n + HalfWord - Word - HalfWord
    BY <1>1, <2>1, ModOver DEF I32
  <2> DEFINE k == n - m - HalfWord
  <2>3. I32(n) - m + HalfWord = k /\ k \in Int /\ -Word <= k /\ k < 0
    BY <1>1, <1>3, <2>2
  <2> HIDE DEF k
  <2>4. I32(I32(n) - m) = k + Word - HalfWord
    BY <1>1, <2>3, ModUnder DEF I32
  <2>. QED  BY <1>1, <2>4 DEF k
<1>4. CASE HalfWord <= n - m
  BY <1>1, <1>4
<1>. QED  BY <1>1, <1>2, <1>3, <1>4
=============================================================================
