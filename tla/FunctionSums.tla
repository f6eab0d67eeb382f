--------------------------- MODULE FunctionSums ---------------------------
(***************************************************************************)
(* The sum of the values of a function into Nat, defined without recursion *)
(* so that the provers can reason about it: Total(f) counts the units that *)
(* f hands out, f[x] of them to each x of its domain.                      *)
(***************************************************************************)
EXTENDS Naturals, FiniteSets

\* The n units owned by x.
Column(x, n) == {x} \X (1..n)

\* All the units of f, one column per element of its domain.
Units(f) == UNION {Column(x, f[x]) : x \in DOMAIN f}

\* \sum_{x \in DOMAIN f} f[x]
Total(f) == Cardinality(Units(f))
===========================================================================
