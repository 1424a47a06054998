-------------------------------- MODULE Lists --------------------------------
(* Lists and sums in a form that both TLC and the proofs can work with.    *)
EXTENDS Naturals, Sequences, FiniteSets, Functions

\* The elements of s at the indices K, in the order that a strict total order on K gives
\* them: a set of one list.
Arranged(s, K, before(_, _)) ==
  {[i \in DOMAIN f |-> s[f[i]]] :
     f \in {g \in Bijection(1 .. Cardinality(K), K) :
              \A i, j \in DOMAIN g : i < j => before(g[i], g[j])}}

\* The elements of s at the indices K, in the order they have in s: retain, filter.
Retained(s, K) == Arranged(s, K, <)

\* The sum of the values of f, counted one by one.
Units(f) == UNION {{x} \X (1 .. f[x]) : x \in DOMAIN f}
Total(f) == Cardinality(Units(f))
=============================================================================
