------------------------------ MODULE Evidence ------------------------------
(***************************************************************************)
(* Conventions shared by the modules that say what a command concludes     *)
(* from its measurements.  An Option that is None is the number Missing    *)
(* (strings: "none"), rates are in Mbit/s, times in ms unless said         *)
(* otherwise, losses in whole percent.  A ratio is compared with a         *)
(* threshold by cross-multiplication, so that the thresholds of the code   *)
(* stay exact on integers.                                                 *)
(***************************************************************************)
EXTENDS Integers, Sequences, FiniteSets, SequencesExt

Missing == -1
Known(x) == x # Missing

Distance(x, y) == IF x > y THEN x - y ELSE y - x
Larger(x, y)   == IF x > y THEN x ELSE y
Smaller(x, y)  == IF x < y THEN x ELSE y

(* The sum of a sequence, and that of f[i] over a set S of its indices.    *)
Total(s)    == FoldLeft(+, 0, s)
SumAt(f, S) == SumFunctionOnSet(f, S)

(* Indices of the elements of a sequence that satisfy a predicate.         *)
Where(s, P(_)) == {i \in DOMAIN s : P(s[i])}
Count(s, P(_)) == Cardinality(Where(s, P))

(* The first element that satisfies P, or d when there is none.            *)
FirstOr(s, P(_), d) == IF Where(s, P) = {} THEN d ELSE s[Min(Where(s, P))]
LastOr(s, P(_), d)  == IF Where(s, P) = {} THEN d ELSE s[Max(Where(s, P))]

(* The elements of s at the positions I by their keys, those of one key in *)
(* the order of s: a stable sort.  Rank counts up to i in that order.      *)
Rank(key, I, i) ==
  Cardinality({j \in I : key[j] < key[i] \/ (key[j] = key[i] /\ j <= i)})
InOrder(s, key, I) ==
  [k \in 1..Cardinality(I) |-> s[CHOOSE i \in I : Rank(key, I, i) = k]]

Keep(s, P(_))     == InOrder(s, [i \in DOMAIN s |-> i], Where(s, P))
SortedBy(s, K(_)) == InOrder(s, [i \in DOMAIN s |-> K(s[i])], DOMAIN s)

(* The outcome of a command: its exit status and what it reported.         *)
Refusal(code)   == [exit |-> code, report |-> "none"]
Completed(rep)  == [exit |-> 0, report |-> rep]
=============================================================================
