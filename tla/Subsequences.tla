----------------------------- MODULE Subsequences -----------------------------
(***************************************************************************)
(* Parts of a list.  Keep is what Vec::retain and VecDeque::retain leave   *)
(* of it: the elements at some of its positions, in their order.  Unlike   *)
(* SelectSeq it takes the positions and not a predicate, and it has a      *)
(* definition without recursion, so that facts about it can be proved      *)
(* (SubsequencesProofs).                                                   *)
(***************************************************************************)
EXTENDS Naturals, Sequences, FiniteSets

\* How many of the numbers are at most i: the rank of i among them.
Rank(I, i) == Cardinality({k \in I : k <= i})

\* The n-th of the numbers.
Nth(I, n) == CHOOSE i \in I : Rank(I, i) = n

\* The elements of s at the positions I.
Keep(s, I) == [n \in 1..Cardinality(I) |-> s[Nth(I, n)]]

\* The last n elements: a list that drops its oldest ones at a limit.
LastOf(s, n) == IF Len(s) <= n THEN s ELSE SubSeq(s, Len(s) - n + 1, Len(s))
=============================================================================
