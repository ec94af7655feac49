----------------------------- MODULE OrderedRows -------------------------------
(***************************************************************************)
(* The rows of a list that pass a test, in the order of the list: what the *)
(* loops and comprehensions of goal_service.py and                         *)
(* dca_validation_reconstruction.py build.  They are chosen by their place,*)
(* so that one may reason about them without recursion.                    *)
(***************************************************************************)
EXTENDS Naturals, FiniteSets

\* Places in increasing order, and the rows of a series that are there.
InOrder(I) == [k \in 1..Cardinality(I) |-> CHOOSE i \in I : Cardinality({j \in I : j <= i}) = k]
Selected(s, I) == [k \in 1..Cardinality(I) |-> s[InOrder(I)[k]]]
===============================================================================
