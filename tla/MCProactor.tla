------------------------------ MODULE MCProactor ------------------------------
(* Small instances of Proactor for TLC.                                    *)
EXTENDS Proactor, TLC

\* For runs without liveness properties only.
Symmetry == Permutations(Opened) \cup Permutations(Chained)
===============================================================================
