------------------------------ MODULE MCReactor ------------------------------
(* A Reactor with a few handlers.                                            *)
EXTENDS Reactor, TLC

\* One descriptor is as good as another; for runs without liveness properties only.
Symmetry == Permutations(Fds)
===============================================================================
