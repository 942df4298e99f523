--------------------------- MODULE MCOrderLifecycle ---------------------------
(* Instances of OrderLifecycle for TLC. *)
EXTENDS OrderLifecycle, TLC

CONSTANTS h1, h2

\* Handlers are interchangeable.
Symmetry == Permutations(Handlers)
=============================================================================
