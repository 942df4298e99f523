-------------------------- MODULE MCRiderDispatch --------------------------
(* Instances of RiderDispatch for TLC. *)
EXTENDS RiderDispatch, TLC

\* The riders are interchangeable, and so are the handlers.
Symmetric == Permutations(Orders) \cup Permutations(Riders) \cup Permutations(Handlers)
=============================================================================
