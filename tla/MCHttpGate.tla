----------------------------- MODULE MCHttpGate -----------------------------
(* Model checking instance of HttpGate. *)
EXTENDS HttpGate, TLC

Interchangeable == Permutations(Slots) \cup Permutations(Subjects)

=============================================================================
