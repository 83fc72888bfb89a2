------------------------------- MODULE MCTeapot -------------------------------
(* Teapot on small instances.  Request slots, users and process ids are    *)
(* model values and interchangeable; ports are numbers.  NoUser may be a   *)
(* user (a mapping that returns None) but is not interchangeable with one. *)
EXTENDS Teapot, TLC

SlotSymmetry == Permutations(Request) \cup Permutations(Pid)

Symmetry == SlotSymmetry \cup Permutations(User)
=============================================================================
