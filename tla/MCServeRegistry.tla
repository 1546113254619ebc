-------------------------- MODULE MCServeRegistry --------------------------
(***************************************************************************)
(* Three pids, more processes than pids so that numbers are reused, and    *)
(* one fault.                                                              *)
(***************************************************************************)
EXTENDS ServeRegistry, TLC

\* Pids are told apart only by equality.
PidSymmetry == Permutations(Pids)
=============================================================================
