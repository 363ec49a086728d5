---------------------------- MODULE MCJobRunner ----------------------------
(* Model-checking instance of JobRunner. *)
EXTENDS JobRunner, TLC

(* Jobs and worker threads are interchangeable: no action names one, and   *)
(* submission order is carried by the stamps.                              *)
Symmetric == Permutations(Jobs) \cup Permutations(Workers)
=============================================================================
