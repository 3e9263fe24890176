---------------------------- MODULE MCJsonlStore ----------------------------
(***************************************************************************)
(* Small instances of JsonlStore.                                          *)
(***************************************************************************)
EXTENDS JsonlStore, TLC

CONSTANTS loop, ingress

(* Callers are interchangeable. *)
Symmetry == Permutations(Callers)

=============================================================================
