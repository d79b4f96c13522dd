------------------------------ MODULE TextLines ------------------------------
(***************************************************************************)
(* How lines are taken out of a text file: remove_autoexec_block and        *)
(* nos_install_remove_launcher of NPKG and lau_load of the shell read it    *)
(* from the top and keep some of its lines, in their order.                 *)
(***************************************************************************)
EXTENDS Naturals, Sequences, FiniteSets

(* The lines of f with a number in S, in their order: the k-th of them has  *)
(* k - 1 before it.                                                         *)
Picked(f, S) ==
    [k \in 1 .. Cardinality(S) |-> f[CHOOSE i \in S : Cardinality({j \in S : j < i}) = k - 1]]
==============================================================================
