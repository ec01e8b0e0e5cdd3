---------------------------- MODULE MCComissoes ----------------------------
(* Finite instances of Comissoes for TLC. *)
EXTENDS Comissoes, TLC

CONSTANTS l1, l2, x1, a, b, c1, c2, v1, v2, v3

(* Lives, rows and recalculations are interchangeable, and so are the presenters with a *)
(* user: every presenter of the instances has one.                                      *)
Simetria ==
  Permutations(Lives) \cup Permutations(Vendas) \cup Permutations(Calculos) \cup Permutations(ComConta)
=============================================================================
