------------------------------ MODULE MCBilling ------------------------------
(* Finite instances of Billing for TLC. *)
EXTENDS Billing, TLC

CONSTANTS l1, l2, a, b, i1, i2

(* Instances and lives are interchangeable; clients are not: one has a fixed amount.    *)
Simetria == Permutations(Instancias) \cup Permutations(Lives)
=============================================================================
