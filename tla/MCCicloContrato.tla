-------------------------- MODULE MCCicloContrato --------------------------
(* Instances of CicloContrato for TLC. *)
EXTENDS CicloContrato, TLC

(* On either side of the score that approves: 60 and 55 points. *)
PerfisAB ==
  {[fat |-> 200000, cnpj |-> TRUE, score |-> 0, estavel |-> FALSE],
   [fat |-> 199999, cnpj |-> TRUE, score |-> 0, estavel |-> TRUE]}
=============================================================================
