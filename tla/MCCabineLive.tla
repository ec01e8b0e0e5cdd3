---------------------------- MODULE MCCabineLive ----------------------------
(* Instances of CabineLive for TLC: at most two cabines, two lives and two   *)
(* clients with one contract each.                                           *)
EXTENDS CabineLive, TLC

CONSTANTS c1, k1, k2, a, b

SemContratos == <<>>

UmCliente == (k1 :> a)

DoisClientes == (k1 :> a @@ k2 :> b)

PedidoHoje == {[cabine_id |-> c1, cliente_id |-> a, dia |-> 1]}

Simetria == Permutations(Lives)

SimetriaCabines == Permutations(Lives) \cup Permutations(Cabines)
=============================================================================
