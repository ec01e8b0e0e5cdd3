------------------------------ MODULE Cobranca ------------------------------
(***************************************************************************)
(* The two halves of a boleto: how a round of billing makes and charges it *)
(* (Billing), how its payment gets back (Pagamentos).  They keep no state  *)
(* in common; metade, chosen at the start, names the half that moves.      *)
(***************************************************************************)
EXTENDS Pagamentos

CONSTANTS
  Lives, Clientes, Faturadores, ComFixo, MaxQuinzena, Eventualidades   \* Billing; its instances are Faturadores

VARIABLES
  metade,
  bLives, bBoletos, bTrava, bInstancia, bQuinzena, bCobrancas, bDesfechos, bPresas

B == INSTANCE Billing WITH
       Instancias <- Faturadores,
       lives <- bLives, boletos <- bBoletos, trava <- bTrava, instancia <- bInstancia,
       quinzena <- bQuinzena, cobrancas <- bCobrancas, desfechos <- bDesfechos, presas <- bPresas

(* What Billing assumes of its constants. *)
ASSUME CobrancaAssumption ==
  /\ ComFixo \subseteq Clientes
  /\ Faturadores # {}
  /\ MaxQuinzena \in Nat \ {0}
  /\ Eventualidades \subseteq B!EventualidadesPossiveis
  /\ NULL \notin Lives \cup Clientes \cup Faturadores \cup (Clientes \X Nat)

faturamento == <<bLives, bBoletos, bTrava, bInstancia, bQuinzena, bCobrancas, bDesfechos, bPresas>>

Estado == <<metade, vars, faturamento>>

-----------------------------------------------------------------------------
(* The settings of the half that does not move are fixed. *)
InitCobranca ==
  /\ metade \in {"faturamento", "pagamento"}
  /\ Init /\ B!Init
  /\ metade = "faturamento" => ~replay /\ ~semId /\ \A b \in Boletos : boletos[b].via = "appmax"

Faturar == metade = "faturamento" /\ B!Next /\ UNCHANGED metade /\ UNCHANGED vars

Pagar == metade = "pagamento" /\ Next /\ UNCHANGED metade /\ UNCHANGED faturamento

(* The fairness of Pagamentos, asked for only while its half moves. *)
FairnessCobranca ==
  /\ \A d \in Entregas : WF_vars(metade = "pagamento" /\ Passo(d))
  /\ \A e \in Eventos : SF_vars(metade = "pagamento" /\ Receber(e))

SpecCobranca == InitCobranca /\ [][Faturar \/ Pagar]_Estado /\ FairnessCobranca

-----------------------------------------------------------------------------
(* Both halves keep their variables within their types: no boleto, lock, delivery or log  *)
(* entry of the billing (billing_engine.js:194) and the payments (appmax.js:68) is out of *)
(* its domain.                                                                            *)
TiposDaCobranca == TypeOK /\ B!TypeOK

(* A client is charged twice for a fortnight only if one of the two rounds was rolled     *)
(* back: two instances that fire together meet the lock (billing_engine.js:203) and the   *)
(* idempotency key, see Billing.                                                          *)
CobrancaUnica == B!CobrancaUnica

(* Once the rounds about its fortnight are over, every ended live with a commission and a *)
(* client is billed, unless it was entered or edited late or all those rounds were lost,  *)
(* see Billing.                                                                           *)
LiveFaturada == B!LiveFaturada
=============================================================================
