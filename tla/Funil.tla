-------------------------------- MODULE Funil --------------------------------
(***************************************************************************)
(* Leads: how they arrive by the webhook of the public form or by hand,    *)
(* are taken, moved through the stages, and converted into a client with   *)
(* an active contract.                                                     *)
(*                                                                         *)
(* The statements of a delivery autocommit.  A conversion is a transaction *)
(* that holds the row lock of its lead from the SELECT FOR UPDATE to the   *)
(* end; every other writer of the lead waits for it.                       *)
(***************************************************************************)
EXTENDS FiniteSets

CONSTANTS
  Leads,        \* bound: ids that rows of leads can take
  Clientes,     \* bound: ids that rows of clientes can take
  Eventos,      \* forms that were sent; a retry carries the same nonce
  Entregas,     \* bound: webhook requests in flight
  Transacoes,   \* bound: conversions in flight
  NULL

VARIABLES
  leads,        \* row per lead
  clientes,     \* per client born of a lead, that lead
  replay,       \* WEBHOOK_REPLAY_PROTECTION, read by every request
  nonces,       \* webhook_replay_log
  entregas,     \* webhook requests in flight: the event of each
  transacoes,   \* conversions in flight: the lead each has locked and read
  reabertos     \* history: leads that a PATCH took out of 'ganho'

vars == <<leads, clientes, replay, nonces, entregas, transacoes, reabertos>>

(* 'em_negociacao' stands for the stages between the first and the last. *)
Etapas == {"lead_novo", "em_negociacao", "ganho"}

LeadRow == [status: {"ausente", "disponivel", "pego", "excluido"}, etapa: Etapas,
            evento: Eventos \cup {NULL}, convertido: Clientes \cup {NULL}]

TypeOK ==
  /\ leads \in [Leads -> LeadRow]
  /\ clientes \in [Clientes -> Leads \cup {NULL}]
  /\ replay \in BOOLEAN
  /\ nonces \subseteq Eventos
  /\ entregas \in [Entregas -> Eventos \cup {NULL}]
  /\ transacoes \in [Transacoes -> Leads \cup {NULL}]
  /\ reabertos \subseteq Leads

SemLead == [status |-> "ausente", etapa |-> "lead_novo", evento |-> NULL, convertido |-> NULL]

Init ==
  /\ leads = [l \in Leads |-> SemLead]
  /\ clientes = [c \in Clientes |-> NULL]
  /\ replay \in BOOLEAN
  /\ nonces = {}
  /\ entregas = [d \in Entregas |-> NULL]
  /\ transacoes = [t \in Transacoes |-> NULL]
  /\ reabertos = {}

Existe(l) == leads[l].status \in {"disponivel", "pego"}

InserirLead(l, row) == leads[l].status = "ausente" /\ leads' = [leads EXCEPT ![l] = row]

-----------------------------------------------------------------------------
(* POST /v1/webhooks/bio-crm.  The nonce is stored before the lead: of two deliveries of *)
(* one event the primary key lets one go on, and a delivery that fails after it leaves   *)
(* the nonce behind.                                                                     *)

(* Mutant: the nonce is looked for, and stored only with the lead. *)
MutGuardarNonce(e) == e \notin nonces /\ UNCHANGED nonces

GuardarNonce(e) == e \notin nonces /\ nonces' = nonces \cup {e}

ReceberEvento(d, e) ==
  /\ entregas[d] = NULL
  /\ IF replay THEN GuardarNonce(e) ELSE UNCHANGED nonces
  /\ entregas' = [entregas EXCEPT ![d] = e]
  /\ UNCHANGED <<leads, clientes, replay, transacoes, reabertos>>

CriarPeloWebhook(d, l) ==
  /\ entregas[d] # NULL
  /\ InserirLead(l, [SemLead EXCEPT !.status = "disponivel", !.evento = entregas[d]])
  /\ entregas' = [entregas EXCEPT ![d] = NULL]
  /\ UNCHANGED <<clientes, replay, nonces, transacoes, reabertos>>

(* The INSERT fails: 500, and the nonce stays. *)
FalharEntrega(d) ==
  /\ entregas[d] # NULL
  /\ entregas' = [entregas EXCEPT ![d] = NULL]
  /\ UNCHANGED <<leads, clientes, replay, nonces, transacoes, reabertos>>

-----------------------------------------------------------------------------
(* The CRM. *)

(* Mutant: the SELECT of the conversion has no FOR UPDATE. *)
MutTravado(l) == FALSE

(* A transaction holds the lead. *)
Travado(l) == \E t \in Transacoes : transacoes[t] = l

(* Any stage may be given, the last one included, without a client. *)
CriarLead(l, etapa) ==
  /\ InserirLead(l, [SemLead EXCEPT !.status = "pego", !.etapa = etapa])
  /\ UNCHANGED <<clientes, replay, nonces, entregas, transacoes, reabertos>>

EditarLead(l, etapa) ==
  /\ Existe(l)
  /\ ~Travado(l)
  /\ leads' = [leads EXCEPT ![l].etapa = etapa]
  /\ reabertos' = IF leads[l].etapa = "ganho" /\ etapa # "ganho" THEN reabertos \cup {l} ELSE reabertos
  /\ UNCHANGED <<clientes, replay, nonces, entregas, transacoes>>

ExcluirLead(l) ==
  /\ Existe(l)
  /\ ~Travado(l)
  /\ leads' = [leads EXCEPT ![l].status = "excluido"]
  /\ UNCHANGED <<clientes, replay, nonces, entregas, transacoes, reabertos>>

Pegar(l) ==
  /\ leads[l].status = "disponivel"
  /\ ~Travado(l)
  /\ leads' = [leads EXCEPT ![l].status = "pego"]
  /\ UNCHANGED <<clientes, replay, nonces, entregas, transacoes, reabertos>>

-----------------------------------------------------------------------------
(* POST /v1/leads/:id/ganhar *)

Convertivel(l) == Existe(l) /\ leads[l].etapa # "ganho"

ComecarConversao(t, l) ==
  /\ transacoes[t] = NULL
  /\ ~Travado(l)
  /\ Convertivel(l)
  /\ transacoes' = [transacoes EXCEPT ![t] = l]
  /\ UNCHANGED <<leads, clientes, replay, nonces, entregas, reabertos>>

(* Client, contract and lead are written and committed together; the contract is active *)
(* and belongs to the new client.                                                       *)
Converter(t, c) ==
  LET l == transacoes[t] IN
  /\ l # NULL
  /\ clientes[c] = NULL
  /\ clientes' = [clientes EXCEPT ![c] = l]
  /\ leads' = [leads EXCEPT ![l].etapa = "ganho", ![l].status = "pego", ![l].convertido = c]
  /\ transacoes' = [transacoes EXCEPT ![t] = NULL]
  /\ UNCHANGED <<replay, nonces, entregas, reabertos>>

DesfazerConversao(t) ==
  /\ transacoes[t] # NULL
  /\ transacoes' = [transacoes EXCEPT ![t] = NULL]
  /\ UNCHANGED <<leads, clientes, replay, nonces, entregas, reabertos>>

-----------------------------------------------------------------------------
Next ==
  \/ \E d \in Entregas :
       \/ \E e \in Eventos : ReceberEvento(d, e)
       \/ \E l \in Leads : CriarPeloWebhook(d, l)
       \/ FalharEntrega(d)
  \/ \E l \in Leads :
       \/ \E etapa \in Etapas : CriarLead(l, etapa) \/ EditarLead(l, etapa)
       \/ ExcluirLead(l) \/ Pegar(l)
       \/ \E t \in Transacoes : ComecarConversao(t, l)
  \/ \E t \in Transacoes : (\E c \in Clientes : Converter(t, c)) \/ DesfazerConversao(t)

Spec == Init /\ [][Next]_vars

-----------------------------------------------------------------------------
(* A client born of a lead is the one the lead points to: conversions that race, pegar,   *)
(* edits and retries after a ROLLBACK never give a lead two clients.  Only a PATCH that   *)
(* took the lead out of 'ganho' lets ganhar run again and leave the first client behind.  *)
ClienteDoLead ==
  \A c \in Clientes :
    clientes[c] # NULL /\ clientes[c] \notin reabertos => leads[clientes[c]].convertido = c

(* Under replay protection one form gives at most one lead, however many deliveries of it *)
(* run at once or come again.                                                             *)
LeadUnicoPorEvento ==
  replay => \A l, m \in Leads : leads[l].evento # NULL /\ leads[l].evento = leads[m].evento => l = m
=============================================================================
