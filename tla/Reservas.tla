------------------------------- MODULE Reservas -------------------------------
(***************************************************************************)
(* The requests for a cabine and a day: made by clients, through two       *)
(* routes, or scheduled by the unit; approved or refused.                  *)
(*                                                                         *)
(* A request is a process of Pedidos between its check and its write.      *)
(* Scheduling and approval are transactions, but what they check of other  *)
(* rows is not locked; approval locks its own row.  What approval does to  *)
(* the cabine is in CabineLive.                                            *)
(***************************************************************************)
EXTENDS Naturals

CONSTANTS
  Solicitacoes,  \* bound: ids that rows of live_requests can take
  Horarios,      \* intervals that are asked for, pairs of hours
  Pedidos,       \* bound: requests in flight
  NULL

VARIABLES
  solicitacoes,  \* row per request for the cabine; paralela, aprovada, disputada are history
  pedidos        \* requests in flight

vars == <<solicitacoes, pedidos>>

SolicitacaoRow == [status: {"ausente", "pendente", "aprovada", "recusada"}, horario: Horarios \cup {NULL},
                   paralela: BOOLEAN,    \* approved while an approval that overlaps it was in flight
                   aprovada: BOOLEAN,    \* has been approved
                   disputada: BOOLEAN]   \* approved while a refusal that had read it was in flight

PedidoRow == [pc: {"livre", "solicitar", "agendar", "aprovar", "recusar"},
              alvo: Solicitacoes \cup {NULL}, horario: Horarios \cup {NULL}]

TypeOK ==
  /\ solicitacoes \in [Solicitacoes -> SolicitacaoRow]
  /\ pedidos \in [Pedidos -> PedidoRow]

Livre == [pc |-> "livre", alvo |-> NULL, horario |-> NULL]

Init ==
  /\ solicitacoes = [r \in Solicitacoes |->
       [status |-> "ausente", horario |-> NULL, paralela |-> FALSE, aprovada |-> FALSE, disputada |-> FALSE]]
  /\ pedidos = [p \in Pedidos |-> Livre]

-----------------------------------------------------------------------------
(* Mutant: only a request that starts within the other one is a conflict. *)
MutSobrepoe(h, i) == h[1] >= i[1] /\ h[1] < i[2]

(* hora_inicio < $5 AND hora_fim > $4: the end of an interval is free. *)
Sobrepoe(h, i) == h[1] < i[2] /\ h[2] > i[1]

Conflito(h, status) ==
  \E r \in Solicitacoes : solicitacoes[r].status \in status /\ Sobrepoe(solicitacoes[r].horario, h)

EmCurso(p, pcs) == pedidos[p].pc \in pcs

Comecar(p, pc, r, h) ==
  /\ pedidos[p].pc = "livre"
  /\ pedidos' = [pedidos EXCEPT ![p] = [pc |-> pc, alvo |-> r, horario |-> h]]
  /\ UNCHANGED solicitacoes

Terminar(p, pc) == pedidos[p].pc = pc /\ pedidos' = [pedidos EXCEPT ![p] = Livre]

(* Mutant: the two hours are swapped. *)
MutInserir(r, status, h) ==
  /\ solicitacoes[r].status = "ausente"
  /\ solicitacoes' = [solicitacoes EXCEPT ![r].status = status, ![r].horario = <<h[2], h[1]>>]

Inserir(r, status, h) ==
  /\ solicitacoes[r].status = "ausente"
  /\ solicitacoes' = [solicitacoes EXCEPT ![r].status = status, ![r].horario = h]

(* Another approval or scheduling in flight has checked hours that overlap these. *)
Paralela(p, h) ==
  \E q \in Pedidos \ {p} :
    EmCurso(q, {"agendar", "aprovar"}) /\ pedidos[q].horario[1] < h[2] /\ h[1] < pedidos[q].horario[2]

-----------------------------------------------------------------------------
(* The client: /v1/cliente/solicitacao looks for a conflict with any request that was not *)
(* refused, solicitar-live looks for none.                                                *)

LerSolicitacao(p, h) == ~Conflito(h, {"pendente", "aprovada"}) /\ Comecar(p, "solicitar", NULL, h)

Solicitar(p, r) ==
  /\ Terminar(p, "solicitar")
  /\ Inserir(r, "pendente", pedidos[p].horario)

SolicitarLive(r, h) ==
  /\ Inserir(r, "pendente", h)
  /\ UNCHANGED pedidos

(* The unit. *)

LerAgendamento(p, h) == ~Conflito(h, {"aprovada"}) /\ Comecar(p, "agendar", NULL, h)

Agendar(p, r) ==
  LET h == pedidos[p].horario IN
  /\ Terminar(p, "agendar")
  /\ solicitacoes[r].status = "ausente"
  /\ solicitacoes' = [solicitacoes EXCEPT ![r] =
       [status |-> "aprovada", horario |-> h, paralela |-> Paralela(p, h), aprovada |-> TRUE, disputada |-> FALSE]]

(* SELECT ... FOR UPDATE *)
Travada(r) == \E p \in Pedidos : EmCurso(p, {"aprovar"}) /\ pedidos[p].alvo = r

LerAprovacao(p, r) ==
  /\ solicitacoes[r].status = "pendente"
  /\ ~Travada(r)
  /\ ~Conflito(solicitacoes[r].horario, {"aprovada"})
  /\ Comecar(p, "aprovar", r, solicitacoes[r].horario)

Aprovar(p) ==
  LET r == pedidos[p].alvo IN
  /\ Terminar(p, "aprovar")
  /\ solicitacoes' = [solicitacoes EXCEPT ![r].status = "aprovada", ![r].aprovada = TRUE,
       ![r].paralela = Paralela(p, pedidos[p].horario),
       ![r].disputada = \E q \in Pedidos : EmCurso(q, {"recusar"}) /\ pedidos[q].alvo = r]

(* No active contract, or an error: ROLLBACK. *)
Desistir(p) ==
  /\ \E pc \in {"agendar", "aprovar"} : Terminar(p, pc)
  /\ UNCHANGED solicitacoes

(* Mutant: the refusal does not look at the status. *)
MutRecusavel(r) == solicitacoes[r].status # "ausente"

Recusavel(r) == solicitacoes[r].status = "pendente"

LerRecusa(p, r) == Recusavel(r) /\ Comecar(p, "recusar", r, NULL)

(* By id, once no approval holds the row. *)
Recusar(p) ==
  LET r == pedidos[p].alvo IN
  /\ ~Travada(r)
  /\ Terminar(p, "recusar")
  /\ solicitacoes' = [solicitacoes EXCEPT ![r].status = "recusada"]

Next ==
  \/ \E p \in Pedidos :
       \/ \E h \in Horarios : LerSolicitacao(p, h) \/ LerAgendamento(p, h)
       \/ \E r \in Solicitacoes : Solicitar(p, r) \/ Agendar(p, r) \/ LerAprovacao(p, r) \/ LerRecusa(p, r)
       \/ Aprovar(p) \/ Desistir(p) \/ Recusar(p)
  \/ \E r \in Solicitacoes, h \in Horarios : SolicitarLive(r, h)

Spec == Init /\ [][Next]_vars

-----------------------------------------------------------------------------
(* Two approved requests of a cabine never overlap, unless one was approved while the     *)
(* approval of the other had checked and not yet written (solicitacoes.js:105, 230); a    *)
(* request is not refused after its approval, unless the refusal had read it before       *)
(* (solicitacoes.js:189).                                                                 *)
CabineSemConflito ==
  /\ \A r, s \in Solicitacoes :
       LET a == solicitacoes[r] b == solicitacoes[s] IN
       r # s /\ a.status = "aprovada" /\ b.status = "aprovada" /\ ~a.paralela /\ ~b.paralela =>
         a.horario[2] <= b.horario[1] \/ b.horario[2] <= a.horario[1]
  /\ \A r \in Solicitacoes : solicitacoes[r].status = "recusada" /\ solicitacoes[r].aprovada => solicitacoes[r].disputada
=============================================================================
