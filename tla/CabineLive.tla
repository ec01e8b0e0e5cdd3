----------------------------- MODULE CabineLive -----------------------------
(***************************************************************************)
(* The operational core of the backend: recording booths (cabines), the    *)
(* lives broadcast from them, the contracts that pay for the lives, the    *)
(* agenda events and the approved requests that lead to them.              *)
(*                                                                         *)
(* Tables are functions from ids to rows, with the columns' names.  A      *)
(* handler that takes the row locks of everything it writes (SELECT ... FOR *)
(* UPDATE inside BEGIN/COMMIT) is one action, guarded as the code's early  *)
(* returns guard it.  The three that write from an unlocked read are split *)
(* at that read: GET /v1/cabines/:id/live-atual, which repairs the cabine  *)
(* row, and the poll of the TikTok API, which ends a live, with three      *)
(* autocommitted statements each; and the approval of a request, which     *)
(* reads the client's active contract without locking it.                  *)
(***************************************************************************)
EXTENDS Naturals

CONSTANTS
  Cabines,          \* rows of cabines
  Lives,            \* ids that rows of lives can take
  Contratos,        \* rows of contratos
  Clientes,         \* rows of clientes
  Eventos,          \* ids that rows of agenda_eventos can take
  Pedidos,          \* live_requests: records [cabine_id, cliente_id, dia]
  Leitores,         \* GET live-atual requests that may be in flight
  Aprovadores,      \* PATCH solicitacoes/aprovar requests that may be in flight
  Coletas,          \* polls of the TikTok API that may be in flight, one per server
  ContratoCliente,  \* contratos.cliente_id, which no handler updates
  Inadimplentes,    \* clients whose status is 'inadimplente' (no handler sets it)
  ComMarca,         \* clients that have a row of marcas with status 'ativa'
  MaxDia,           \* bound: days the clock runs through
  NULL

ASSUME ConstantesAssumption ==
  /\ ContratoCliente \in [Contratos -> Clientes]
  /\ \A p \in Pedidos : p.cabine_id \in Cabines /\ p.cliente_id \in Clientes
  /\ Inadimplentes \subseteq Clientes
  /\ ComMarca \subseteq Clientes
  /\ MaxDia \in Nat \ {0}
  /\ NULL \notin Cabines \cup Lives \cup Contratos \cup Clientes \cup Eventos \cup Pedidos

VARIABLES
  cabines,      \* row per cabine
  lives,        \* row per live
  ativos,       \* the contracts whose status is 'ativo'
  horas,        \* contract whose horas_consumidas a live was added to
  agenda,       \* row per agenda event
  aprovadas,    \* the requests whose status is 'aprovada'
  leitor,       \* per GET live-atual: where it is and what it has read
  aprovacao,    \* per approval in flight: the request and the contract it read
  coleta,       \* per poll: where it is and the live it ends
  hoje,         \* CURRENT_DATE
  relogio,      \* NOW(), as the number of lives started so far
  soltas        \* history: cabines that lost the link to a running live

vars == <<cabines, lives, ativos, horas, agenda, aprovadas, leitor, aprovacao,
          coleta, hoje, relogio, soltas>>

Dias == 1..MaxDia

(* CHECK constraint of migration 081: 'ativa' is no longer a status. *)
CabineStatus == {"disponivel", "reservada", "ao_vivo", "manutencao"}

LiveStatus == {"ausente", "em_andamento", "encerrada", "excluida"}

(* 'planejado' stands for itself and for 'confirmado': no statement of the code tells *)
(* them apart.  'ausente' is an id not inserted yet.                                  *)
EventoStatus == {"ausente", "planejado", "ao_vivo", "concluido", "cancelado"}

(* What lives.tipo asks of a live: only 'cliente' needs a client in good standing. *)
Tipos == {"cliente", "afiliado", "teste"}

CabineRow == [status: CabineStatus, contrato_id: Contratos \cup {NULL},
              live_atual_id: Lives \cup {NULL}]

(* 'contrato' is what the start resolved; the table keeps it only on the cabine. *)
LiveRow == [status: LiveStatus, cabine_id: Cabines \cup {NULL},
            cliente_id: Clientes \cup {NULL}, contrato: Contratos \cup {NULL},
            dia: Dias, inicio: Nat]

(* 'live' is the live that put the event on the air; the table has no such column. *)
EventoRow == [status: EventoStatus, cabine_id: Cabines \cup {NULL},
              cliente_id: Clientes \cup {NULL}, dia: Dias, live: Lives \cup {NULL}]

LeitorRow == [passo: {"livre", "leu", "buscou"}, cabine: Cabines \cup {NULL},
              status: CabineStatus, live_atual_id: Lives \cup {NULL},
              achada: Lives \cup {NULL}]

AprovacaoRow == [pedido: Pedidos \cup {NULL}, contrato: Contratos \cup {NULL}]

ColetaRow == [passo: {"livre", "escolheu", "finalizou"}, live: Lives \cup {NULL}]

TypeOK ==
  /\ cabines \in [Cabines -> CabineRow]
  /\ lives \in [Lives -> LiveRow]
  /\ ativos \subseteq Contratos
  /\ horas \in [Lives -> Contratos \cup {NULL}]
  /\ agenda \in [Eventos -> EventoRow]
  /\ aprovadas \subseteq Pedidos
  /\ leitor \in [Leitores -> LeitorRow]
  /\ aprovacao \in [Aprovadores -> AprovacaoRow]
  /\ coleta \in [Coletas -> ColetaRow]
  /\ hoje \in Dias
  /\ relogio \in Nat
  /\ soltas \subseteq Cabines

LiveNova == [status |-> "ausente", cabine_id |-> NULL, cliente_id |-> NULL,
             contrato |-> NULL, dia |-> 1, inicio |-> 0]

EventoNovo == [status |-> "ausente", cabine_id |-> NULL, cliente_id |-> NULL,
               dia |-> 1, live |-> NULL]

LeitorLivre == [passo |-> "livre", cabine |-> NULL, status |-> "disponivel",
                live_atual_id |-> NULL, achada |-> NULL]

SemAprovacao == [pedido |-> NULL, contrato |-> NULL]

ColetaLivre == [passo |-> "livre", live |-> NULL]

(* The schema as the migrations leave it: cabines are seeded 'disponivel'. *)
Init ==
  /\ cabines = [c \in Cabines |-> [status |-> "disponivel", contrato_id |-> NULL,
                                   live_atual_id |-> NULL]]
  /\ lives = [l \in Lives |-> LiveNova]
  /\ ativos = {}
  /\ horas = [l \in Lives |-> NULL]
  /\ agenda = [e \in Eventos |-> EventoNovo]
  /\ aprovadas = {}
  /\ leitor = [r \in Leitores |-> LeitorLivre]
  /\ aprovacao = [a \in Aprovadores |-> SemAprovacao]
  /\ coleta = [t \in Coletas |-> ColetaLivre]
  /\ hoje = 1
  /\ relogio = 0
  /\ soltas = {}

-----------------------------------------------------------------------------
(* Reads shared by the handlers. *)

(* Mutant: the query forgets WHERE cabine_id = $1. *)
MutEmAndamento(c) == {l \in Lives : lives[l].status = "em_andamento"}

EmAndamento(c) ==
  {l \in Lives : lives[l].status = "em_andamento" /\ lives[l].cabine_id = c}

AtivosDe(cli) == {k \in ativos : ContratoCliente[k] = cli}

(* LIMIT 1 over a set of rows: one of them, or NULL when there is none. *)
UmDe(S) == IF S = {} THEN {NULL} ELSE S

(* A cabine whose running live loses its link enters the history. *)
Solta(c) == IF \E l \in EmAndamento(c) : cabines[c].live_atual_id = l
            THEN soltas \cup {c} ELSE soltas

-----------------------------------------------------------------------------
(* POST /v1/lives *)

(* Agenda event the start resolves: the one in the body, whatever its status, *)
(* day or cabine; otherwise one planned on this cabine for today.            *)
EventoDaLive(c, pedido) ==
  IF pedido # NULL
  THEN {pedido}
  ELSE UmDe({e \in Eventos : /\ agenda[e].cabine_id = c
                             /\ agenda[e].dia = hoje
                             /\ agenda[e].status = "planejado"})

(* Client before any contract is looked at: the agenda event's, else the body's, *)
(* else, for a live of type 'cliente', that of a request approved for today.     *)
ClienteDaLive(c, tipo, pedido, e) ==
  LET base == IF e # NULL /\ agenda[e].cliente_id # NULL
              THEN agenda[e].cliente_id ELSE pedido
  IN IF base = NULL /\ tipo = "cliente"
     THEN UmDe({p.cliente_id : p \in {q \in aprovadas : q.cabine_id = c /\ q.dia = hoje}})
     ELSE {base}

(* A reserved cabine keeps its contract; otherwise the client's active contract is *)
(* looked up, and only without a client is the contract left on the row used.      *)
ContratoDaLive(c, cli) ==
  IF \/ cabines[c].status = "reservada" /\ cabines[c].contrato_id # NULL
     \/ cli = NULL
  THEN {cabines[c].contrato_id}
  ELSE UmDe(AtivosDe(cli))

(* A contract that is not active is replaced by an active one of its client, or *)
(* the start is refused (no element).                                           *)
ContratoValidado(k) ==
  IF k = NULL \/ k \in ativos THEN {k} ELSE AtivosDe(ContratoCliente[k])

(* The event that goes on the air: the resolved one, or one inserted for a client *)
(* that has a brand.                                                              *)
MarcarEvento(c, l, e, cli) ==
  IF e # NULL
  THEN agenda' = [agenda EXCEPT ![e] = [@ EXCEPT !.status = "ao_vivo", !.live = l]]
  ELSE IF cli \in ComMarca
  THEN \E novo \in Eventos :
         /\ agenda[novo].status = "ausente"
         /\ agenda' = [agenda EXCEPT ![novo] =
                         [status |-> "ao_vivo", cabine_id |-> c, cliente_id |-> cli,
                          dia |-> hoje, live |-> l]]
  ELSE UNCHANGED agenda

(* Mutant: the contract found for the client is not written to the cabine. *)
MutLigarLive(c, l, cli, k) ==
  /\ lives' = [lives EXCEPT ![l] = [status |-> "em_andamento", cabine_id |-> c,
                                    cliente_id |-> cli, contrato |-> k,
                                    dia |-> hoje, inicio |-> relogio]]
  /\ cabines' = [cabines EXCEPT ![c].status = "ao_vivo", ![c].live_atual_id = l]
  /\ relogio' = relogio + 1

(* The rows a committed start writes.  The cabine's contrato_id is written only when *)
(* a contract was resolved: a start without one leaves the column as it was.         *)
LigarLive(c, l, cli, k) ==
  /\ lives' = [lives EXCEPT ![l] = [status |-> "em_andamento", cabine_id |-> c,
                                    cliente_id |-> cli, contrato |-> k,
                                    dia |-> hoje, inicio |-> relogio]]
  /\ cabines' = [cabines EXCEPT
                   ![c] = [status |-> "ao_vivo", live_atual_id |-> l,
                           contrato_id |-> IF k # NULL THEN k ELSE @.contrato_id]]
  /\ relogio' = relogio + 1

(* The refusals CABINE_NOT_AVAILABLE and "Cabine já possui uma live em andamento". *)
AceitaLive(c) ==
  /\ cabines[c].status \in {"disponivel", "reservada"}
  /\ cabines[c].live_atual_id = NULL

IniciarLive(c, l, tipo, pedidoCliente, pedidoEvento) ==
  /\ lives[l].status = "ausente"
  /\ AceitaLive(c)
  /\ pedidoEvento # NULL => agenda[pedidoEvento].status # "ausente"
  /\ \E e \in EventoDaLive(c, pedidoEvento) :
     \E cli0 \in ClienteDaLive(c, tipo, pedidoCliente, e) :
     \E k0 \in ContratoDaLive(c, cli0) :
     \E k \in ContratoValidado(k0) :
       LET cli == IF k0 # NULL THEN ContratoCliente[k0] ELSE cli0
       IN /\ tipo = "cliente" => cli # NULL /\ cli \notin Inadimplentes
          /\ LigarLive(c, l, cli, k)
          /\ MarcarEvento(c, l, e, cli)
  /\ UNCHANGED <<ativos, horas, aprovadas, leitor, aprovacao, coleta, hoje, soltas>>

-----------------------------------------------------------------------------
(* PATCH /v1/lives/:id/encerrar *)

(* Mutant: the events are matched by day alone. *)
MutConcluirEventos(l) ==
  agenda' = [e \in Eventos |->
               IF agenda[e].status = "ao_vivo" /\ agenda[e].dia = lives[l].dia
               THEN [agenda[e] EXCEPT !.status = "concluido"]
               ELSE agenda[e]]

(* Only the cabine and the day identify the events that are concluded. *)
ConcluirEventos(l) ==
  agenda' = [e \in Eventos |->
               IF /\ agenda[e].status = "ao_vivo"
                  /\ agenda[e].cabine_id = lives[l].cabine_id
                  /\ agenda[e].dia = lives[l].dia
               THEN [agenda[e] EXCEPT !.status = "concluido"]
               ELSE agenda[e]]

(* Mutant: the status an active contract gave before migration 081. *)
MutDesligarCabine(c) ==
  cabines' = [cabines EXCEPT
                ![c] = [status |-> IF @.contrato_id \in ativos THEN "ativa" ELSE "disponivel",
                        live_atual_id |-> NULL,
                        contrato_id |-> IF @.contrato_id \in ativos
                                        THEN @.contrato_id ELSE NULL]]

(* The cabine is released whichever live it points to, and keeps its contract only *)
(* while that is active.                                                           *)
DesligarCabine(c) ==
  cabines' = [cabines EXCEPT
                ![c] = [status |-> "disponivel", live_atual_id |-> NULL,
                        contrato_id |-> IF @.contrato_id \in ativos
                                        THEN @.contrato_id ELSE NULL]]

EncerrarLive(l) ==
  /\ lives[l].status = "em_andamento"
  /\ lives' = [lives EXCEPT ![l].status = "encerrada"]
  /\ horas' = [horas EXCEPT ![l] = cabines[lives[l].cabine_id].contrato_id]
  /\ ConcluirEventos(l)
  /\ DesligarCabine(lives[l].cabine_id)
  /\ UNCHANGED <<ativos, aprovadas, leitor, aprovacao, coleta, hoje, relogio, soltas>>

-----------------------------------------------------------------------------
(* The other handlers that write lives. *)

(* POST /v1/lives/manual: a live that is inserted already closed. *)
CriarLiveManual(l, c, cli) ==
  /\ lives[l].status = "ausente"
  /\ lives' = [lives EXCEPT ![l] = [LiveNova EXCEPT !.status = "encerrada",
                                                    !.cabine_id = c,
                                                    !.cliente_id = cli]]
  /\ UNCHANGED <<cabines, ativos, horas, agenda, aprovadas, leitor, aprovacao,
                 coleta, hoje, relogio, soltas>>

(* PATCH /v1/lives/:id: a closed live may be moved to another cabine. *)
EditarLive(l, c) ==
  /\ lives[l].status = "encerrada"
  /\ lives' = [lives EXCEPT ![l].cabine_id = c]
  /\ UNCHANGED <<cabines, ativos, horas, agenda, aprovadas, leitor, aprovacao,
                 coleta, hoje, relogio, soltas>>

(* DELETE /v1/lives/:id: the foreign key of cabines.live_atual_id is ON DELETE SET *)
(* NULL, and the cabine's status is left alone.                                    *)
ExcluirLive(l) ==
  /\ lives[l].status = "encerrada"
  /\ lives' = [lives EXCEPT ![l].status = "excluida"]
  /\ cabines' = [c \in Cabines |->
                   IF cabines[c].live_atual_id = l
                   THEN [cabines[c] EXCEPT !.live_atual_id = NULL]
                   ELSE cabines[c]]
  /\ UNCHANGED <<ativos, horas, agenda, aprovadas, leitor, aprovacao,
                 coleta, hoje, relogio, soltas>>

-----------------------------------------------------------------------------
(* The handlers of cabines.js *)

(* PATCH /v1/cabines/:id/reservar.  A contract named in the body must be active and *)
(* on no other cabine; one found through the client is linked under the same        *)
(* conditions, and the cabine is reserved without it when they fail.                *)
ContratoLivre(k, c) == \A d \in Cabines \ {c} : cabines[d].contrato_id # k

ReservarCabine(c, k, cli) ==
  /\ cabines[c].status = "disponivel"
  /\ cabines[c].live_atual_id = NULL
  /\ k # NULL => k \in ativos /\ ContratoLivre(k, c)
  /\ \E escolhido \in IF k # NULL THEN {k} ELSE UmDe(AtivosDe(cli)) :
       cabines' = [cabines EXCEPT
                     ![c] = [status |-> "reservada", live_atual_id |-> NULL,
                             contrato_id |-> IF ContratoLivre(escolhido, c)
                                             THEN escolhido ELSE NULL]]
  /\ UNCHANGED <<lives, ativos, horas, agenda, aprovadas, leitor, aprovacao,
                 coleta, hoje, relogio, soltas>>

(* PATCH /v1/cabines/:id/liberar: allowed, with a warning, while a live runs. *)
LiberarCabine(c) ==
  /\ cabines' = [cabines EXCEPT ![c] = [status |-> "disponivel", contrato_id |-> NULL,
                                        live_atual_id |-> NULL]]
  /\ soltas' = Solta(c)
  /\ UNCHANGED <<lives, ativos, horas, agenda, aprovadas, leitor, aprovacao,
                 coleta, hoje, relogio>>

(* Mutant: the refusal to change a cabine on the air is dropped. *)
MutMudarStatus(c, s) ==
  /\ cabines' = [cabines EXCEPT ![c].status = s]
  /\ UNCHANGED <<lives, ativos, horas, agenda, aprovadas, leitor, aprovacao,
                 coleta, hoje, relogio, soltas>>

(* PATCH /v1/cabines/:id/status: 'ativa' is accepted by the schema of the request *)
(* and then refused by the CHECK of the table, which rolls back.                  *)
MudarStatus(c, s) ==
  /\ cabines[c].status # "ao_vivo"
  /\ cabines[c].live_atual_id = NULL
  /\ cabines' = [cabines EXCEPT ![c].status = s]
  /\ UNCHANGED <<lives, ativos, horas, agenda, aprovadas, leitor, aprovacao,
                 coleta, hoje, relogio, soltas>>

(* GET /v1/cabines/:id/live-atual, first statement: the cabine's row. *)
LerCabine(r, c) ==
  /\ leitor[r].passo = "livre"
  /\ leitor' = [leitor EXCEPT ![r] = [passo |-> "leu", cabine |-> c,
                                      status |-> cabines[c].status,
                                      live_atual_id |-> cabines[c].live_atual_id,
                                      achada |-> NULL]]
  /\ UNCHANGED <<cabines, lives, ativos, horas, agenda, aprovadas, aprovacao,
                 coleta, hoje, relogio, soltas>>

(* Second statement: the latest live in progress on that cabine. *)
BuscarLive(r) ==
  /\ leitor[r].passo = "leu"
  /\ \E l \in UmDe({m \in EmAndamento(leitor[r].cabine) :
                      \A n \in EmAndamento(leitor[r].cabine) :
                        lives[n].inicio <= lives[m].inicio}) :
       leitor' = [leitor EXCEPT ![r] = [@ EXCEPT !.passo = "buscou", !.achada = l]]
  /\ UNCHANGED <<cabines, lives, ativos, horas, agenda, aprovadas, aprovacao,
                 coleta, hoje, relogio, soltas>>

(* Third statement: the repair decided from the two reads, written without a lock. *)
(* The foreign key refuses a live deleted since.                                   *)
PrecisaCorrigir(r) ==
  IF leitor[r].achada = NULL
  THEN leitor[r].status = "ao_vivo" \/ leitor[r].live_atual_id # NULL
  ELSE leitor[r].status # "ao_vivo" \/ leitor[r].live_atual_id # leitor[r].achada

CorrigirCabine(r) ==
  LET c == leitor[r].cabine
      l == leitor[r].achada
      grava == PrecisaCorrigir(r) /\ (l # NULL => lives[l].status # "excluida")
  IN /\ leitor[r].passo = "buscou"
     /\ leitor' = [leitor EXCEPT ![r] = LeitorLivre]
     /\ IF grava
        THEN /\ cabines' = [cabines EXCEPT
                              ![c] = [status |-> IF l = NULL THEN "disponivel" ELSE "ao_vivo",
                                      contrato_id |-> @.contrato_id,
                                      live_atual_id |-> l]]
             /\ soltas' = IF cabines[c].live_atual_id = l THEN soltas ELSE Solta(c)
        ELSE UNCHANGED <<cabines, soltas>>
     /\ UNCHANGED <<lives, ativos, horas, agenda, aprovadas, aprovacao, coleta, hoje, relogio>>

-----------------------------------------------------------------------------
(* pollAllTenants of services/tiktok.js, run every minute by server.js.  When the *)
(* API says, or fails to say, that the tenant is off the air, it ends one live of *)
(* the tenant in three autocommitted statements.                                  *)

(* SELECT ... WHERE status = 'em_andamento' LIMIT 1, in no order. *)
EscolherLive(t) ==
  /\ coleta[t].passo = "livre"
  /\ \E l \in Lives :
       /\ lives[l].status = "em_andamento"
       /\ coleta' = [coleta EXCEPT ![t] = [passo |-> "escolheu", live |-> l]]
  /\ UNCHANGED <<cabines, lives, ativos, horas, agenda, aprovadas, leitor, aprovacao,
                 hoje, relogio, soltas>>

(* UPDATE lives, by id alone: one ended since is ended again, one deleted is not there. *)
FinalizarLive(t) ==
  /\ coleta[t].passo = "escolheu"
  /\ coleta' = [coleta EXCEPT ![t] = [@ EXCEPT !.passo = "finalizou"]]
  /\ lives' = IF lives[coleta[t].live].status = "excluida"
              THEN lives ELSE [lives EXCEPT ![coleta[t].live].status = "encerrada"]
  /\ UNCHANGED <<cabines, ativos, horas, agenda, aprovadas, leitor, aprovacao,
                 hoje, relogio, soltas>>

(* Mutant: the cabine is found by the live's own column, whatever it shows now. *)
MutMostra(c, l) == lives[l].cabine_id = c

Mostra(c, l) == cabines[c].live_atual_id = l

(* UPDATE cabines WHERE live_atual_id is that live: the contract stays on the row, *)
(* no hours are charged and no event is concluded.                                 *)
DesvincularCabine(t) ==
  /\ coleta[t].passo = "finalizou"
  /\ coleta' = [coleta EXCEPT ![t] = ColetaLivre]
  /\ cabines' = [c \in Cabines |->
                   IF Mostra(c, coleta[t].live)
                   THEN [cabines[c] EXCEPT !.status = "disponivel", !.live_atual_id = NULL]
                   ELSE cabines[c]]
  /\ UNCHANGED <<lives, ativos, horas, agenda, aprovadas, leitor, aprovacao,
                 hoje, relogio, soltas>>

-----------------------------------------------------------------------------
(* Contracts: the handlers of contratos.js and of the audit service, seen through *)
(* the one distinction the cabines make, and the trigger of migration 017.        *)

AtivarContrato(k) ==
  /\ ativos' = ativos \cup {k}
  /\ UNCHANGED <<cabines, lives, horas, agenda, aprovadas, leitor, aprovacao,
                 coleta, hoje, relogio, soltas>>

(* Mutant: the trigger is gone. *)
MutSemTrigger(c, k) == FALSE

(* Mutant: the trigger does not look at the cabine's status. *)
MutTriggerSemStatus(c, k) == cabines[c].contrato_id = k

(* sync_cabines_when_contrato_leaves_active: frees the cabines reserved for the    *)
(* contract; a cabine on the air, available or in maintenance keeps the reference. *)
LiberadaPeloTrigger(c, k) == cabines[c].contrato_id = k /\ cabines[c].status = "reservada"

DesativarContrato(k) ==
  /\ k \in ativos
  /\ ativos' = ativos \ {k}
  /\ cabines' = [c \in Cabines |->
                   IF LiberadaPeloTrigger(c, k)
                   THEN [status |-> "disponivel", contrato_id |-> NULL,
                         live_atual_id |-> NULL]
                   ELSE cabines[c]]
  /\ UNCHANGED <<lives, horas, agenda, aprovadas, leitor, aprovacao,
                 coleta, hoje, relogio, soltas>>

-----------------------------------------------------------------------------
(* Requests: the handlers of solicitacoes.js *)

(* POST /v1/solicitacoes inserts an approved request and reserves nothing. *)
CriarSolicitacao(p) ==
  /\ p \notin aprovadas
  /\ \A a \in Aprovadores : aprovacao[a].pedido # p
  /\ aprovadas' = aprovadas \cup {p}
  /\ UNCHANGED <<cabines, lives, ativos, horas, agenda, leitor, aprovacao,
                 coleta, hoje, relogio, soltas>>

(* PATCH aprovar up to the read of the client's active contract: the request is *)
(* locked, the contract is not.                                                 *)
LerAprovacao(a, p) ==
  /\ aprovacao[a] = SemAprovacao
  /\ p \notin aprovadas
  /\ \A b \in Aprovadores : aprovacao[b].pedido # p
  /\ \E k \in AtivosDe(p.cliente_id) :
       aprovacao' = [aprovacao EXCEPT ![a] = [pedido |-> p, contrato |-> k]]
  /\ UNCHANGED <<cabines, lives, ativos, horas, agenda, aprovadas, leitor,
                 coleta, hoje, relogio, soltas>>

(* The rest of it: the request is approved and the cabine, if available, reserved. *)
GravarAprovacao(a) ==
  LET p == aprovacao[a].pedido
  IN /\ p # NULL
     /\ aprovadas' = aprovadas \cup {p}
     /\ cabines' = IF cabines[p.cabine_id].status = "disponivel"
                   THEN [cabines EXCEPT
                           ![p.cabine_id] = [@ EXCEPT !.status = "reservada",
                                                      !.contrato_id = aprovacao[a].contrato]]
                   ELSE cabines
     /\ aprovacao' = [aprovacao EXCEPT ![a] = SemAprovacao]
     /\ UNCHANGED <<lives, ativos, horas, agenda, leitor, coleta, hoje, relogio, soltas>>

-----------------------------------------------------------------------------
(* Agenda: the handlers of agenda.js, and the passing of days. *)

(* POST /v1/agenda: an overlap is reported and the event created all the same. *)
CriarEvento(e, c, cli, s, d) ==
  /\ agenda[e].status = "ausente"
  /\ agenda' = [agenda EXCEPT ![e] = [status |-> s, cabine_id |-> c,
                                      cliente_id |-> cli, dia |-> d, live |-> NULL]]
  /\ UNCHANGED <<cabines, lives, ativos, horas, aprovadas, leitor, aprovacao,
                 coleta, hoje, relogio, soltas>>

(* PATCH and DELETE /v1/agenda/:id: any column by hand.  The live that put the event on *)
(* the air is no longer what its status comes from.  The occurrences of a series are    *)
(* edited by a second statement, which is as many edits.                                *)
EditarEvento(e, c, cli, s, d) ==
  /\ agenda[e].status # "ausente"
  /\ agenda' = [agenda EXCEPT ![e] = [status |-> s, cabine_id |-> c,
                                      cliente_id |-> cli, dia |-> d, live |-> NULL]]
  /\ UNCHANGED <<cabines, lives, ativos, horas, aprovadas, leitor, aprovacao,
                 coleta, hoje, relogio, soltas>>

PassarDia ==
  /\ hoje < MaxDia
  /\ hoje' = hoje + 1
  /\ UNCHANGED <<cabines, lives, ativos, horas, agenda, aprovadas, leitor, aprovacao,
                 coleta, relogio, soltas>>

-----------------------------------------------------------------------------
LiveStep ==
  \/ \E c \in Cabines, l \in Lives, tipo \in Tipos :
     \E cli \in Clientes \cup {NULL}, e \in Eventos \cup {NULL} :
       IniciarLive(c, l, tipo, cli, e)
  \/ \E l \in Lives : EncerrarLive(l)
  \/ \E l \in Lives, c \in Cabines, cli \in Clientes \cup {NULL} : CriarLiveManual(l, c, cli)
  \/ \E l \in Lives, c \in Cabines : EditarLive(l, c)
  \/ \E l \in Lives : ExcluirLive(l)

CabineStep ==
  \/ \E c \in Cabines, k \in Contratos \cup {NULL}, cli \in Clientes \cup {NULL} :
       ReservarCabine(c, k, cli)
  \/ \E c \in Cabines : LiberarCabine(c)
  \/ \E c \in Cabines, s \in {"disponivel", "manutencao"} : MudarStatus(c, s)
  \/ \E r \in Leitores, c \in Cabines : LerCabine(r, c)
  \/ \E r \in Leitores : BuscarLive(r)
  \/ \E r \in Leitores : CorrigirCabine(r)

ColetaStep == \E t \in Coletas : EscolherLive(t) \/ FinalizarLive(t) \/ DesvincularCabine(t)

ContratoStep ==
  \/ \E k \in Contratos : AtivarContrato(k)
  \/ \E k \in Contratos : DesativarContrato(k)

SolicitacaoStep ==
  \/ \E p \in Pedidos : CriarSolicitacao(p)
  \/ \E a \in Aprovadores, p \in Pedidos : LerAprovacao(a, p)
  \/ \E a \in Aprovadores : GravarAprovacao(a)

AgendaStep ==
  \/ \E e \in Eventos, c \in Cabines \cup {NULL}, cli \in Clientes \cup {NULL} :
     \E s \in EventoStatus \ {"ausente"}, d \in Dias :
       CriarEvento(e, c, cli, s, d) \/ EditarEvento(e, c, cli, s, d)
  \/ PassarDia

Next == LiveStep \/ CabineStep \/ ColetaStep \/ ContratoStep \/ SolicitacaoStep \/ AgendaStep

Spec == Init /\ [][Next]_vars

-----------------------------------------------------------------------------
(* Properties *)

(* A cabine linked to a live is on the air, and the live exists: reservar, liberar,  *)
(* encerrar, the contract trigger, the approval and the repair by live-atual write   *)
(* status and live_atual_id from different reads, yet never leave a link behind on a *)
(* cabine that can be reserved or put in maintenance.                                *)
LinkEstaAoVivo ==
  \A c \in Cabines : cabines[c].live_atual_id # NULL =>
    /\ cabines[c].status = "ao_vivo"
    /\ lives[cabines[c].live_atual_id].status \in {"em_andamento", "encerrada"}

(* A running live is never shown on a cabine it was not started on. *)
LiveNaSuaCabine ==
  \A c \in Cabines : \A l \in Lives :
    cabines[c].live_atual_id = l /\ lives[l].status = "em_andamento"
      => lives[l].cabine_id = c

(* Every running live is the one its cabine points to, hence alone on it, unless that *)
(* cabine was released on the air or repaired by a stale live-atual: no other handler *)
(* loses a running live or starts a second one.                                       *)
LiveLigada ==
  \A c \in Cabines \ soltas : \A l \in EmAndamento(c) : cabines[c].live_atual_id = l

(* The contract of a running live, once resolved by its start, stays on the cabine: *)
(* no reservation, approval or trigger replaces it under the live.                  *)
ContratoDaLivePreservado ==
  \A c \in Cabines \ soltas : \A l \in EmAndamento(c) :
    lives[l].contrato # NULL => cabines[c].contrato_id = lives[l].contrato

ReservaInativa(c) ==
  /\ cabines[c].status = "reservada" /\ cabines[c].contrato_id # NULL
  /\ cabines[c].contrato_id \notin ativos

(* A cabine comes to be reserved for a contract that is not active only by an approval *)
(* that had read that contract: whatever order the contract's own handlers and the     *)
(* cabine's run in, the trigger and the checks of reservar leave no other way.         *)
ReservaInativaSoPorAprovacao ==
  [][\A c \in Cabines : ReservaInativa(c)' /\ ~ReservaInativa(c) =>
       \E a \in Aprovadores :
         /\ aprovacao[a].pedido # NULL /\ aprovacao[a].pedido.cabine_id = c
         /\ aprovacao[a].contrato = cabines'[c].contrato_id
         /\ aprovacao'[a] = SemAprovacao]_vars

(* The hours of a live are added to the contract its start resolved, when its end also *)
(* releases its cabine: the poll of the TikTok API, which ends the live first, charges *)
(* nothing.                                                                            *)
HorasDoContratoInicial ==
  [][\A l \in Lives :
       /\ lives[l].status = "em_andamento" /\ lives'[l].status = "encerrada"
       /\ cabines'[lives[l].cabine_id].live_atual_id = NULL
       /\ lives[l].cabine_id \notin soltas /\ lives[l].contrato # NULL
       => horas'[l] = lives[l].contrato]_vars

(* An event put on the air by a live of its own cabine is concluded only when that *)
(* live ends, or by hand: the end of no other live concludes it.                   *)
EventoSegueSuaLive ==
  [][\A e \in Eventos : \A l \in Lives :
       /\ agenda[e].status = "ao_vivo" /\ agenda[e].live = l
       /\ lives[l].status = "em_andamento" /\ agenda[e].cabine_id = lives[l].cabine_id
       /\ lives[l].cabine_id \notin soltas
       /\ agenda'[e].status # "ao_vivo" /\ agenda'[e].live = l
       => lives'[l].status = "encerrada"]_vars
=============================================================================
