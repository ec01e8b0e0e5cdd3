----------------------------- MODULE Pagamentos -----------------------------
(***************************************************************************)
(* The payment of boletos: the webhooks of the two gateways with their     *)
(* replay protection, payments by hand, the jobs that mark boletos overdue *)
(* and remind of them, and the mailer with its log.                        *)
(*                                                                         *)
(* Every statement of a webhook autocommits, and so does every statement   *)
(* of the mailer; the gateway repeats an event until it is answered 200.   *)
(* A boleto exists at the gateway from the charge on, here only once the   *)
(* round that charged it commits.  References are unique: the answer 409   *)
(* to one that two tenants share is left out.                              *)
(***************************************************************************)
EXTENDS Naturals, FiniteSets

CONSTANTS
  Boletos,      \* rows of boletos
  Entregas,     \* bound: webhook requests in flight, the e-mail after them included
  Instancias,   \* server processes that run the jobs
  MaxFalhas,    \* bound: failures of the database, the mailer or a process
  NULL

ASSUME ConstantesAssumption ==
  /\ MaxFalhas \in Nat
  /\ NULL \notin Boletos
  /\ IsFiniteSet(Instancias)

VARIABLES
  boletos,      \* status of each row, and the gateway it was charged at
  gateway,      \* what the gateway knows of the charge
  replay,       \* WEBHOOK_REPLAY_PROTECTION
  semId,        \* events carry no id of their own: the nonce is the order's
  nonces,       \* webhook_replay_log
  entregues,    \* events the gateway need not repeat
  entregas,     \* webhook requests in flight
  avisos,       \* e-mails 'boleto_pago' that left
  lembretes,    \* e-mails 'boleto_vencido' that left
  registros,    \* notification_log: boletos with an e-mail 'boleto_vencido' sent
  rodadas,      \* the reminder job of each instance
  falhas,       \* bound: failures so far
  perdidos,     \* history: events answered 200 without effect
  lapsos        \* history: times the log could not keep a reminder from being repeated

vars == <<boletos, gateway, replay, semId, nonces, entregues, entregas, avisos, lembretes,
          registros, rodadas, falhas, perdidos, lapsos>>

webhook == <<replay, semId, nonces, entregues, entregas, perdidos>>

correio == <<avisos, lembretes, registros, rodadas, lapsos>>

(* 'pago' stands for the four events of appmax.js:121-124 and the status 'paid' of the  *)
(* other gateway; 'outro' for any event about the same order.                           *)
Eventos == Boletos \X {"pago", "outro"}

Nonces == Eventos \cup Boletos

BoletoRow == [status: {"ausente", "pendente", "vencido", "pago"}, via: {"appmax", "pagarme"}]

EntregaRow == [pc: {"livre", "processar", "quitar", "avisar"}, evento: Eventos \cup {NULL}]

RodadaRow == [fila: SUBSET Boletos, atual: Boletos \cup {NULL}]

TypeOK ==
  /\ boletos \in [Boletos -> BoletoRow]
  /\ gateway \in [Boletos -> {"nenhum", "cobrado", "pago"}]
  /\ replay \in BOOLEAN /\ semId \in BOOLEAN
  /\ nonces \subseteq Nonces
  /\ entregues \subseteq Eventos
  /\ entregas \in [Entregas -> EntregaRow]
  /\ avisos \in [Boletos -> Nat]
  /\ lembretes \in [Boletos -> Nat]
  /\ registros \subseteq Boletos
  /\ rodadas \in [Instancias -> RodadaRow]
  /\ falhas \in 0..MaxFalhas
  /\ perdidos \subseteq Eventos
  /\ lapsos \in [Boletos -> Nat]

Livre == [pc |-> "livre", evento |-> NULL]

Parada == [fila |-> {}, atual |-> NULL]

Init ==
  /\ boletos \in [Boletos -> [status: {"ausente"}, via: {"appmax", "pagarme"}]]
  /\ gateway = [b \in Boletos |-> "nenhum"]
  /\ replay \in BOOLEAN /\ semId \in BOOLEAN
  /\ nonces = {} /\ entregues = {} /\ perdidos = {}
  /\ entregas = [d \in Entregas |-> Livre]
  /\ avisos = [b \in Boletos |-> 0] /\ lembretes = [b \in Boletos |-> 0]
  /\ registros = {} /\ lapsos = [b \in Boletos |-> 0]
  /\ rodadas = [i \in Instancias |-> Parada]
  /\ falhas = 0

Falha == falhas < MaxFalhas /\ falhas' = falhas + 1

Existe(b) == boletos[b].status # "ausente"

(* Mutant: without "status != 'pago'". *)
MutNaoPago(b) == Existe(b)

NaoPago(b) == boletos[b].status \in {"pendente", "vencido"}

(* Mutant: the gateway's own word for the status. *)
MutQuitar(b) == boletos' = [boletos EXCEPT ![b].status = "paid"]

Quitar(b) == boletos' = [boletos EXCEPT ![b].status = "pago"]

-----------------------------------------------------------------------------
(* The charge, its COMMIT, and the customer. *)

Cobrar(b) ==
  /\ gateway[b] = "nenhum"
  /\ gateway' = [gateway EXCEPT ![b] = "cobrado"]
  /\ UNCHANGED <<boletos, falhas>> /\ UNCHANGED webhook /\ UNCHANGED correio

Confirmar(b) ==
  /\ gateway[b] # "nenhum"
  /\ ~Existe(b)
  /\ boletos' = [boletos EXCEPT ![b].status = "pendente"]
  /\ UNCHANGED <<gateway, falhas>> /\ UNCHANGED webhook /\ UNCHANGED correio

PagarNoGateway(b) ==
  /\ gateway[b] = "cobrado"
  /\ gateway' = [gateway EXCEPT ![b] = "pago"]
  /\ UNCHANGED <<boletos, falhas>> /\ UNCHANGED webhook /\ UNCHANGED correio

(* PATCH /v1/boletos/:id/pagar: no e-mail. *)
PagarPorMao(b) ==
  /\ NaoPago(b)
  /\ Quitar(b)
  /\ UNCHANGED <<gateway, falhas>> /\ UNCHANGED webhook /\ UNCHANGED correio

(* server.js, 01:00. *)
Vencer(b) ==
  /\ boletos[b].status = "pendente"
  /\ boletos' = [boletos EXCEPT ![b].status = "vencido"]
  /\ UNCHANGED <<gateway, falhas>> /\ UNCHANGED webhook /\ UNCHANGED correio

-----------------------------------------------------------------------------
(* The webhooks. *)

Emitido(e) == IF e[2] = "pago" THEN gateway[e[1]] = "pago" ELSE gateway[e[1]] # "nenhum"

(* appmaxEventNonce falls back to the id of the order; the other gateway has the status  *)
(* in its nonce.                                                                         *)
Nonce(e) == IF semId /\ boletos[e[1]].via = "appmax" THEN e[1] ELSE e

EmCurso(e, exceto) == \E d \in Entregas \ exceto : entregas[d].pc \in {"processar", "quitar"} /\ entregas[d].evento = e

Repetido(e) == replay /\ Nonce(e) \in nonces

(* A replay is answered 200 at once: lost, if the first delivery is over and did nothing. *)
ResponderRepetido(e) ==
  /\ Emitido(e)
  /\ e \notin entregues
  /\ Repetido(e)
  /\ entregues' = entregues \cup {e}
  /\ perdidos' = IF EmCurso(e, {}) \/ boletos[e[1]].status = "pago" THEN perdidos ELSE perdidos \cup {e}
  /\ UNCHANGED <<boletos, gateway, replay, semId, nonces, entregas, falhas>> /\ UNCHANGED correio

ReceberEvento(d, e) ==
  /\ entregas[d].pc = "livre"
  /\ Emitido(e)
  /\ e \notin entregues
  /\ ~Repetido(e)
  /\ nonces' = IF replay THEN nonces \cup {Nonce(e)} ELSE nonces
  /\ entregas' = [entregas EXCEPT ![d] = [pc |-> "processar", evento |-> e]]
  /\ UNCHANGED <<boletos, gateway, replay, semId, entregues, falhas, perdidos>> /\ UNCHANGED correio

Seguir(d, pc) == entregas' = [entregas EXCEPT ![d] = IF pc = "livre" THEN Livre ELSE [@ EXCEPT !.pc = pc]]

(* Mutant: an error is answered 200. *)
MutResponderErro(d) == entregues' = entregues \cup {entregas[d].evento} /\ UNCHANGED perdidos

(* 500, or no answer: the gateway will repeat, unless a replay has been answered already. *)
ResponderErro(d) ==
  LET e == entregas[d].evento IN
  /\ perdidos' = IF e \in entregues /\ ~EmCurso(e, {d}) /\ boletos[e[1]].status # "pago"
                 THEN perdidos \cup {e} ELSE perdidos
  /\ UNCHANGED entregues

(* The boleto is looked up.  Without a row Appmax is answered 200, the other one 404. *)
Localizar(d) ==
  LET e == entregas[d].evento IN
  /\ entregas[d].pc = "processar"
  /\ \/ e[2] = "pago" /\ Existe(e[1]) /\ Seguir(d, "quitar") /\ UNCHANGED <<entregues, perdidos>>
     \/ e[2] = "outro" /\ Seguir(d, "livre") /\ entregues' = entregues \cup {e} /\ UNCHANGED perdidos
     \/ /\ e[2] = "pago" /\ ~Existe(e[1])
        /\ Seguir(d, "livre")
        /\ IF boletos[e[1]].via = "appmax"
           THEN entregues' = entregues \cup {e} /\ perdidos' = perdidos \cup {e}
           ELSE ResponderErro(d)
  /\ UNCHANGED <<boletos, gateway, replay, semId, nonces, falhas>> /\ UNCHANGED correio

(* UPDATE ... RETURNING: only the delivery whose UPDATE found the boleto unpaid goes on to *)
(* the e-mail; the gateway has its 200 before that.                                        *)
QuitarPeloWebhook(d) ==
  LET e == entregas[d].evento IN
  /\ entregas[d].pc = "quitar"
  /\ IF NaoPago(e[1]) THEN Quitar(e[1]) /\ Seguir(d, "avisar") ELSE UNCHANGED boletos /\ Seguir(d, "livre")
  /\ entregues' = entregues \cup {e}
  /\ UNCHANGED <<gateway, replay, semId, nonces, falhas, perdidos>> /\ UNCHANGED correio

FalharEntrega(d) ==
  /\ entregas[d].pc \in {"processar", "quitar"}
  /\ Falha
  /\ Seguir(d, "livre")
  /\ ResponderErro(d)
  /\ UNCHANGED <<boletos, gateway, replay, semId, nonces>> /\ UNCHANGED correio

(* The e-mail after the answer leaves, or is given up: no address, flags, provider error. *)
AvisarPagamento(d) ==
  /\ entregas[d].pc = "avisar"
  /\ \/ avisos' = [avisos EXCEPT ![entregas[d].evento[1]] = @ + 1]
     \/ UNCHANGED avisos
  /\ Seguir(d, "livre")
  /\ UNCHANGED <<boletos, gateway, replay, semId, nonces, entregues, falhas, perdidos>>
  /\ UNCHANGED <<lembretes, registros, rodadas, lapsos>>

-----------------------------------------------------------------------------
(* notifyBoletosVencidos: one SELECT, then the mailer for each row, which looks at the   *)
(* log again (hasSent), sends, and logs what it sent, each in a statement of its own.    *)

SelecionarVencidos(i) ==
  LET fila == {b \in Boletos : boletos[b].status = "vencido" /\ b \notin registros} IN
  /\ rodadas[i] = Parada
  /\ fila # {}
  /\ rodadas' = [rodadas EXCEPT ![i].fila = fila]
  /\ UNCHANGED <<boletos, gateway, falhas, avisos, lembretes, registros, lapsos>> /\ UNCHANGED webhook

Lapso(b) == lapsos' = [lapsos EXCEPT ![b] = @ + 1]

EmMaos(j, b) == rodadas[j].atual = b

(* Mutant: the mailer does not look at the log. *)
MutJaEnviado(b) == FALSE

JaEnviado(b) == b \in registros

(* hasSent answers what the log has, or, when it fails, that nothing was sent.  It cannot *)
(* see what another instance is about to send.                                            *)
ConsultarLog(i, b) ==
  LET repetido == \E j \in Instancias \ {i} : EmMaos(j, b)
      Seguinte(x) == rodadas' = [rodadas EXCEPT ![i] = [fila |-> @.fila \ {b}, atual |-> x]]
  IN  /\ rodadas[i].atual = NULL
      /\ b \in rodadas[i].fila
      /\ \/ JaEnviado(b) /\ Seguinte(NULL) /\ UNCHANGED <<falhas, lapsos>>
         \/ /\ ~JaEnviado(b) /\ Seguinte(b) /\ UNCHANGED falhas
            /\ IF repetido THEN Lapso(b) ELSE UNCHANGED lapsos
         \/ /\ Falha /\ Seguinte(b)
            /\ IF repetido \/ b \in registros THEN Lapso(b) ELSE UNCHANGED lapsos
      /\ UNCHANGED <<boletos, gateway, avisos, lembretes, registros>> /\ UNCHANGED webhook

(* The e-mail leaves and is logged, or the provider refuses it, or it leaves and the log *)
(* fails, which the mailer swallows.                                                     *)
Lembrar(i) ==
  LET b == rodadas[i].atual IN
  /\ b # NULL
  /\ rodadas' = [rodadas EXCEPT ![i].atual = NULL]
  /\ \/ /\ lembretes' = [lembretes EXCEPT ![b] = @ + 1]
        /\ registros' = registros \cup {b}
        /\ UNCHANGED <<falhas, lapsos>>
     \/ Falha /\ UNCHANGED <<lembretes, registros, lapsos>>
     \/ /\ Falha
        /\ lembretes' = [lembretes EXCEPT ![b] = @ + 1]
        /\ Lapso(b)
        /\ UNCHANGED registros
  /\ UNCHANGED <<boletos, gateway, avisos>> /\ UNCHANGED webhook

-----------------------------------------------------------------------------
Passo(d) == Localizar(d) \/ QuitarPeloWebhook(d) \/ AvisarPagamento(d)

Receber(e) == ResponderRepetido(e) \/ \E d \in Entregas : ReceberEvento(d, e)

Next ==
  \/ \E b \in Boletos : Cobrar(b) \/ Confirmar(b) \/ PagarNoGateway(b) \/ PagarPorMao(b) \/ Vencer(b)
  \/ \E e \in Eventos : Receber(e)
  \/ \E d \in Entregas : Passo(d) \/ FalharEntrega(d)
  \/ \E i \in Instancias :
       SelecionarVencidos(i) \/ (\E b \in Boletos : ConsultarLog(i, b)) \/ Lembrar(i)

Spec == Init /\ [][Next]_vars

(* A handler that runs comes to an end, and the gateway repeats an event until it is    *)
(* answered 200.                                                                        *)
Fairness ==
  /\ \A d \in Entregas : WF_vars(Passo(d))
  /\ \A e \in Eventos : SF_vars(Receber(e))

FairSpec == Spec /\ Fairness

-----------------------------------------------------------------------------
(* The boletos, seen by their clients, are those of Quitacao: webhooks that overlap, come *)
(* twice, fail half way and are repeated, payments by hand in between, and the overdue    *)
(* job never undo a payment and never announce one twice.                                 *)
Q == INSTANCE Quitacao WITH
       pagos <- {b \in Boletos : boletos[b].status = "pago"}, avisos <- avisos

Quita == Q!Spec

(* A payment at the gateway of a boleto that exists here is recorded in the end, whatever *)
(* fails, as long as no event of it has been answered 200 without effect: that happens to *)
(* an event that arrives before the COMMIT of the charge (appmax.js:201), to one whose    *)
(* first delivery fails after its nonce was stored (appmax.js:100), and to one that has   *)
(* the nonce of another event of the order (appmax.js:13).                                *)
PagamentoReconhecido ==
  \A b \in Boletos :
    (gateway[b] = "pago" /\ Existe(b)) ~> (boletos[b].status = "pago" \/ <<b, "pago">> \in perdidos)

(* A client is reminded once of an overdue boleto, and once more for every lapse of the   *)
(* log: a reminder that was not logged, a lookup that failed (mailer.js:94) for a boleto  *)
(* logged or in hand elsewhere, a lookup made while another instance had it in hand.      *)
(* Nothing else repeats one, however the two jobs select, look up, send and log.          *)
LembreteUnico == \A b \in Boletos : lembretes[b] <= 1 + lapsos[b]
=============================================================================
