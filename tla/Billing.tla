------------------------------- MODULE Billing -------------------------------
(***************************************************************************)
(* The fortnightly billing of one tenant: the cron of every server         *)
(* instance, the advisory lock, the transaction that turns ended lives and *)
(* active contracts into boletos, and the charge made at the payment       *)
(* gateway inside that transaction.                                        *)
(*                                                                         *)
(* What the open transaction has written stays in the row of its instance  *)
(* until the COMMIT; what it asked of the gateway happens at once.  A      *)
(* fortnight is a number: the lives of fortnight q are billed on the first *)
(* day of q + 1, and even fortnights start on day 1 of a month.  An amount *)
(* matters only for being zero or not.                                     *)
(***************************************************************************)
EXTENDS Naturals, FiniteSets

CONSTANTS
  Lives,            \* ids that rows of lives can take
  Clientes,         \* rows of clientes
  Instancias,       \* server processes that run the cron
  ComFixo,          \* clients whose active contract has a fixed amount
  MaxQuinzena,      \* bound: fortnights the clock runs through
  Eventualidades,   \* what may happen besides the normal run, see below
  NULL

(* 'banco': a statement or the COMMIT fails; 'queda': an instance dies, or is down when *)
(* the cron should fire; 'gateway': the order is refused; 'atraso': a live is entered   *)
(* by hand for an earlier fortnight; 'edicao': a live is edited; 'sem_cliente': a live  *)
(* entered by hand has no client.                                                       *)
EventualidadesPossiveis == {"banco", "queda", "gateway", "atraso", "edicao", "sem_cliente"}

ASSUME ConstantesAssumption ==
  /\ ComFixo \subseteq Clientes
  /\ Instancias # {}
  /\ MaxQuinzena \in Nat \ {0}
  /\ Eventualidades \subseteq EventualidadesPossiveis
  /\ NULL \notin Lives \cup Clientes \cup Instancias
  /\ NULL \notin Clientes \X Nat

VARIABLES
  lives,        \* row per live
  boletos,      \* row per idempotency key
  trava,        \* the instance that holds the advisory lock
  instancia,    \* per instance: where its run is and what its transaction holds
  presas,       \* instances that have left _billingRunning set
  quinzena,     \* the fortnight of NOW()
  cobrancas,    \* orders that exist at the gateway
  desfechos     \* history: how the round of each instance about a fortnight ended

vars == <<lives, boletos, trava, instancia, quinzena, cobrancas, desfechos, presas>>

Quinzenas == 1..MaxQuinzena

(* idempotency_key: the client and the title of the invoice, one per fortnight. *)
Chaves == Clientes \X Quinzenas

(* An order names the row it was made for; a new transaction inserts a new row. *)
Cobrancas == Clientes \X Quinzenas \X Instancias

LiveRow == [status: {"ausente", "encerrada", "excluida"}, cliente_id: Clientes \cup {NULL},
            quinzena: Quinzenas, comissao: BOOLEAN, boleto: Chaves \cup {NULL},
            atrasada: BOOLEAN]   \* history: last written after its fortnight was over

(* 'autor' stands for the row id; 'lives', a history, for what the amount is made of.   *)
(* What becomes of a boleto once it is there is of no matter to a round: see Pagamentos. *)
BoletoRow == [status: {"ausente", "pendente"}, autor: Instancias \cup {NULL}, lives: SUBSET Lives]

(* 'perdida': rolled back, or never begun. *)
Desfecho == {"nenhum", "gravada", "perdida"}

LinhaLida == [id: Lives, cliente_id: Clientes \cup {NULL}, comissao: BOOLEAN]

InstanciaRow == [passo: {"espera", "abriu", "faturando", "cobrando", "pronto"},
                 lidas: SUBSET LinhaLida,                  \* the rows the SELECT returned
                 pendentes: SUBSET (Clientes \cup {NULL}), \* clients the loop has not reached
                 cliente: Clientes \cup {NULL},            \* client being charged
                 inseridos: SUBSET Clientes]               \* boletos not committed yet

TypeOK ==
  /\ lives \in [Lives -> LiveRow]
  /\ boletos \in [Chaves -> BoletoRow]
  /\ trava \in Instancias \cup {NULL}
  /\ instancia \in [Instancias -> InstanciaRow]
  /\ quinzena \in Quinzenas
  /\ cobrancas \subseteq Cobrancas
  /\ desfechos \in [Instancias \X Quinzenas -> Desfecho]
  /\ presas \subseteq Instancias

Parada(p) == [passo |-> p, lidas |-> {}, pendentes |-> {}, cliente |-> NULL, inseridos |-> {}]

Init ==
  /\ lives = [l \in Lives |-> [status |-> "ausente", cliente_id |-> NULL, quinzena |-> 1,
                               comissao |-> FALSE, boleto |-> NULL, atrasada |-> FALSE]]
  /\ boletos = [k \in Chaves |-> [status |-> "ausente", autor |-> NULL, lives |-> {}]]
  /\ trava = NULL
  /\ instancia = [i \in Instancias |-> Parada("pronto")]
  /\ quinzena = 1
  /\ cobrancas = {} /\ presas = {}
  /\ desfechos = [r \in Instancias \X Quinzenas |-> "nenhum"]

Ocorre(e) == e \in Eventualidades

(* The key of the invoices the round of today writes. *)
Chave(c) == <<c, quinzena - 1>>

DiaUm == quinzena % 2 = 0

Encerra(i, d) == desfechos' = [desfechos EXCEPT ![<<i, quinzena - 1>>] = d]

Vai(i, p) == instancia' = [instancia EXCEPT ![i].passo = p]

-----------------------------------------------------------------------------
(* The run of one instance. *)

(* Mutant: the answer of pg_try_advisory_lock is not looked at. *)
MutTentarTrava(i) == trava' = i /\ Vai(i, "abriu")

TentarTrava(i) ==
  IF trava = NULL THEN trava' = i /\ Vai(i, "abriu")
                  ELSE Vai(i, "pronto") /\ UNCHANGED trava

(* The cron fires; the instance that is marked as running, or does not get the lock,    *)
(* skips this round.                                                                    *)
Disparar(i) ==
  /\ instancia[i].passo = "espera"
  /\ \/ i \in presas /\ Vai(i, "pronto") /\ Encerra(i, "perdida") /\ UNCHANGED trava
     \/ i \notin presas /\ TentarTrava(i) /\ UNCHANGED desfechos
  /\ UNCHANGED <<lives, boletos, quinzena, cobrancas, presas>>

(* The connection for the lock, asked for before the try, fails, on this day or on      *)
(* another: node-cron catches it, and _billingRunning stays set for later rounds.       *)
Prender(i) ==
  /\ Ocorre("banco") /\ i \notin presas /\ instancia[i].passo \in {"espera", "pronto"}
  /\ presas' = presas \cup {i}
  /\ IF instancia[i].passo = "espera" THEN Vai(i, "pronto") /\ Encerra(i, "perdida")
                                     ELSE UNCHANGED <<instancia, desfechos>>
  /\ UNCHANGED <<lives, boletos, trava, quinzena, cobrancas>>

(* Mutant: without 'faturado_em IS NULL'. *)
MutFaturaveis ==
  {l \in Lives : /\ lives[l].status = "encerrada" /\ lives[l].quinzena = quinzena - 1}

(* Mutant: the period that starts today. *)
MutFaturaveisPeriodo ==
  {l \in Lives : /\ lives[l].status = "encerrada" /\ lives[l].boleto = NULL
                 /\ lives[l].quinzena = quinzena}

(* Ended lives of the fortnight that has just finished which no run has billed. *)
Faturaveis ==
  {l \in Lives : /\ lives[l].status = "encerrada" /\ lives[l].boleto = NULL
                 /\ lives[l].quinzena = quinzena - 1}

(* BEGIN and the two SELECTs: lives not billed and, on day 1, the active contracts. *)
LerLives(i) ==
  LET lidas == {[id |-> l, cliente_id |-> lives[l].cliente_id, comissao |-> lives[l].comissao] :
                   l \in Faturaveis}
  IN  /\ instancia[i].passo = "abriu"
      /\ instancia' = [instancia EXCEPT
           ![i] = [@ EXCEPT !.passo = "faturando", !.lidas = lidas,
                            !.pendentes = {r.cliente_id : r \in lidas}
                                            \cup (IF DiaUm THEN ComFixo ELSE {})]]
      /\ UNCHANGED <<lives, boletos, trava, quinzena, cobrancas, desfechos, presas>>

Devido(i, c) == (DiaUm /\ c \in ComFixo) \/ \E r \in instancia[i].lidas : r.cliente_id = c /\ r.comissao

(* ON CONFLICT (idempotency_key) DO NOTHING. *)
JaFaturado(c) == boletos[Chave(c)].status # "ausente"

LivesDe(i, c) == {r.id : r \in {s \in instancia[i].lidas : s.cliente_id = c}}

(* Nothing is owed, or the INSERT finds the key taken: on to the next client. *)
PularCliente(i, c) ==
  /\ ~ Devido(i, c) \/ (c # NULL /\ JaFaturado(c))
  /\ instancia' = [instancia EXCEPT ![i].pendentes = @ \ {c}]
  /\ UNCHANGED <<lives, boletos, trava, quinzena, cobrancas, desfechos, presas>>

(* INSERT of the boleto and UPDATE of its lives, both inside the transaction. *)
InserirBoleto(i, c) ==
  /\ Devido(i, c) /\ c # NULL /\ ~ JaFaturado(c)
  /\ instancia' = [instancia EXCEPT
       ![i] = [@ EXCEPT !.passo = "cobrando", !.cliente = c,
                        !.pendentes = instancia[i].pendentes \ {c},
                        !.inseridos = instancia[i].inseridos \cup {c}]]
  /\ UNCHANGED <<lives, boletos, trava, quinzena, cobrancas, desfechos, presas>>

LiberarTrava(i) == trava' = IF trava = i THEN NULL ELSE trava

(* ROLLBACK, the finally that releases the lock, the end of the round. *)
Desfazer(i) ==
  /\ instancia' = [instancia EXCEPT ![i] = Parada("pronto")]
  /\ LiberarTrava(i)
  /\ Encerra(i, "perdida")
  /\ UNCHANGED <<lives, boletos, quinzena, cobrancas>>

FaturarCliente(i) ==
  /\ instancia[i].passo = "faturando"
  /\ \E c \in instancia[i].pendentes :
       \/ PularCliente(i, c)
       \/ InserirBoleto(i, c)
       \/ Devido(i, c) /\ c = NULL /\ Desfazer(i) /\ UNCHANGED presas     \* "null" is not a uuid

(* The gateway is asked for an order and a boleto; its errors stay in gateway_error. *)
Cobrar(i) ==
  /\ instancia[i].passo = "cobrando"
  /\ \/ cobrancas' = cobrancas \cup {<<instancia[i].cliente, quinzena - 1, i>>}
     \/ Ocorre("gateway") /\ UNCHANGED cobrancas
  /\ instancia' = [instancia EXCEPT ![i] = [@ EXCEPT !.passo = "faturando", !.cliente = NULL]]
  /\ UNCHANGED <<lives, boletos, trava, quinzena, desfechos, presas>>

(* A live edited since the SELECT is marked with the invoice of the client it had then. *)
Confirmar(i) ==
  LET linha == instancia[i]
      dono(l) == CHOOSE c \in linha.inseridos : l \in LivesDe(i, c)
      minhas == UNION {LivesDe(i, c) : c \in linha.inseridos}
  IN  /\ linha.passo = "faturando" /\ linha.pendentes = {}
      /\ lives' = [l \in Lives |->
           IF l \in minhas /\ lives[l].status = "encerrada"
           THEN [lives[l] EXCEPT !.boleto = Chave(dono(l))] ELSE lives[l]]
      /\ boletos' = [k \in Chaves |->
           IF k \in {Chave(c) : c \in linha.inseridos}
           THEN [status |-> "pendente", autor |-> i, lives |-> LivesDe(i, k[1])] ELSE boletos[k]]
      /\ instancia' = [instancia EXCEPT ![i] = Parada("pronto")]
      /\ LiberarTrava(i)
      /\ Encerra(i, "gravada")
      /\ UNCHANGED <<quinzena, cobrancas, presas>>

(* The question for the lock, a statement, or the COMMIT itself, fails. *)
Falhar(i) ==
  /\ Ocorre("banco") /\ i \notin presas /\ instancia[i].passo # "pronto"
  /\ Desfazer(i)
  /\ UNCHANGED presas

(* The process dies, and with it its connections; or it is not up at 02:00. *)
Cair(i) ==
  /\ Ocorre("queda") /\ instancia[i].passo # "pronto"
  /\ Desfazer(i)
  /\ presas' = presas \ {i}

(* A restart between two rounds. *)
Reiniciar(i) ==
  /\ Ocorre("queda") /\ i \in presas /\ instancia[i].passo = "pronto"
  /\ presas' = presas \ {i}
  /\ UNCHANGED <<lives, boletos, trava, instancia, quinzena, cobrancas, desfechos>>

-----------------------------------------------------------------------------
(* The rest of the system. *)

(* Rows an open transaction has updated are locked until it ends. *)
Travada(l) == \E i \in Instancias : \E c \in instancia[i].inseridos : l \in LivesDe(i, c)

(* A live ends, or is entered by hand as ended. *)
LancarLive(l) ==
  /\ lives[l].status = "ausente"
  /\ \E c \in Clientes \cup {NULL}, q \in 1..quinzena, v \in BOOLEAN :
       /\ c = NULL => Ocorre("sem_cliente")
       /\ q < quinzena => Ocorre("atraso")
       /\ lives' = [lives EXCEPT ![l] = [@ EXCEPT !.status = "encerrada", !.cliente_id = c, !.quinzena = q,
                                                !.comissao = v, !.atrasada = q < quinzena]]
  /\ UNCHANGED <<boletos, trava, instancia, quinzena, cobrancas, desfechos, presas>>

(* PATCH /v1/lives/:id: client, date and amount, whether the live is billed or not. *)
EditarLive(l) ==
  /\ Ocorre("edicao") /\ lives[l].status = "encerrada" /\ ~ Travada(l)
  /\ \E c \in Clientes \cup {lives[l].cliente_id}, q \in 1..quinzena, v \in BOOLEAN :
       lives' = [lives EXCEPT ![l] = [@ EXCEPT !.cliente_id = c, !.quinzena = q, !.comissao = v,
                                              !.atrasada = q < quinzena]]
  /\ UNCHANGED <<boletos, trava, instancia, quinzena, cobrancas, desfechos, presas>>

(* DELETE /v1/lives/:id, whether the live is billed or not. *)
ExcluirLive(l) ==
  /\ lives[l].status = "encerrada" /\ ~ Travada(l)
  /\ lives' = [lives EXCEPT ![l] = [@ EXCEPT !.status = "excluida", !.boleto = NULL]]
  /\ UNCHANGED <<boletos, trava, instancia, quinzena, cobrancas, desfechos, presas>>

(* A run takes minutes and a fortnight days: no run is open when the next one starts.   *)
PassarQuinzena ==
  /\ quinzena < MaxQuinzena
  /\ \A i \in Instancias : instancia[i].passo = "pronto"
  /\ quinzena' = quinzena + 1
  /\ instancia' = [i \in Instancias |-> Parada("espera")]
  /\ UNCHANGED <<lives, boletos, trava, cobrancas, desfechos, presas>>

-----------------------------------------------------------------------------
Rodada(i) == Disparar(i) \/ LerLives(i) \/ FaturarCliente(i) \/ Cobrar(i) \/ Confirmar(i)

Falha(i) == Prender(i) \/ Falhar(i) \/ Cair(i) \/ Reiniciar(i)

LiveStep(l) == LancarLive(l) \/ EditarLive(l) \/ ExcluirLive(l)

Next ==
  \/ \E i \in Instancias : Rodada(i) \/ Falha(i)
  \/ \E l \in Lives : LiveStep(l)
  \/ PassarQuinzena

Spec == Init /\ [][Next]_vars

-----------------------------------------------------------------------------
(* No live is part of two invoices, whatever is edited between and during the rounds:   *)
(* an edit can move a billed live to a client or a fortnight still to be billed, and    *)
(* only faturado_em, read under the lock, keeps it out.                                 *)
LiveEmUmBoleto == \A k1, k2 \in Chaves : k1 # k2 => boletos[k1].lives \cap boletos[k2].lives = {}

(* Two orders about one client and one fortnight are of rounds of which one was rolled  *)
(* back after it had charged: rounds that overlap, a second one late the same day, and  *)
(* whatever is edited, entered late or refused between them, meet the lock and          *)
(* the idempotency key; the ROLLBACK takes back the boleto and not its order.           *)
CobrancaUnica ==
  \A o1, o2 \in cobrancas :
    o1[1] = o2[1] /\ o1[2] = o2[2] =>
      o1 = o2 \/ \E o \in {o1, o2} : desfechos[<<o[3], o[2]>>] = "perdida"

(* What the charge says of itself: appmax.js:161. *)
UmaCobrancaPorQuinzena ==
  \A o1, o2 \in cobrancas : o1[1] = o2[1] /\ o1[2] = o2[2] => o1 = o2

PorFaturar(l) == lives[l].status = "encerrada" /\ lives[l].comissao /\ lives[l].cliente_id # NULL

(* The rounds about fortnight q are over on every instance. *)
RodadasPassadas(q) == q + 1 < quinzena \/ (q + 1 = quinzena /\ \A i \in Instancias : instancia[i].passo = "pronto")

(* No round about the fortnight was committed, and one was lost: of the other instances *)
(* each lost its own too, or found the lock taken and left.                             *)
RodadasPerdidas(q) ==
  /\ \E i \in Instancias : desfechos[<<i, q>>] = "perdida"
  /\ \A i \in Instancias : desfechos[<<i, q>>] # "gravada"

(* Once the rounds about its fortnight are over, an ended live with a commission and a  *)
(* client is billed, under all that may go wrong but two things no later round makes up *)
(* for, each looking at one fortnight only: the live was entered or last edited when    *)
(* its fortnight was already over, or every round of that day was lost, be it for the   *)
(* database, the process, a _billingRunning left set or a live without a client.        *)
LiveFaturada ==
  \A l \in Lives :
    PorFaturar(l) /\ RodadasPassadas(lives[l].quinzena) =>
      lives[l].boleto # NULL \/ lives[l].atrasada \/ RodadasPerdidas(lives[l].quinzena)
=============================================================================
