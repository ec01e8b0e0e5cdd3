---------------------------- MODULE CicloContrato ----------------------------
(***************************************************************************)
(* The life of a contract: draft, signature, credit score, audit of the    *)
(* franchisor, risk taken by the franchisee, cancellation, and the nightly *)
(* job that cancels rejections nobody decided on.                          *)
(*                                                                         *)
(* Handlers that read and then write by id, in separate statements, are    *)
(* two actions, with a process of Pedidos between them; handlers whose     *)
(* UPDATE carries its own guard, or that lock the row first, are one.      *)
(* Ages stand for dates: 0 is up to five days, 1 up to thirty, 2 more.     *)
(***************************************************************************)
EXTENDS Integers, FiniteSets

CONSTANTS
  Contratos,      \* bound: ids that rows of contratos can take
  Clientes,       \* rows of clientes
  Perfis,         \* what the credit score looks at, see Pontos
  Pedidos,        \* bound: requests in flight between their read and their write
  StatusManuais,  \* status that a person writes into a client
  NULL

ASSUME ConstantesAssumption ==
  /\ Perfis \subseteq [fat : Nat, cnpj : BOOLEAN, score : Nat, estavel : BOOLEAN]
  /\ NULL \notin Contratos \cup Clientes

VARIABLES
  contratos,  \* row per contract
  clientes,   \* row per client
  pedidos,    \* requests in flight
  limpeza,    \* contracts the nightly job has selected, or NULL when it does not run
  decisao,    \* history: status decided while no request had read the contract
  espelho     \* history: the contracts that last gave the client its status

vars == <<contratos, clientes, pedidos, limpeza, decisao, espelho>>

-----------------------------------------------------------------------------
(* Credit score: revenue, registration, external score and niche. *)

PontosDeFat(fat) == IF fat >= 200000 THEN 40 ELSE IF fat >= 50000 THEN 25
                    ELSE IF fat >= 10000 THEN 15 ELSE IF fat >= 1000 THEN 5 ELSE 0

PontosDeScore(s) == IF s >= 800 THEN 30 ELSE IF s >= 600 THEN 20 ELSE IF s >= 400 THEN 10 ELSE 0

Pontos(p) == PontosDeFat(p.fat) + (IF p.cnpj THEN 20 ELSE 0)
             + PontosDeScore(p.score) + (IF p.estavel THEN 10 ELSE 0)

Risco(p) == IF Pontos(p) >= 75 THEN "baixo" ELSE IF Pontos(p) >= 45 THEN "medio" ELSE "alto"

Aprovado(p) == Pontos(p) >= 60

-----------------------------------------------------------------------------
Abertos == {"rascunho", "em_analise", "pendencia_comercial"}

Fechados == {"cancelado", "reprovado", "arquivado", "cancelado_automaticamente"}

ContratoStatus == {"ausente", "ativo"} \cup Abertos \cup Fechados

ClienteStatus == {"ativo", "pendencia_comercial", "reprovado", "arquivado",
                  "cancelado_automaticamente"} \cup StatusManuais

ContratoRow == [status: ContratoStatus, cliente: Clientes \cup {NULL},
                revisado: 0..2 \cup {NULL},        \* age of reviewed_at
                autocancelado: BOOLEAN]            \* cancelado_automaticamente_em is set

ClienteRow == [status: ClienteStatus, perfil: Perfis]

PedidoRow == [pc: {"livre", "criar", "assinar", "analisar", "ativar"},
              contrato: Contratos \cup {NULL}, cliente: Clientes \cup {NULL}, aprovado: BOOLEAN]

TypeOK ==
  /\ contratos \in [Contratos -> ContratoRow]
  /\ clientes \in [Clientes -> ClienteRow]
  /\ pedidos \in [Pedidos -> PedidoRow]
  /\ limpeza \in {NULL} \cup SUBSET Contratos
  /\ decisao \in [Contratos -> ContratoStatus \cup {NULL}]
  /\ espelho \in [Clientes -> SUBSET Contratos]

SemContrato == [status |-> "ausente", cliente |-> NULL, revisado |-> NULL, autocancelado |-> FALSE]

Livre == [pc |-> "livre", contrato |-> NULL, cliente |-> NULL, aprovado |-> FALSE]

Init ==
  /\ contratos = [k \in Contratos |-> SemContrato]
  /\ clientes \in [Clientes -> [status: {"ativo"}, perfil: Perfis]]
  /\ pedidos = [p \in Pedidos |-> Livre]
  /\ limpeza = NULL
  /\ decisao = [k \in Contratos |-> NULL]
  /\ espelho = [c \in Clientes |-> {}]

-----------------------------------------------------------------------------
(* What the handlers write. *)

Existe(k) == contratos[k].status # "ausente"

(* Somebody has read the contract and is going to write it. *)
Lido(k) == (\E p \in Pedidos : pedidos[p].contrato = k) \/ (limpeza # NULL /\ k \in limpeza)

(* A decision that closes or approves, taken while nobody else is about to write. *)
Decidir(k, s) ==
  decisao' = [decisao EXCEPT ![k] = IF Lido(k) \/ s \in Abertos THEN NULL ELSE s]

MudarContrato(k, s) == contratos' = [contratos EXCEPT ![k].status = s]

Revisar(k, s) == contratos' = [contratos EXCEPT ![k].status = s, ![k].revisado = 0]

(* updateClienteStatusFromContrato: the client takes the status of this contract. *)
CopiarAoCliente(k, s) ==
  /\ clientes' = [clientes EXCEPT ![contratos[k].cliente].status = s]
  /\ espelho' = [espelho EXCEPT ![contratos[k].cliente] = {k}]

(* The contract changes and its client is left behind. *)
DeixarCliente == UNCHANGED <<clientes, espelho>>

-----------------------------------------------------------------------------
(* POST /v1/contratos and /quick: refused while a contract of the client is in rejection *)
(* and was reviewed within thirty days; the INSERT is a statement of its own.            *)
Bloqueado(c) ==
  \E k \in Contratos : /\ contratos[k].cliente = c
                       /\ contratos[k].status = "reprovado"
                       /\ contratos[k].revisado \in {0, 1}

PedirContrato(p, c) ==
  /\ pedidos[p].pc = "livre"
  /\ ~Bloqueado(c)
  /\ pedidos' = [pedidos EXCEPT ![p].pc = "criar", ![p].cliente = c]
  /\ UNCHANGED <<contratos, clientes, limpeza, decisao, espelho>>

CriarContrato(p, k) ==
  /\ pedidos[p].pc = "criar"
  /\ ~Existe(k)
  /\ contratos' = [contratos EXCEPT ![k].status = "rascunho", ![k].cliente = pedidos[p].cliente]
  /\ pedidos' = [pedidos EXCEPT ![p] = Livre]
  /\ UNCHANGED <<clientes, limpeza, decisao, espelho>>

(* Signature on paper. *)
Assinar(k) ==
  /\ contratos[k].status = "rascunho"
  /\ MudarContrato(k, "em_analise")
  /\ DeixarCliente
  /\ UNCHANGED <<pedidos, limpeza, decisao>>

-----------------------------------------------------------------------------
(* Digital signature, analysis and activation: the status is read, and perhaps the score *)
(* computed; the UPDATE names the id alone.                                              *)

(* Mutant: a cancelled contract is not in the list of refusals. *)
MutRecusaAtivar == {"ativo"} \cup (Fechados \ {"cancelado"})

RecusaAtivar == {"ativo"} \cup Fechados

Ler(p, k, pc) ==
  /\ pedidos[p].pc = "livre"
  /\ pedidos' = [pedidos EXCEPT ![p] = [pc |-> pc, contrato |-> k, cliente |-> NULL,
                   aprovado |-> pc # "ativar" /\ Aprovado(clientes[contratos[k].cliente].perfil)]]
  /\ UNCHANGED <<contratos, clientes, limpeza, decisao, espelho>>

LerParaAssinar(p, k) == contratos[k].status = "rascunho" /\ Ler(p, k, "assinar")

LerParaAnalisar(p, k) == contratos[k].status = "em_analise" /\ Ler(p, k, "analisar")

LerParaAtivar(p, k) == Existe(k) /\ contratos[k].status \notin RecusaAtivar /\ Ler(p, k, "ativar")

Responder(p, pc) ==
  /\ pedidos[p].pc = pc
  /\ pedidos' = [pedidos EXCEPT ![p] = Livre]

(* The one of the three that writes the client, in the same transaction. *)
AssinarDigital(p) ==
  LET k == pedidos[p].contrato IN
  /\ Responder(p, "assinar")
  /\ IF pedidos[p].aprovado
     THEN MudarContrato(k, "ativo") /\ CopiarAoCliente(k, "ativo")
     ELSE MudarContrato(k, "em_analise") /\ DeixarCliente
  /\ UNCHANGED <<limpeza, decisao>>

Analisar(p) ==
  LET k == pedidos[p].contrato IN
  /\ Responder(p, "analisar")
  /\ MudarContrato(k, IF pedidos[p].aprovado THEN "ativo" ELSE "cancelado")
  /\ DeixarCliente
  /\ UNCHANGED <<limpeza, decisao>>

Ativar(p) ==
  LET k == pedidos[p].contrato IN
  /\ Responder(p, "ativar")
  /\ MudarContrato(k, "ativo")
  /\ DeixarCliente
  /\ UNCHANGED <<limpeza, decisao>>

-----------------------------------------------------------------------------
(* Guarded by their own UPDATE. *)

AssumirRisco(k) ==
  /\ contratos[k].status \in {"em_analise", "cancelado"}
  /\ MudarContrato(k, "ativo")
  /\ CopiarAoCliente(k, "ativo")
  /\ Decidir(k, "ativo")
  /\ UNCHANGED <<pedidos, limpeza>>

Cancelar(k) ==
  /\ contratos[k].status \in {"em_analise", "ativo"}
  /\ MudarContrato(k, "cancelado")
  /\ DeixarCliente
  /\ Decidir(k, "cancelado")
  /\ UNCHANGED <<pedidos, limpeza>>

-----------------------------------------------------------------------------
(* The audit: executarAcaoAuditoria locks the contract, checks its status, and writes    *)
(* contract, client and event in one transaction.                                        *)

Decisoes == {"aprovar", "pendencia", "reprovar", "arquivar", "assumir_risco"}

(* Mutant: a literal that no status has. *)
MutResultadoDe(acao) == IF acao = "pendencia" THEN "pendencia" ELSE "ativo"

ResultadoDe(acao) ==
  CASE acao = "aprovar" -> "ativo"
    [] acao = "pendencia" -> "pendencia_comercial"
    [] acao = "reprovar" -> "reprovado"
    [] acao = "arquivar" -> "arquivado"
    [] acao = "assumir_risco" -> "ativo"

PodeDecidir(acao, s) ==
  CASE acao = "aprovar" -> s \in {"em_analise", "pendencia_comercial", "reprovado"}
    [] acao = "pendencia" -> s \in {"em_analise", "reprovado"}
    [] acao = "reprovar" -> s \in {"em_analise", "pendencia_comercial"}
    [] acao \in {"arquivar", "assumir_risco"} -> s # "ausente"

(* Taking the risk leaves reviewed_at as it was. *)
ExecutarAcaoAuditoria(k, acao) ==
  LET s == ResultadoDe(acao) IN
  /\ PodeDecidir(acao, contratos[k].status)
  /\ IF acao = "assumir_risco" THEN MudarContrato(k, s) ELSE Revisar(k, s)
  /\ CopiarAoCliente(k, s)
  /\ Decidir(k, s)
  /\ UNCHANGED <<pedidos, limpeza>>

-----------------------------------------------------------------------------
(* cleanupOrphanContracts is one statement.  The contracts it selects are those of its   *)
(* snapshot; a row that a transaction committed in between holds is written all the same *)
(* once the lock is free, because the UPDATE joins by id.                                *)

(* Mutant: the job looks at the status of the contract only. *)
MutVencidos == {k \in Contratos : contratos[k].status = "pendencia_comercial"}

Vencidos ==
  {k \in Contratos : /\ contratos[k].status = "reprovado"
                     /\ contratos[k].revisado \in {1, 2}
                     /\ ~contratos[k].autocancelado}

SelecionarVencidos ==
  /\ limpeza = NULL
  /\ Vencidos # {}
  /\ limpeza' = Vencidos
  /\ UNCHANGED <<contratos, clientes, pedidos, decisao, espelho>>

Cancelados(c) == {k \in limpeza : contratos[k].cliente = c}

(* Mutant: the clients are left as they are. *)
MutClientesCancelados == UNCHANGED clientes

ClientesCancelados ==
  clientes' = [c \in Clientes |->
    IF Cancelados(c) = {} THEN clientes[c] ELSE [clientes[c] EXCEPT !.status = "cancelado_automaticamente"]]

CancelarVencidos ==
  /\ limpeza # NULL
  /\ contratos' = [k \in Contratos |->
       IF k \in limpeza THEN [contratos[k] EXCEPT !.status = "cancelado_automaticamente", !.autocancelado = TRUE]
       ELSE contratos[k]]
  /\ ClientesCancelados
  /\ espelho' = [c \in Clientes |-> IF Cancelados(c) = {} THEN espelho[c] ELSE Cancelados(c)]
  /\ decisao' = [k \in Contratos |->
       IF k \in limpeza /\ decisao[k] = "reprovado" THEN NULL ELSE decisao[k]]
  /\ limpeza' = NULL
  /\ UNCHANGED pedidos

-----------------------------------------------------------------------------
(* PATCH /v1/clientes/:id writes any status, and the fields of the score that it allows. *)
EditarCliente(c) ==
  /\ \/ /\ \E s \in StatusManuais : clientes' = [clientes EXCEPT ![c].status = s]
        /\ espelho' = [espelho EXCEPT ![c] = {}]
     \/ /\ \E q \in Perfis : /\ q.cnpj = clientes[c].perfil.cnpj
                             /\ q.score = clientes[c].perfil.score
                             /\ clientes' = [clientes EXCEPT ![c].perfil = q]
        /\ UNCHANGED espelho
  /\ UNCHANGED <<contratos, pedidos, limpeza, decisao>>

PassarDias ==
  /\ \E k \in Contratos : contratos[k].revisado \in {0, 1}
  /\ contratos' = [k \in Contratos |->
       IF contratos[k].revisado \in {0, 1} THEN [contratos[k] EXCEPT !.revisado = @ + 1] ELSE contratos[k]]
  /\ UNCHANGED <<clientes, pedidos, limpeza, decisao, espelho>>

-----------------------------------------------------------------------------
Next ==
  \/ \E p \in Pedidos :
       \/ \E c \in Clientes : PedirContrato(p, c)
       \/ \E k \in Contratos :
            CriarContrato(p, k) \/ LerParaAssinar(p, k) \/ LerParaAnalisar(p, k) \/ LerParaAtivar(p, k)
       \/ AssinarDigital(p) \/ Analisar(p) \/ Ativar(p)
  \/ \E k \in Contratos :
       \/ Assinar(k) \/ AssumirRisco(k) \/ Cancelar(k)
       \/ \E acao \in Decisoes : ExecutarAcaoAuditoria(k, acao)
  \/ SelecionarVencidos \/ CancelarVencidos
  \/ \E c \in Clientes : EditarCliente(c)
  \/ PassarDias

Spec == Init /\ [][Next]_vars

(* The clock goes on and the nightly job runs; people promise nothing. *)
FairSpec == Spec /\ WF_vars(PassarDias) /\ WF_vars(SelecionarVencidos) /\ WF_vars(CancelarVencidos)

-----------------------------------------------------------------------------
(* A contract closed or approved when nobody was about to write it stays as decided       *)
(* until somebody who sees the decision takes another: neither the requests that write by *)
(* id alone (contratos.js:297, 360 and 635) nor the nightly job overwrite a decision they *)
(* have not read.                                                                         *)
DecisaoFirme == \A k \in Contratos : decisao[k] # NULL => contratos[k].status = decisao[k]

(* What the handlers that leave the client behind give a contract: the signature on paper *)
(* or refused by the score, the analysis (contratos.js:357), the cancellation (504) and   *)
(* the activation (635).                                                                  *)
SemCliente == {"em_analise", "ativo", "cancelado"}

(* Where the contract that last gave a client its status has another one by now, it is in *)
(* analysis, active or cancelled by a handler that leaves the client behind, and no       *)
(* decision but a cancellation stands.  A pending issue, a rejection, an archiving, an    *)
(* automatic cancellation, and an approval or a risk assumed that nobody has overwritten, *)
(* are the client's too, whatever the requests in flight, the nightly job and the other   *)
(* contracts of the client do.                                                            *)
ClienteEspelhaContrato ==
  \A c \in Clientes : \A k \in espelho[c] :
    clientes[c].status # contratos[k].status =>
      contratos[k].status \in SemCliente /\ decisao[k] \in {NULL, "cancelado"}

(* A rejection does not stay undecided: somebody acts on it, or the nightly job cancels   *)
(* it.  A contract that the job cancelled once and that came back is never selected again *)
(* (cleanup_orphan_contracts.js:13), so nothing is promised of it.                        *)
ReprovadoSeResolve ==
  \A k \in Contratos :
    contratos[k].status = "reprovado" /\ ~contratos[k].autocancelado ~> contratos[k].status # "reprovado"
=============================================================================
