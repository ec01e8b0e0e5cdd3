-------------------------- MODULE CicloContratoProofs --------------------------
(***************************************************************************)
(* The decisions on a contract and the status of its client, for every     *)
(* number of contracts, clients and requests in flight.                    *)
(***************************************************************************)
EXTENDS CicloContrato, TLAPS

EmVoo == {"assinar", "analisar", "ativar"}

(* What the rows refer to exists, and a request names a contract from its read to its     *)
(* write.                                                                                 *)
Ligado ==
  /\ \A k \in Contratos : Existe(k) => contratos[k].cliente \in Clientes
  /\ \A p \in Pedidos :
       /\ pedidos[p].pc = "criar" => pedidos[p].cliente \in Clientes
       /\ pedidos[p].pc \in EmVoo => pedidos[p].contrato \in Contratos /\ Existe(pedidos[p].contrato)
       /\ pedidos[p].pc \notin EmVoo => pedidos[p].contrato = NULL
  /\ limpeza # NULL => limpeza \subseteq Contratos /\ \A k \in limpeza : Existe(k)

(* A decision that is kept is one nobody reads in order to write, but the job, which may  *)
(* still cancel a rejection.                                                              *)
DecisaoInv ==
  /\ \A k \in Contratos :
       decisao[k] # NULL => decisao[k] \in {"ativo"} \cup Fechados /\ contratos[k].status = decisao[k]
  /\ \A p \in Pedidos : pedidos[p].contrato \in Contratos => decisao[pedidos[p].contrato] = NULL
  /\ limpeza # NULL => \A k \in limpeza : decisao[k] \in {NULL, "reprovado"}

(* The client agrees with the contract, or was left behind by it. *)
Concorda(c, k) ==
  clientes[c].status # contratos[k].status =>
    contratos[k].status \in SemCliente /\ decisao[k] \in {NULL, "cancelado"}

(* A client mirrors contracts of its own. *)
EspelhoInv ==
  \A c \in Clientes : \A k \in espelho[c] : contratos[k].cliente = c /\ Existe(k) /\ Concorda(c, k)

IndInv == TypeOK /\ Ligado /\ DecisaoInv /\ EspelhoInv

-----------------------------------------------------------------------------
(* The score. *)

(* A score is at most 100 points, and a profile that is approved is never of high risk:   *)
(* the limit of the approval lies above the one of the band.                              *)
THEOREM RiscoDoAprovado ==
  ASSUME NEW p \in [fat : Nat, cnpj : BOOLEAN, score : Nat, estavel : BOOLEAN]
  PROVE  Pontos(p) \in 0..100 /\ (Aprovado(p) => Risco(p) # "alto")
<1>1. PontosDeFat(p.fat) \in 0..40 /\ PontosDeScore(p.score) \in 0..30
  BY DEF PontosDeFat, PontosDeScore
<1>2. Pontos(p) \in 0..100
  BY <1>1 DEF Pontos
<1> QED BY <1>2 DEF Aprovado, Risco

-----------------------------------------------------------------------------
LEMMA InitInv == Init => IndInv
<1>1. SUFFICES ASSUME Init PROVE IndInv
  OBVIOUS
<1>2. NULL \notin Contratos \cup Clientes
  BY ConstantesAssumption
<1>3. TypeOK
  <2>1. SemContrato \in ContratoRow /\ Livre \in PedidoRow
    BY DEF SemContrato, ContratoRow, ContratoStatus, Livre, PedidoRow
  <2>2. clientes \in [Clientes -> ClienteRow]
    BY <1>1 DEF Init, ClienteRow, ClienteStatus
  <2>3. contratos \in [Contratos -> ContratoRow] /\ pedidos \in [Pedidos -> PedidoRow]
    BY <1>1, <2>1 DEF Init
  <2>4. /\ limpeza \in {NULL} \cup SUBSET Contratos
        /\ decisao \in [Contratos -> ContratoStatus \cup {NULL}]
        /\ espelho \in [Clientes -> SUBSET Contratos]
    BY <1>1 DEF Init
  <2> QED BY <2>2, <2>3, <2>4 DEF TypeOK
<1>4. Ligado
  BY <1>1, <1>2 DEF Init, Ligado, SemContrato, Livre, EmVoo, Existe
<1>5. DecisaoInv
  BY <1>1, <1>2 DEF Init, DecisaoInv, Livre
<1>6. EspelhoInv
  BY <1>1 DEF Init, EspelhoInv
<1> QED BY <1>3, <1>4, <1>5, <1>6 DEF IndInv

-----------------------------------------------------------------------------
(* What happens to one contract: it takes the status s, and its client and requests keep  *)
(* their links.                                                                           *)
Muda(k, s) ==
  /\ contratos' \in [Contratos -> ContratoRow]
  /\ contratos'[k].status = s /\ s # "ausente" /\ contratos'[k].cliente = contratos[k].cliente
  /\ \A j \in Contratos \ {k} : contratos'[j] = contratos[j]

LEMMA MudarUm ==
  ASSUME TypeOK, NEW k \in Contratos, NEW s \in ContratoStatus \ {"ausente"}, MudarContrato(k, s) \/ Revisar(k, s)
  PROVE  Muda(k, s)
<1> DEFINE r == contratos'[k]
<1>1. r \in ContratoRow /\ r.status = s /\ r.cliente = contratos[k].cliente
  BY DEF MudarContrato, Revisar, TypeOK, ContratoRow
<1>2. contratos' = [contratos EXCEPT ![k] = r]
  BY DEF MudarContrato, Revisar, TypeOK
<1> QED BY <1>1, <1>2 DEF TypeOK, Muda

LEMMA EspelhoCopia ==
  ASSUME TypeOK, Ligado, EspelhoInv, NEW k \in Contratos, NEW s \in ContratoStatus \ {"ausente"},
         Existe(k), Muda(k, s), s \in ClienteStatus, CopiarAoCliente(k, s),
         \A j \in Contratos \ {k} : decisao'[j] = decisao[j]
  PROVE  /\ clientes' \in [Clientes -> ClienteRow]
         /\ espelho' \in [Clientes -> SUBSET Contratos]
         /\ EspelhoInv'
<1> DEFINE c == contratos[k].cliente
<1>1. c \in Clientes
  BY DEF Ligado
<1>2. clientes' = [clientes EXCEPT ![c] = [clientes[c] EXCEPT !.status = s]] /\ espelho' = [espelho EXCEPT ![c] = {k}]
  BY DEF CopiarAoCliente
<1>3. clientes' \in [Clientes -> ClienteRow] /\ clientes'[c].status = s
      /\ \A d \in Clientes \ {c} : clientes'[d] = clientes[d]
  <2>1. [clientes[c] EXCEPT !.status = s] \in ClienteRow /\ [clientes[c] EXCEPT !.status = s].status = s
    BY <1>1 DEF TypeOK, ClienteRow
  <2> QED BY <1>1, <1>2, <2>1 DEF TypeOK
<1>4. espelho' \in [Clientes -> SUBSET Contratos] /\ espelho'[c] = {k}
      /\ \A d \in Clientes \ {c} : espelho'[d] = espelho[d]
  BY <1>1, <1>2 DEF TypeOK
<1>5. \A d \in Clientes \ {c} : k \notin espelho[d]
  BY DEF EspelhoInv
<1>6. \A d \in Clientes : espelho[d] \subseteq Contratos
  BY DEF TypeOK
<1> SUFFICES ASSUME NEW d \in Clientes, NEW j \in espelho'[d]
             PROVE  contratos'[j].cliente = d /\ contratos'[j].status # "ausente" /\ Concorda(d, j)'
  BY <1>3, <1>4 DEF EspelhoInv, Existe
<1>7. CASE d = c
  BY <1>3, <1>4, <1>7 DEF Muda, Concorda
<1>8. CASE d # c
  <2>1. j \in espelho[d] /\ j \in Contratos \ {k} /\ clientes'[d] = clientes[d]
    BY <1>3, <1>4, <1>5, <1>6, <1>8
  <2>2. contratos'[j] = contratos[j] /\ decisao'[j] = decisao[j]
    BY <2>1 DEF Muda
  <2> QED BY <2>1, <2>2 DEF EspelhoInv, Existe, Concorda
<1> QED BY <1>7, <1>8

LEMMA EspelhoDeixa ==
  ASSUME TypeOK, EspelhoInv, NEW k \in Contratos, NEW s \in SemCliente, Muda(k, s), DeixarCliente,
         decisao'[k] \in {NULL, "cancelado"}, \A j \in Contratos \ {k} : decisao'[j] = decisao[j]
  PROVE  /\ clientes' \in [Clientes -> ClienteRow]
         /\ espelho' \in [Clientes -> SUBSET Contratos]
         /\ EspelhoInv'
<1>1. UNCHANGED <<clientes, espelho>>
  BY DEF DeixarCliente
<1>2. \A d \in Clientes : espelho[d] \subseteq Contratos
  BY DEF TypeOK
<1>3. EspelhoInv'
  BY <1>1, <1>2 DEF Muda, EspelhoInv, Existe, Concorda
<1> QED BY <1>1, <1>3 DEF TypeOK

-----------------------------------------------------------------------------
(* Requests. *)

(* A request that begins or ends, the contracts left alone or changed in one row. *)
LEMMA LigadoMuda ==
  ASSUME TypeOK, Ligado, NEW k \in Contratos, NEW s \in ContratoStatus, Existe(k), Muda(k, s),
         UNCHANGED limpeza,
         \A p \in Pedidos : pedidos'[p] = pedidos[p] \/ pedidos'[p] = Livre
  PROVE  Ligado'
<1>1. \A j \in Contratos : Existe(j)' <=> Existe(j)
  BY DEF Muda, Existe
<1>2. \A j \in Contratos : contratos'[j].cliente = contratos[j].cliente
  BY DEF Muda
<1>3. \A j \in Contratos : contratos'[j].status # "ausente" => contratos'[j].cliente \in Clientes
  BY <1>1, <1>2 DEF Ligado, Existe
<1>4. \A p \in Pedidos :
        /\ pedidos'[p].pc = "criar" => pedidos'[p].cliente \in Clientes
        /\ pedidos'[p].pc \in EmVoo => pedidos'[p].contrato \in Contratos /\ contratos'[pedidos'[p].contrato].status # "ausente"
        /\ pedidos'[p].pc \notin EmVoo => pedidos'[p].contrato = NULL
  BY <1>1 DEF Ligado, Livre, EmVoo, Existe
<1>5. limpeza' # NULL => limpeza' \subseteq Contratos /\ \A j \in limpeza' : contratos'[j].status # "ausente"
  BY <1>1 DEF Ligado, Existe
<1> QED BY <1>3, <1>4, <1>5 DEF Ligado, Existe

LEMMA LigadoDe ==
  ASSUME TypeOK, Ligado, NEW p \in Pedidos, pedidos[p].pc \in EmVoo
  PROVE  pedidos[p].contrato \in Contratos /\ Existe(pedidos[p].contrato)
  BY DEF Ligado

(* A decision is written. *)
LEMMA DecisaoDecidir ==
  ASSUME TypeOK, Ligado, DecisaoInv, NEW k \in Contratos, NEW s \in {"ativo"} \cup Fechados \cup Abertos,
         Muda(k, s), Decidir(k, s), UNCHANGED <<pedidos, limpeza>>
  PROVE  decisao' \in [Contratos -> ContratoStatus \cup {NULL}] /\ DecisaoInv'
<1> DEFINE v == IF Lido(k) \/ s \in Abertos THEN NULL ELSE s
<1>1. decisao' = [decisao EXCEPT ![k] = v] /\ v \in ContratoStatus \cup {NULL}
  BY DEF Decidir, ContratoStatus
<1>2. decisao' \in [Contratos -> ContratoStatus \cup {NULL}] /\ decisao'[k] = v
      /\ \A j \in Contratos \ {k} : decisao'[j] = decisao[j]
  BY <1>1 DEF TypeOK
<1>3. v # NULL => v = s /\ s \in {"ativo"} \cup Fechados /\ ~Lido(k)
  OBVIOUS
<1>4. \A j \in Contratos :
        decisao'[j] # NULL => decisao'[j] \in {"ativo"} \cup Fechados /\ contratos'[j].status = decisao'[j]
  BY <1>2, <1>3 DEF DecisaoInv, Muda
<1>5. \A p \in Pedidos : pedidos'[p].contrato \in Contratos => decisao'[pedidos'[p].contrato] = NULL
  BY <1>2, <1>3 DEF DecisaoInv, Lido
<1>6. limpeza' # NULL => \A j \in limpeza' : decisao'[j] \in {NULL, "reprovado"}
  BY <1>2, <1>3 DEF DecisaoInv, Lido, Ligado
<1> QED BY <1>2, <1>4, <1>5, <1>6 DEF DecisaoInv

(* A contract changes without a decision: none is kept of it. *)
LEMMA DecisaoMuda ==
  ASSUME TypeOK, DecisaoInv, NEW k \in Contratos, NEW s \in ContratoStatus, Muda(k, s), decisao[k] = NULL,
         UNCHANGED <<decisao, limpeza>>,
         \A p \in Pedidos : pedidos'[p] = pedidos[p] \/ pedidos'[p].contrato = NULL
  PROVE  DecisaoInv'
<1>1. \A j \in Contratos :
        decisao'[j] # NULL => decisao'[j] \in {"ativo"} \cup Fechados /\ contratos'[j].status = decisao'[j]
  BY DEF DecisaoInv, Muda
<1>2. \A p \in Pedidos : pedidos'[p].contrato \in Contratos => decisao'[pedidos'[p].contrato] = NULL
  BY ConstantesAssumption DEF DecisaoInv
<1> QED BY <1>1, <1>2 DEF DecisaoInv

-----------------------------------------------------------------------------
(* The actions.  Those that only read, or create, first. *)

LEMMA PassoDoPedido ==
  ASSUME IndInv, NEW p \in Pedidos,
         \/ \E c \in Clientes : PedirContrato(p, c)
         \/ \E k \in Contratos : LerParaAssinar(p, k) \/ LerParaAnalisar(p, k) \/ LerParaAtivar(p, k)
  PROVE  IndInv'
<1> USE DEF IndInv
<1>0. UNCHANGED <<contratos, clientes, limpeza, decisao, espelho>>
  BY DEF PedirContrato, LerParaAssinar, LerParaAnalisar, LerParaAtivar, Ler
<1>1. EspelhoInv'
  BY <1>0 DEF EspelhoInv, Existe, Concorda
<1>2. ASSUME NEW r \in PedidoRow, pedidos' = [pedidos EXCEPT ![p] = r],
             r.pc = "criar" => r.cliente \in Clientes,
             r.pc \in EmVoo => r.contrato \in Contratos /\ Existe(r.contrato) /\ decisao[r.contrato] = NULL,
             r.pc \notin EmVoo => r.contrato = NULL
      PROVE  IndInv'
  <2>1. pedidos' \in [Pedidos -> PedidoRow] /\ pedidos'[p] = r /\ \A q \in Pedidos \ {p} : pedidos'[q] = pedidos[q]
    BY <1>2 DEF TypeOK
  <2>2. TypeOK'
    BY <1>0, <2>1 DEF TypeOK
  <2>3. Ligado'
    BY <1>0, <1>2, <2>1 DEF Ligado, Existe
  <2>4. DecisaoInv'
    BY <1>0, <1>2, <2>1, ConstantesAssumption DEF DecisaoInv
  <2> QED BY <1>1, <2>2, <2>3, <2>4
<1>3. ASSUME NEW c \in Clientes, PedirContrato(p, c) PROVE IndInv'
  <2> DEFINE r == [pedidos[p] EXCEPT !.pc = "criar", !.cliente = c]
  <2>1. r \in PedidoRow /\ r.pc = "criar" /\ r.cliente = c /\ r.contrato = NULL
    BY <1>3 DEF PedirContrato, TypeOK, PedidoRow, Ligado, EmVoo
  <2>2. pedidos' = [pedidos EXCEPT ![p] = r]
    BY <1>3 DEF PedirContrato, TypeOK, PedidoRow
  <2> HIDE DEF r
  <2> QED BY <1>2, <2>1, <2>2 DEF EmVoo
<1>4. ASSUME NEW k \in Contratos, LerParaAssinar(p, k) \/ LerParaAnalisar(p, k) \/ LerParaAtivar(p, k) PROVE IndInv'
  <2>1. PICK pc \in EmVoo : Ler(p, k, pc)
    BY <1>4 DEF EmVoo, LerParaAssinar, LerParaAnalisar, LerParaAtivar
  <2>2. Existe(k) /\ contratos[k].status \notin {"ativo"} \cup Fechados
    BY <1>4 DEF LerParaAssinar, LerParaAnalisar, LerParaAtivar, RecusaAtivar, Existe, Fechados
  <2>3. decisao[k] = NULL
    BY <2>2 DEF DecisaoInv
  <2> DEFINE ap == pc # "ativar" /\ Aprovado(clientes[contratos[k].cliente].perfil)
             r == [pc |-> pc, contrato |-> k, cliente |-> NULL, aprovado |-> ap]
  <2>4. ap \in BOOLEAN
    BY DEF Aprovado
  <2>5. r \in PedidoRow /\ r.pc = pc /\ r.contrato = k
    BY <2>4 DEF PedidoRow, EmVoo
  <2>6. pedidos' = [pedidos EXCEPT ![p] = r]
    BY <2>1 DEF Ler
  <2> HIDE DEF r
  <2> QED BY <1>2, <2>2, <2>3, <2>5, <2>6 DEF EmVoo
<1> QED BY <1>3, <1>4

LEMMA PassoCriar ==
  ASSUME IndInv, NEW p \in Pedidos, NEW k \in Contratos, CriarContrato(p, k)
  PROVE  IndInv'
<1> USE DEF IndInv
<1> DEFINE r == [contratos[k] EXCEPT !.status = "rascunho", !.cliente = pedidos[p].cliente]
<1>1. pedidos[p].cliente \in Clientes /\ ~Existe(k)
  BY DEF CriarContrato, Ligado
<1>2. r \in ContratoRow /\ r.status = "rascunho" /\ r.cliente \in Clientes
  BY <1>1 DEF TypeOK, ContratoRow, ContratoStatus, Abertos
<1>3. contratos' = [contratos EXCEPT ![k] = r] /\ UNCHANGED <<clientes, limpeza, decisao, espelho>>
  BY DEF CriarContrato
<1> HIDE DEF r
<1>4. contratos' \in [Contratos -> ContratoRow] /\ contratos'[k] = r
      /\ \A j \in Contratos \ {k} : contratos'[j] = contratos[j]
  BY <1>2, <1>3 DEF TypeOK
<1>5. Livre \in PedidoRow /\ Livre.pc = "livre" /\ Livre.contrato = NULL
  BY DEF Livre, PedidoRow
<1>6. pedidos' \in [Pedidos -> PedidoRow] /\ pedidos'[p] = Livre /\ \A q \in Pedidos \ {p} : pedidos'[q] = pedidos[q]
  BY <1>5 DEF CriarContrato, TypeOK
<1>7. decisao[k] = NULL
  BY <1>1 DEF DecisaoInv, Existe, Fechados
<1>8. TypeOK'
  BY <1>3, <1>4, <1>6 DEF TypeOK
<1>9. Ligado'
  <2>1. \A j \in Contratos : Existe(j) => contratos'[j].status # "ausente"
    BY <1>2, <1>4 DEF Existe
  <2>2. \A j \in Contratos : contratos'[j].status # "ausente" => contratos'[j].cliente \in Clientes
    BY <1>2, <1>4 DEF Ligado, Existe
  <2>3. \A q \in Pedidos :
          /\ pedidos'[q].pc = "criar" => pedidos'[q].cliente \in Clientes
          /\ pedidos'[q].pc \in EmVoo => pedidos'[q].contrato \in Contratos /\ contratos'[pedidos'[q].contrato].status # "ausente"
          /\ pedidos'[q].pc \notin EmVoo => pedidos'[q].contrato = NULL
    BY <1>5, <1>6, <2>1 DEF Ligado, EmVoo
  <2>4. limpeza' # NULL => limpeza' \subseteq Contratos /\ \A j \in limpeza' : contratos'[j].status # "ausente"
    BY <1>3, <2>1 DEF Ligado
  <2> QED BY <2>2, <2>3, <2>4 DEF Ligado, Existe
<1>10. DecisaoInv'
  BY <1>3, <1>4, <1>5, <1>6, <1>7, ConstantesAssumption DEF DecisaoInv
<1>11. EspelhoInv'
  <2>1. \A c \in Clientes : k \notin espelho[c] /\ espelho[c] \subseteq Contratos
    BY <1>1 DEF EspelhoInv, TypeOK
  <2> QED BY <1>3, <1>4, <2>1 DEF EspelhoInv, Existe, Concorda
<1> QED BY <1>8, <1>9, <1>10, <1>11

-----------------------------------------------------------------------------
(* Requests that write what they had read, and the decisions. *)

LEMMA Terminar ==
  ASSUME TypeOK, NEW p \in Pedidos, NEW pc \in EmVoo, Responder(p, pc)
  PROVE  /\ pedidos' \in [Pedidos -> PedidoRow]
         /\ \A q \in Pedidos : pedidos'[q] = pedidos[q] \/ pedidos'[q] = Livre
<1>1. Livre \in PedidoRow
  BY DEF Livre, PedidoRow
<1> QED BY <1>1 DEF Responder, TypeOK

LEMMA PassoEscrever ==
  ASSUME IndInv, NEW p \in Pedidos, AssinarDigital(p) \/ Analisar(p) \/ Ativar(p)
  PROVE  IndInv'
<1> USE DEF IndInv
<1> DEFINE k == pedidos[p].contrato
<1>1. PICK pc \in EmVoo : Responder(p, pc)
  BY DEF AssinarDigital, Analisar, Ativar, EmVoo
<1>2. k \in Contratos /\ Existe(k) /\ decisao[k] = NULL
  BY <1>1 DEF Responder, Ligado, DecisaoInv
<1>3. UNCHANGED <<limpeza, decisao>>
  BY DEF AssinarDigital, Analisar, Ativar
<1>4. PICK s \in {"ativo", "em_analise", "cancelado"} :
        /\ MudarContrato(k, s)
        /\ (s = "ativo" /\ CopiarAoCliente(k, s)) \/ DeixarCliente
  BY DEF AssinarDigital, Analisar, Ativar
<1>5. s \in ContratoStatus \ {"ausente"} /\ (s = "ativo" => s \in ClienteStatus)
  BY <1>4 DEF ContratoStatus, ClienteStatus, Abertos, Fechados
<1>5a. s \in SemCliente /\ UNCHANGED decisao
  BY <1>3, <1>4 DEF SemCliente
<1>6. Muda(k, s)
  BY <1>2, <1>4, <1>5, MudarUm
<1>7. pedidos' \in [Pedidos -> PedidoRow] /\ \A q \in Pedidos : pedidos'[q] = pedidos[q] \/ pedidos'[q] = Livre
  BY <1>1, Terminar
<1>8. clientes' \in [Clientes -> ClienteRow] /\ espelho' \in [Clientes -> SUBSET Contratos] /\ EspelhoInv'
  <2>1. \A j \in Contratos \ {k} : decisao'[j] = decisao[j]
    BY <1>5a
  <2>2. CASE s = "ativo" /\ CopiarAoCliente(k, s)
    BY <1>2, <1>4, <1>5, <1>6, <2>1, <2>2, EspelhoCopia
  <2>3. CASE DeixarCliente
    BY <1>2, <1>5a, <1>6, <2>1, <2>3, EspelhoDeixa
  <2> QED BY <1>4, <2>2, <2>3
<1>9. Ligado'
  BY <1>2, <1>3, <1>5, <1>6, <1>7, LigadoMuda
<1>10. DecisaoInv'
  <2>1. Livre.contrato = NULL
    BY DEF Livre
  <2> QED BY <1>2, <1>3, <1>5, <1>6, <1>7, <2>1, DecisaoMuda
<1>11. TypeOK'
  BY <1>3, <1>6, <1>7, <1>8 DEF TypeOK, Muda
<1> QED BY <1>8, <1>9, <1>10, <1>11

LEMMA PassoAssinar ==
  ASSUME IndInv, NEW k \in Contratos, Assinar(k)
  PROVE  IndInv'
<1> USE DEF IndInv
<1>1. Existe(k) /\ decisao[k] = NULL /\ UNCHANGED <<pedidos, limpeza, decisao>>
  BY DEF Assinar, Existe, DecisaoInv, Fechados
<1>2. "em_analise" \in ContratoStatus \ {"ausente"}
  BY DEF ContratoStatus, Abertos
<1>3. Muda(k, "em_analise") /\ DeixarCliente
  BY <1>2, MudarUm DEF Assinar
<1>4. clientes' \in [Clientes -> ClienteRow] /\ espelho' \in [Clientes -> SUBSET Contratos] /\ EspelhoInv'
  BY <1>1, <1>3, EspelhoDeixa DEF SemCliente
<1>5. Ligado' /\ DecisaoInv'
  BY <1>1, <1>2, <1>3, LigadoMuda, DecisaoMuda
<1>6. TypeOK'
  BY <1>1, <1>3, <1>4 DEF TypeOK, Muda
<1> QED BY <1>4, <1>5, <1>6

LEMMA PassoDecidir ==
  ASSUME IndInv, NEW k \in Contratos,
         AssumirRisco(k) \/ Cancelar(k) \/ \E acao \in Decisoes : ExecutarAcaoAuditoria(k, acao)
  PROVE  IndInv'
<1> USE DEF IndInv
<1> DEFINE Alvos == {"ativo", "cancelado", "pendencia_comercial", "reprovado", "arquivado"}
<1>1. Existe(k) /\ UNCHANGED <<pedidos, limpeza>>
  BY DEF AssumirRisco, Cancelar, ExecutarAcaoAuditoria, PodeDecidir, Decisoes, Existe
<1> DEFINE Escreve(s) == /\ MudarContrato(k, s) \/ Revisar(k, s)
                         /\ (s # "cancelado" /\ CopiarAoCliente(k, s)) \/ (s = "cancelado" /\ DeixarCliente)
                         /\ Decidir(k, s)
           Algum == \E s \in Alvos : Escreve(s)
<1>2a. Algum
  <2>1. ASSUME AssumirRisco(k) PROVE Algum
    BY <2>1 DEF AssumirRisco
  <2>2. ASSUME Cancelar(k) PROVE Algum
    BY <2>2 DEF Cancelar
  <2>3. ASSUME NEW acao \in Decisoes, ExecutarAcaoAuditoria(k, acao) PROVE Algum
    <3>1. ResultadoDe(acao) \in Alvos \ {"cancelado"}
      BY DEF ResultadoDe, Decisoes
    <3>2. Escreve(ResultadoDe(acao))
      BY <2>3, <3>1 DEF ExecutarAcaoAuditoria
    <3> QED BY <3>1, <3>2
  <2> HIDE DEF Algum
  <2> QED BY <2>1, <2>2, <2>3
<1>2b. PICK s \in Alvos : Escreve(s)
  BY <1>2a
<1>3. /\ s \in ContratoStatus \ {"ausente"}
      /\ s \in {"ativo"} \cup Fechados \cup Abertos
      /\ s # "cancelado" => s \in ClienteStatus
  BY <1>2b DEF ContratoStatus, ClienteStatus, Abertos, Fechados
<1>4. Muda(k, s)
  BY <1>2b, <1>3, MudarUm
<1>4a. /\ decisao'[k] \in {NULL, s}
       /\ \A j \in Contratos \ {k} : decisao'[j] = decisao[j]
  BY <1>2b DEF Decidir, TypeOK
<1>5. clientes' \in [Clientes -> ClienteRow] /\ espelho' \in [Clientes -> SUBSET Contratos] /\ EspelhoInv'
  <2>1. CASE s # "cancelado" /\ CopiarAoCliente(k, s)
    BY <1>1, <1>3, <1>4, <1>4a, <2>1, EspelhoCopia
  <2>2. CASE s = "cancelado" /\ DeixarCliente
    BY <1>4, <1>4a, <2>2, EspelhoDeixa DEF SemCliente
  <2> QED BY <1>2b, <2>1, <2>2
<1>6. decisao' \in [Contratos -> ContratoStatus \cup {NULL}] /\ DecisaoInv'
  BY <1>1, <1>2b, <1>3, <1>4, DecisaoDecidir
<1>7. Ligado'
  BY <1>1, <1>3, <1>4, LigadoMuda
<1>8. TypeOK'
  BY <1>1, <1>4, <1>5, <1>6 DEF TypeOK, Muda
<1> QED BY <1>5, <1>6, <1>7, <1>8

-----------------------------------------------------------------------------
(* The nightly job, the clients and the clock. *)

LEMMA PassoSelecionar ==
  ASSUME IndInv, SelecionarVencidos
  PROVE  IndInv'
<1> USE DEF IndInv
<1>1. UNCHANGED <<contratos, clientes, pedidos, decisao, espelho>> /\ limpeza' = Vencidos
  BY DEF SelecionarVencidos
<1>2. Vencidos \subseteq Contratos /\ \A k \in Vencidos : Existe(k) /\ contratos[k].status = "reprovado"
  BY DEF Vencidos, Existe
<1>3. TypeOK'
  BY <1>1, <1>2 DEF TypeOK
<1>4. Ligado' /\ EspelhoInv'
  BY <1>1, <1>2 DEF Ligado, EspelhoInv, Existe, Concorda
<1>5. DecisaoInv'
  <2>1. \A k \in Vencidos : decisao[k] \in {NULL, "reprovado"}
    BY <1>2 DEF DecisaoInv
  <2> QED BY <1>1, <2>1 DEF DecisaoInv
<1> QED BY <1>3, <1>4, <1>5

LEMMA PassoCancelarVencidos ==
  ASSUME IndInv, CancelarVencidos
  PROVE  IndInv'
<1> USE DEF IndInv
<1> DEFINE novo == "cancelado_automaticamente"
<1>1. limpeza # NULL /\ limpeza \subseteq Contratos /\ limpeza' = NULL /\ UNCHANGED pedidos
  BY DEF CancelarVencidos, Ligado
<1>2. /\ contratos' \in [Contratos -> ContratoRow]
      /\ \A k \in limpeza : contratos'[k].status = novo /\ contratos'[k].cliente = contratos[k].cliente
      /\ \A k \in Contratos \ limpeza : contratos'[k] = contratos[k]
  <2> DEFINE r(k) == IF k \in limpeza THEN [contratos[k] EXCEPT !.status = novo, !.autocancelado = TRUE] ELSE contratos[k]
  <2>1. contratos' = [k \in Contratos |-> r(k)]
    BY DEF CancelarVencidos
  <2>2. \A k \in Contratos : r(k) \in ContratoRow /\ r(k).cliente = contratos[k].cliente
                            /\ (k \in limpeza => r(k).status = novo)
    BY DEF TypeOK, ContratoRow, ContratoStatus, Fechados
  <2>3. \A k \in Contratos \ limpeza : r(k) = contratos[k]
    OBVIOUS
  <2> HIDE DEF r
  <2> QED BY <1>1, <2>1, <2>2, <2>3
<1>3. /\ clientes' \in [Clientes -> ClienteRow]
      /\ \A c \in Clientes : IF Cancelados(c) = {} THEN clientes'[c] = clientes[c] ELSE clientes'[c].status = novo
  <2> DEFINE r(c) == IF Cancelados(c) = {} THEN clientes[c] ELSE [clientes[c] EXCEPT !.status = novo]
  <2>1. clientes' = [c \in Clientes |-> r(c)]
    BY DEF CancelarVencidos, ClientesCancelados
  <2>2. \A c \in Clientes : r(c) \in ClienteRow /\ (Cancelados(c) # {} => r(c).status = novo)
    BY DEF TypeOK, ClienteRow, ClienteStatus
  <2>3. \A c \in Clientes : Cancelados(c) = {} => r(c) = clientes[c]
    OBVIOUS
  <2> HIDE DEF r
  <2> QED BY <2>1, <2>2, <2>3
<1>4. \A c \in Clientes : espelho'[c] = IF Cancelados(c) = {} THEN espelho[c] ELSE Cancelados(c)
  BY DEF CancelarVencidos
<1>5. espelho' \in [Clientes -> SUBSET Contratos]
  BY <1>1 DEF CancelarVencidos, Cancelados, TypeOK
<1>6. decisao' = [k \in Contratos |-> IF k \in limpeza /\ decisao[k] = "reprovado" THEN NULL ELSE decisao[k]]
  BY DEF CancelarVencidos
<1>7. TypeOK'
  BY <1>1, <1>2, <1>3, <1>5, <1>6 DEF TypeOK
<1>8. Ligado'
  <2>1. \A k \in Contratos : contratos'[k].status # "ausente" <=> Existe(k)
    BY <1>1, <1>2 DEF Ligado, Existe
  <2>2. \A k \in Contratos : contratos'[k].cliente = contratos[k].cliente
    BY <1>2
  <2> QED BY <1>1, <2>1, <2>2 DEF Ligado, Existe
<1>9. DecisaoInv'
  <2>1. \A k \in limpeza : decisao'[k] = NULL
    BY <1>1, <1>6 DEF DecisaoInv
  <2>2. \A k \in Contratos \ limpeza : decisao'[k] = decisao[k]
    BY <1>6
  <2>3. \A k \in Contratos : decisao'[k] # NULL => decisao'[k] \in {"ativo"} \cup Fechados /\ contratos'[k].status = decisao'[k]
    BY <1>2, <2>1, <2>2 DEF DecisaoInv
  <2>4. \A p \in Pedidos : pedidos'[p].contrato \in Contratos => decisao'[pedidos'[p].contrato] = NULL
    BY <1>1, <2>1, <2>2 DEF DecisaoInv
  <2> QED BY <1>1, <2>3, <2>4 DEF DecisaoInv
<1>10. EspelhoInv'
  <2> SUFFICES ASSUME NEW c \in Clientes, NEW k \in espelho'[c]
               PROVE  contratos'[k].cliente = c /\ contratos'[k].status # "ausente" /\ Concorda(c, k)'
    BY DEF EspelhoInv, Existe
  <2>1. CASE Cancelados(c) = {}
    <3>1. k \in espelho[c] /\ k \in Contratos /\ contratos[k].cliente = c /\ Existe(k) /\ Concorda(c, k)
      BY <1>4, <2>1 DEF EspelhoInv, TypeOK
    <3>2. k \notin limpeza
      BY <2>1, <3>1 DEF Cancelados
    <3>3. contratos'[k] = contratos[k] /\ decisao'[k] = decisao[k] /\ clientes'[c] = clientes[c]
      BY <1>2, <1>3, <1>6, <2>1, <3>1, <3>2
    <3> QED BY <3>1, <3>3 DEF Existe, Concorda
  <2>2. CASE Cancelados(c) # {}
    <3>1. k \in limpeza /\ contratos[k].cliente = c
      BY <1>4, <2>2 DEF Cancelados
    <3>2. clientes'[c].status = contratos'[k].status
      BY <1>2, <1>3, <2>2, <3>1
    <3> QED BY <1>2, <3>1, <3>2 DEF Concorda
  <2> QED BY <2>1, <2>2
<1> QED BY <1>7, <1>8, <1>9, <1>10

LEMMA PassoEditar ==
  ASSUME IndInv, NEW c \in Clientes, EditarCliente(c)
  PROVE  IndInv'
<1> USE DEF IndInv
<1>1. UNCHANGED <<contratos, pedidos, limpeza, decisao>>
  BY DEF EditarCliente
<1>2. Ligado' /\ DecisaoInv'
  BY <1>1 DEF Ligado, DecisaoInv, Existe
<1>3. CASE \E s \in StatusManuais : clientes' = [clientes EXCEPT ![c].status = s] /\ espelho' = [espelho EXCEPT ![c] = {}]
  <2>1. PICK s \in StatusManuais : clientes' = [clientes EXCEPT ![c] = [clientes[c] EXCEPT !.status = s]]
    BY <1>3
  <2>2. [clientes[c] EXCEPT !.status = s] \in ClienteRow
    BY DEF TypeOK, ClienteRow, ClienteStatus
  <2>3. clientes' \in [Clientes -> ClienteRow] /\ \A d \in Clientes \ {c} : clientes'[d] = clientes[d]
    BY <2>1, <2>2 DEF TypeOK
  <2>4. espelho' \in [Clientes -> SUBSET Contratos] /\ espelho'[c] = {} /\ \A d \in Clientes \ {c} : espelho'[d] = espelho[d]
    BY <1>3 DEF TypeOK
  <2>5. TypeOK'
    BY <1>1, <2>3, <2>4 DEF TypeOK
  <2>6. EspelhoInv'
    BY <1>1, <2>3, <2>4 DEF EspelhoInv, Existe, Concorda
  <2> QED BY <1>2, <2>5, <2>6
<1>4. CASE (\E q \in Perfis : clientes' = [clientes EXCEPT ![c].perfil = q]) /\ UNCHANGED espelho
  <2>1. PICK q \in Perfis : clientes' = [clientes EXCEPT ![c] = [clientes[c] EXCEPT !.perfil = q]]
    BY <1>4
  <2> DEFINE r == [clientes[c] EXCEPT !.perfil = q]
  <2>2. r \in ClienteRow /\ r.status = clientes[c].status
    BY DEF TypeOK, ClienteRow
  <2>3. clientes' \in [Clientes -> ClienteRow] /\ \A d \in Clientes : clientes'[d].status = clientes[d].status
    <3> HIDE DEF r
    <3>1. clientes' = [clientes EXCEPT ![c] = r]
      BY <2>1 DEF r
    <3> QED BY <2>2, <3>1 DEF TypeOK
  <2>4. TypeOK'
    BY <1>1, <1>4, <2>3 DEF TypeOK
  <2>5. EspelhoInv'
    BY <1>1, <1>4, <2>3 DEF EspelhoInv, Existe, Concorda
  <2> QED BY <1>2, <2>4, <2>5
<1> QED BY <1>3, <1>4 DEF EditarCliente

LEMMA PassoDias ==
  ASSUME IndInv, PassarDias
  PROVE  IndInv'
<1> USE DEF IndInv
<1>1. UNCHANGED <<clientes, pedidos, limpeza, decisao, espelho>>
  BY DEF PassarDias
<1>2. /\ contratos' \in [Contratos -> ContratoRow]
      /\ \A k \in Contratos : contratos'[k].status = contratos[k].status /\ contratos'[k].cliente = contratos[k].cliente
  <2> DEFINE r(k) == IF contratos[k].revisado \in {0, 1} THEN [contratos[k] EXCEPT !.revisado = contratos[k].revisado + 1]
                     ELSE contratos[k]
  <2>1. contratos' = [k \in Contratos |-> r(k)]
    BY DEF PassarDias
  <2>2. \A k \in Contratos : r(k) \in ContratoRow /\ r(k).status = contratos[k].status /\ r(k).cliente = contratos[k].cliente
    BY DEF TypeOK, ContratoRow
  <2> HIDE DEF r
  <2> QED BY <2>1, <2>2
<1>3. TypeOK'
  BY <1>1, <1>2 DEF TypeOK
<1>4. Ligado' /\ DecisaoInv'
  BY <1>1, <1>2 DEF Ligado, DecisaoInv, Existe
<1>5. EspelhoInv'
  BY <1>1, <1>2 DEF EspelhoInv, Existe, TypeOK, Concorda
<1> QED BY <1>3, <1>4, <1>5

-----------------------------------------------------------------------------
LEMMA PassoIndutivo == IndInv /\ [Next]_vars => IndInv'
<1> SUFFICES ASSUME IndInv, [Next]_vars PROVE IndInv'
  OBVIOUS
<1>1. CASE UNCHANGED vars
  BY <1>1 DEF vars, IndInv, TypeOK, Ligado, DecisaoInv, EspelhoInv, Existe, Concorda
<1>2. ASSUME NEW p \in Pedidos, NEW c \in Clientes, PedirContrato(p, c) PROVE IndInv'
  BY <1>2, PassoDoPedido
<1>3. ASSUME NEW p \in Pedidos, NEW k \in Contratos,
             LerParaAssinar(p, k) \/ LerParaAnalisar(p, k) \/ LerParaAtivar(p, k)
      PROVE  IndInv'
  BY <1>3, PassoDoPedido
<1>4. ASSUME NEW p \in Pedidos, NEW k \in Contratos, CriarContrato(p, k) PROVE IndInv'
  BY <1>4, PassoCriar
<1>5. ASSUME NEW p \in Pedidos, AssinarDigital(p) \/ Analisar(p) \/ Ativar(p) PROVE IndInv'
  BY <1>5, PassoEscrever
<1>6. ASSUME NEW k \in Contratos, Assinar(k) PROVE IndInv'
  BY <1>6, PassoAssinar
<1>7. ASSUME NEW k \in Contratos, AssumirRisco(k) \/ Cancelar(k) \/ \E acao \in Decisoes : ExecutarAcaoAuditoria(k, acao)
      PROVE  IndInv'
  BY <1>7, PassoDecidir
<1>8. ASSUME NEW c \in Clientes, EditarCliente(c) PROVE IndInv'
  BY <1>8, PassoEditar
<1> QED BY <1>1, <1>2, <1>3, <1>4, <1>5, <1>6, <1>7, <1>8, PassoSelecionar, PassoCancelarVencidos, PassoDias DEF Next

LEMMA Indutivo == Spec => []IndInv
<1> QED BY InitInv, PassoIndutivo, PTL DEF Spec

(* Every reachable state of the contracts is well typed: no handler writes a status the   *)
(* CHECK of the table refuses.                                                            *)
THEOREM TypeCorrect == Spec => []TypeOK
<1>1. IndInv => TypeOK
  BY DEF IndInv
<1> QED BY <1>1, Indutivo, PTL

(* For every number of contracts and requests in flight, a decision nobody had read in    *)
(* order to write stays until somebody who sees it takes another.                         *)
THEOREM DecisaoCorrect == Spec => []DecisaoFirme
<1>1. IndInv => DecisaoFirme
  BY DEF IndInv, DecisaoInv, DecisaoFirme
<1> QED BY <1>1, Indutivo, PTL

(* For every number of contracts, clients and requests in flight: where a client and the  *)
(* contract that last gave it its status part, the contract is in analysis, active or     *)
(* cancelled, and by no decision that stands.                                             *)
THEOREM EspelhoCorrect == Spec => []ClienteEspelhaContrato
<1>1. IndInv => ClienteEspelhaContrato
  BY DEF IndInv, EspelhoInv, Concorda, ClienteEspelhaContrato
<1> QED BY <1>1, Indutivo, PTL
=============================================================================
