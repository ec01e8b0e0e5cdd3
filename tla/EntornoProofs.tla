---------------------------- MODULE EntornoProofs ----------------------------
(***************************************************************************)
(* The other parts of Entorno: leads, the TikTok account of a unit, the    *)
(* streams of the live toolkit, the knowledge base and the recurring       *)
(* events; and the behaviour of all the parts, which is one of each.       *)
(***************************************************************************)
EXTENDS PedidosProofs, FiniteSetTheorems

-----------------------------------------------------------------------------
(* Leads and their clients. *)

(* A conversion holds a lead that is there and was not won, alone. *)
ConversaoInv ==
  /\ \A t \in Transacoes : transacoes[t] # NULL => Convertivel(transacoes[t])
  /\ \A t, u \in Transacoes : transacoes[t] # NULL /\ transacoes[t] = transacoes[u] => t = u

(* The client of a lead: it stays won as long as nobody reopens it. *)
ClienteInv ==
  \A c \in Clientes :
    clientes[c] # NULL =>
      /\ leads[clientes[c]].status # "ausente"
      /\ clientes[c] \notin reabertos => leads[clientes[c]].etapa = "ganho" /\ leads[clientes[c]].convertido = c

(* Under replay protection a form is in one delivery or in one lead, and in the log. *)
EventoInv ==
  replay =>
    /\ \A l \in Leads : leads[l].evento # NULL => leads[l].evento \in nonces
    /\ \A l, m \in Leads : leads[l].evento # NULL /\ leads[l].evento = leads[m].evento => l = m
    /\ \A d \in Entregas :
         entregas[d] # NULL => entregas[d] \in nonces /\ \A l \in Leads : leads[l].evento # entregas[d]
    /\ \A d, x \in Entregas : entregas[d] # NULL /\ entregas[d] = entregas[x] => d = x

(* The inductive invariant of Funil. *)
IndInvFunil == TypeOK /\ ConversaoInv /\ ClienteInv /\ EventoInv

-----------------------------------------------------------------------------
LEMMA InitInvFunil == Init => IndInvFunil
<1> SUFFICES ASSUME Init PROVE IndInvFunil
  OBVIOUS
<1>1. SemLead \in LeadRow
  BY DEF SemLead, LeadRow, Etapas
<1>2. TypeOK
  BY <1>1 DEF Init, TypeOK
<1>3. ConversaoInv /\ ClienteInv
  BY DEF Init, ConversaoInv, ClienteInv
<1>4. EventoInv
  BY DEF Init, EventoInv, SemLead
<1> QED BY <1>2, <1>3, <1>4 DEF IndInvFunil

(* One lead changes. *)
Muda(l) ==
  /\ leads' \in [Leads -> LeadRow]
  /\ \A m \in Leads \ {l} : leads'[m] = leads[m]

LEMMA MudarEtapa ==
  ASSUME TypeOK, NEW l \in Leads, NEW row \in LeadRow, leads' = [leads EXCEPT ![l] = row]
  PROVE  Muda(l) /\ leads'[l] = row
  BY DEF TypeOK, Muda

-----------------------------------------------------------------------------
(* The webhook, and leads entered by hand. *)

LEMMA PassoReceber ==
  ASSUME IndInvFunil, NEW d \in Entregas, NEW e \in Eventos, ReceberEvento(d, e)
  PROVE  IndInvFunil'
<1> USE DEF IndInvFunil
<1>1. /\ UNCHANGED <<leads, clientes, replay, transacoes, reabertos>>
      /\ entregas' = [entregas EXCEPT ![d] = e]
      /\ nonces' \subseteq Eventos /\ nonces \subseteq nonces'
      /\ replay => e \notin nonces /\ e \in nonces'
  BY DEF ReceberEvento, GuardarNonce, TypeOK
<1>2. entregas' \in [Entregas -> Eventos \cup {NULL}] /\ entregas'[d] = e
      /\ \A x \in Entregas \ {d} : entregas'[x] = entregas[x]
  BY <1>1 DEF TypeOK
<1>3. TypeOK'
  BY <1>1, <1>2 DEF TypeOK
<1>4. ConversaoInv' /\ ClienteInv'
  BY <1>1 DEF ConversaoInv, ClienteInv, Convertivel, Existe
<1>5. EventoInv'
  <2>1. CASE replay /\ e # NULL
    <3>1. \A l \in Leads : leads[l].evento # e
      BY <1>1, <2>1 DEF EventoInv
    <3>2. \A x \in Entregas : entregas[x] # e
      BY <1>1, <2>1 DEF EventoInv
    <3> QED BY <1>1, <1>2, <2>1, <3>1, <3>2 DEF EventoInv
  <2>2. CASE replay /\ e = NULL
    BY <1>1, <1>2, <2>2 DEF EventoInv
  <2>3. CASE ~replay
    BY <1>1, <2>3 DEF EventoInv
  <2> QED BY <2>1, <2>2, <2>3 DEF TypeOK
<1> QED BY <1>3, <1>4, <1>5

LEMMA Inserido ==
  ASSUME IndInvFunil, NEW l \in Leads, NEW row \in LeadRow, row.status # "ausente", InserirLead(l, row),
         UNCHANGED <<clientes, transacoes, reabertos>>
  PROVE  Muda(l) /\ leads'[l] = row /\ ConversaoInv' /\ ClienteInv'
<1> USE DEF IndInvFunil
<1>1. Muda(l) /\ leads'[l] = row /\ leads[l].status = "ausente"
  BY MudarEtapa DEF InserirLead
<1>2. \A t \in Transacoes : transacoes[t] # NULL => transacoes[t] \in Leads \ {l}
  BY <1>1 DEF ConversaoInv, Convertivel, Existe, TypeOK
<1>3. \A c \in Clientes : clientes[c] # NULL => clientes[c] \in Leads \ {l}
  BY <1>1 DEF ClienteInv, TypeOK
<1>4. ConversaoInv'
  BY <1>1, <1>2 DEF ConversaoInv, Convertivel, Existe, Muda
<1>5. ClienteInv'
  BY <1>1, <1>3 DEF ClienteInv, Muda
<1> QED BY <1>1, <1>4, <1>5

LEMMA PassoCriarPeloWebhook ==
  ASSUME IndInvFunil, NEW d \in Entregas, NEW l \in Leads, CriarPeloWebhook(d, l)
  PROVE  IndInvFunil'
<1> USE DEF IndInvFunil
<1> DEFINE row == [SemLead EXCEPT !.status = "disponivel", !.evento = entregas[d]]
<1>1. row \in LeadRow /\ row.status = "disponivel" /\ row.evento = entregas[d]
  BY DEF TypeOK, LeadRow, SemLead, Etapas
<1>2. InserirLead(l, row) /\ entregas[d] # NULL /\ UNCHANGED <<clientes, replay, nonces, transacoes, reabertos>>
  BY DEF CriarPeloWebhook
<1> HIDE DEF row
<1>3. Muda(l) /\ leads'[l] = row /\ ConversaoInv' /\ ClienteInv'
  BY <1>1, <1>2, Inserido
<1>4. entregas' \in [Entregas -> Eventos \cup {NULL}] /\ entregas'[d] = NULL
      /\ \A x \in Entregas \ {d} : entregas'[x] = entregas[x]
  BY DEF CriarPeloWebhook, TypeOK
<1>5. TypeOK'
  BY <1>2, <1>3, <1>4 DEF TypeOK, Muda
<1>6. EventoInv'
  BY <1>1, <1>2, <1>3, <1>4 DEF EventoInv, Muda
<1> QED BY <1>3, <1>5, <1>6

LEMMA PassoFalhar ==
  ASSUME IndInvFunil, NEW d \in Entregas, FalharEntrega(d)
  PROVE  IndInvFunil'
<1> USE DEF IndInvFunil
<1>1. UNCHANGED <<leads, clientes, replay, nonces, transacoes, reabertos>>
  BY DEF FalharEntrega
<1>2. entregas' \in [Entregas -> Eventos \cup {NULL}] /\ entregas'[d] = NULL
      /\ \A x \in Entregas \ {d} : entregas'[x] = entregas[x]
  BY DEF FalharEntrega, TypeOK
<1> QED BY <1>1, <1>2 DEF TypeOK, ConversaoInv, ClienteInv, EventoInv, Convertivel, Existe

LEMMA PassoCriar ==
  ASSUME IndInvFunil, NEW l \in Leads, NEW etapa \in Etapas, CriarLead(l, etapa)
  PROVE  IndInvFunil'
<1> USE DEF IndInvFunil
<1> DEFINE row == [SemLead EXCEPT !.status = "pego", !.etapa = etapa]
<1>1. row \in LeadRow /\ row.status = "pego" /\ row.evento = NULL
  BY DEF LeadRow, SemLead
<1>2. InserirLead(l, row) /\ UNCHANGED <<clientes, replay, nonces, entregas, transacoes, reabertos>>
  BY DEF CriarLead
<1> HIDE DEF row
<1>3. Muda(l) /\ leads'[l] = row /\ ConversaoInv' /\ ClienteInv'
  BY <1>1, <1>2, Inserido
<1>4. TypeOK'
  BY <1>2, <1>3 DEF TypeOK, Muda
<1>5. EventoInv'
  BY <1>1, <1>2, <1>3 DEF EventoInv, Muda
<1> QED BY <1>3, <1>4, <1>5

-----------------------------------------------------------------------------
(* The CRM. *)

LEMMA EventoParado ==
  ASSUME EventoInv, NEW l \in Leads, Muda(l), leads'[l].evento = leads[l].evento,
         UNCHANGED <<replay, nonces, entregas>>
  PROVE  EventoInv'
<1>1. \A m \in Leads : leads'[m].evento = leads[m].evento
  BY DEF Muda
<1> QED BY <1>1 DEF EventoInv

LEMMA PassoEditar ==
  ASSUME IndInvFunil, NEW l \in Leads, NEW etapa \in Etapas, EditarLead(l, etapa)
  PROVE  IndInvFunil'
<1> USE DEF IndInvFunil
<1> DEFINE row == [leads[l] EXCEPT !.etapa = etapa]
<1>1. row \in LeadRow /\ row.status = leads[l].status /\ row.etapa = etapa /\ row.evento = leads[l].evento
      /\ row.convertido = leads[l].convertido
  BY DEF TypeOK, LeadRow
<1>2. leads' = [leads EXCEPT ![l] = row] /\ ~Travado(l) /\ UNCHANGED <<clientes, replay, nonces, entregas, transacoes>>
  BY DEF EditarLead
<1>3. /\ reabertos' \subseteq Leads /\ reabertos \subseteq reabertos'
      /\ (leads[l].etapa = "ganho" /\ etapa # "ganho" => l \in reabertos')
  BY DEF EditarLead, TypeOK
<1> HIDE DEF row
<1>4. Muda(l) /\ leads'[l] = row
  BY <1>1, <1>2, MudarEtapa
<1>5. TypeOK'
  BY <1>2, <1>3, <1>4 DEF TypeOK, Muda
<1>6. ConversaoInv'
  <2>1. \A t \in Transacoes : transacoes[t] # NULL => transacoes[t] \in Leads \ {l}
    BY <1>2 DEF Travado, TypeOK
  <2> QED BY <1>2, <1>4, <2>1 DEF ConversaoInv, Convertivel, Existe, Muda
<1>7. ClienteInv'
  <2>1. \A c \in Clientes : clientes[c] # NULL => clientes[c] \in Leads
    BY DEF TypeOK
  <2> QED BY <1>1, <1>2, <1>3, <1>4, <2>1 DEF ClienteInv, Muda
<1>8. EventoInv'
  BY <1>1, <1>2, <1>4, EventoParado
<1> QED BY <1>5, <1>6, <1>7, <1>8

LEMMA PassoStatus ==
  ASSUME IndInvFunil, NEW l \in Leads, ExcluirLead(l) \/ Pegar(l)
  PROVE  IndInvFunil'
<1> USE DEF IndInvFunil
<1>1. PICK s \in {"excluido", "pego"} : leads' = [leads EXCEPT ![l] = [leads[l] EXCEPT !.status = s]]
  BY DEF ExcluirLead, Pegar
<1> DEFINE row == [leads[l] EXCEPT !.status = s]
<1>2. row \in LeadRow /\ row.status = s /\ row.etapa = leads[l].etapa /\ row.evento = leads[l].evento
      /\ row.convertido = leads[l].convertido
  BY DEF TypeOK, LeadRow
<1>3. ~Travado(l) /\ UNCHANGED <<clientes, replay, nonces, entregas, transacoes, reabertos>>
  BY DEF ExcluirLead, Pegar
<1>4. leads' = [leads EXCEPT ![l] = row]
  BY <1>1
<1> HIDE DEF row
<1>5. Muda(l) /\ leads'[l] = row
  BY <1>2, <1>4, MudarEtapa
<1>6. TypeOK'
  BY <1>3, <1>5 DEF TypeOK, Muda
<1>7. ConversaoInv'
  <2>1. \A t \in Transacoes : transacoes[t] # NULL => transacoes[t] \in Leads \ {l}
    BY <1>3 DEF Travado, TypeOK
  <2> QED BY <1>3, <1>5, <2>1 DEF ConversaoInv, Convertivel, Existe, Muda
<1>8. ClienteInv'
  <2>1. \A c \in Clientes : clientes[c] # NULL => clientes[c] \in Leads
    BY DEF TypeOK
  <2> QED BY <1>2, <1>3, <1>5, <2>1 DEF ClienteInv, Muda
<1>9. EventoInv'
  BY <1>2, <1>3, <1>5, EventoParado
<1> QED BY <1>6, <1>7, <1>8, <1>9

-----------------------------------------------------------------------------
(* Conversions. *)

LEMMA PassoComecarFunil ==
  ASSUME IndInvFunil, NEW t \in Transacoes, NEW l \in Leads, ComecarConversao(t, l)
  PROVE  IndInvFunil'
<1> USE DEF IndInvFunil
<1>1. UNCHANGED <<leads, clientes, replay, nonces, entregas, reabertos>> /\ Convertivel(l)
      /\ \A u \in Transacoes : transacoes[u] # l
  BY DEF ComecarConversao, Travado
<1>2. transacoes' \in [Transacoes -> Leads \cup {NULL}] /\ transacoes'[t] = l
      /\ \A u \in Transacoes \ {t} : transacoes'[u] = transacoes[u]
  BY DEF ComecarConversao, TypeOK
<1>3. ConversaoInv'
  BY <1>1, <1>2 DEF ConversaoInv, Convertivel, Existe
<1> QED BY <1>1, <1>2, <1>3 DEF TypeOK, ClienteInv, EventoInv

LEMMA PassoDesfazerFunil ==
  ASSUME IndInvFunil, NEW t \in Transacoes, DesfazerConversao(t)
  PROVE  IndInvFunil'
<1> USE DEF IndInvFunil
<1>1. UNCHANGED <<leads, clientes, replay, nonces, entregas, reabertos>>
  BY DEF DesfazerConversao
<1>2. transacoes' \in [Transacoes -> Leads \cup {NULL}] /\ transacoes'[t] = NULL
      /\ \A u \in Transacoes \ {t} : transacoes'[u] = transacoes[u]
  BY DEF DesfazerConversao, TypeOK
<1>3. ConversaoInv'
  BY <1>1, <1>2 DEF ConversaoInv, Convertivel, Existe
<1> QED BY <1>1, <1>2, <1>3 DEF TypeOK, ClienteInv, EventoInv

LEMMA PassoConverter ==
  ASSUME IndInvFunil, NEW t \in Transacoes, NEW c \in Clientes, Converter(t, c)
  PROVE  IndInvFunil'
<1> USE DEF IndInvFunil
<1> DEFINE l == transacoes[t]
<1>1. l \in Leads /\ l # NULL /\ Convertivel(l) /\ clientes[c] = NULL
      /\ UNCHANGED <<replay, nonces, entregas, reabertos>>
  BY DEF Converter, TypeOK, ConversaoInv
<1> DEFINE row == [leads[l] EXCEPT !.etapa = "ganho", !.status = "pego", !.convertido = c]
<1>2. row \in LeadRow /\ row.status = "pego" /\ row.etapa = "ganho"
      /\ row.evento = leads[l].evento /\ row.convertido = c
  BY <1>1, ZenonT(60) DEF TypeOK, LeadRow, Etapas
<1>3. leads' = [leads EXCEPT ![l] = row]
  BY <1>1 DEF Converter, TypeOK, LeadRow
<1> HIDE DEF row
<1>4. Muda(l) /\ leads'[l] = row
  BY <1>1, <1>2, <1>3, MudarEtapa
<1>5. clientes' \in [Clientes -> Leads \cup {NULL}] /\ clientes'[c] = l
      /\ \A d \in Clientes \ {c} : clientes'[d] = clientes[d]
  BY <1>1 DEF Converter, TypeOK
<1>6. transacoes' \in [Transacoes -> Leads \cup {NULL}] /\ transacoes'[t] = NULL
      /\ \A u \in Transacoes \ {t} : transacoes'[u] = transacoes[u]
  BY DEF Converter, TypeOK
<1>7. TypeOK'
  BY <1>1, <1>4, <1>5, <1>6 DEF TypeOK, Muda
<1>8. ConversaoInv'
  <2>1. \A u \in Transacoes \ {t} : transacoes[u] # NULL => transacoes[u] \in Leads \ {l}
    BY <1>1 DEF ConversaoInv, TypeOK
  <2> QED BY <1>4, <1>6, <2>1 DEF ConversaoInv, Convertivel, Existe, Muda
<1>9. ClienteInv'
  <2>1. \A d \in Clientes \ {c} : clientes[d] # NULL => clientes[d] \in Leads /\ (clientes[d] = l => l \in reabertos)
    BY <1>1 DEF ClienteInv, Convertivel, TypeOK
  <2> QED BY <1>1, <1>2, <1>4, <1>5, <2>1 DEF ClienteInv, Muda
<1>10. EventoInv'
  BY <1>1, <1>2, <1>4, EventoParado
<1> QED BY <1>7, <1>8, <1>9, <1>10

-----------------------------------------------------------------------------
LEMMA PassoIndutivo == IndInvFunil /\ [Next]_vars => IndInvFunil'
<1> SUFFICES ASSUME IndInvFunil, [Next]_vars PROVE IndInvFunil'
  OBVIOUS
<1>1. CASE UNCHANGED vars
  BY <1>1 DEF vars, IndInvFunil, TypeOK, ConversaoInv, ClienteInv, EventoInv, Convertivel, Existe
<1> QED BY <1>1, PassoReceber, PassoCriarPeloWebhook, PassoFalhar, PassoCriar, PassoEditar, PassoStatus,
           PassoComecarFunil, PassoConverter, PassoDesfazerFunil DEF Next

LEMMA Indutivo == Spec => []IndInvFunil
<1> QED BY InitInvFunil, PassoIndutivo, PTL DEF Spec

(* For every number of leads and conversions in flight, the client born of a lead is the  *)
(* one the lead points to, unless the lead was reopened.                                  *)
THEOREM ClienteDoLeadCorrect == Spec => []ClienteDoLead
<1>1. IndInvFunil => ClienteDoLead
  BY DEF IndInvFunil, ClienteInv, ClienteDoLead
<1> QED BY <1>1, Indutivo, PTL

(* For every number of deliveries, overlapping, failed or repeated, replay protection     *)
(* keeps a form from giving two leads.                                                    *)
THEOREM LeadUnicoCorrect == Spec => []LeadUnicoPorEvento
<1>1. IndInvFunil => LeadUnicoPorEvento
  BY DEF IndInvFunil, EventoInv, LeadUnicoPorEvento
<1> QED BY <1>1, Indutivo, PTL
-----------------------------------------------------------------------------
(* The TikTok account of a unit. *)

LEMMA RemocoesAssumption == MaxRemocoes \in Nat
BY EntornoConstantes DEF EntornoAssumption

LEMMA NuloForaTikTok == NULL \notin Unidades \cup Contas \cup K!Token
BY EntornoConstantes DEF EntornoAssumption, K!Token

(* A removal of the account after the token was given is still to be delivered. *)
ACaminho(k) == \E n \in 1..MaxRemocoes : n > k.numero /\ <<k.conta, n>> \in kEventos

(* A unit is told by its account: a token in time belongs to the account of the row. *)
UnidadeFirme(t) ==
  LET k == kTenants[t].token IN
  k # NULL /\ ~kTenants[t].tardio =>
    /\ k.conta = kTenants[t].conta
    /\ K!Retirado(k) => ACaminho(k) \/ \E p \in Pedidos : kPedidos[p].pc = "limpar" /\ kPedidos[p].unidade = t

(* So does a token that a request in time holds. *)
PedidoFirmeTikTok(p) ==
  LET k == kPedidos[p].token IN
  /\ kPedidos[p].pc # "livre" => kPedidos[p].unidade \in Unidades
  /\ kPedidos[p].pc \in {"callback", "renovar", "gravar"} => k # NULL
  /\ kPedidos[p].pc \in {"callback", "gravar"} /\ ~kPedidos[p].tardio => (K!Retirado(k) => ACaminho(k))
  /\ kPedidos[p].pc \in {"renovar", "gravar"} /\ ~kPedidos[p].tardio => k.conta = kTenants[kPedidos[p].unidade].conta

(* The inductive invariant of TikTokConta. *)
IndInvTikTok ==
  /\ K!TypeOK
  /\ \A t \in Unidades : UnidadeFirme(t)
  /\ \A p \in Pedidos : PedidoFirmeTikTok(p)

LEMMA TokenTipo == ASSUME NEW k \in K!Token PROVE k # NULL /\ k.conta \in Contas /\ k.numero \in 0..MaxRemocoes
BY NuloForaTikTok DEF K!Token

LEMMA LivreTipoTikTok == K!Livre \in K!PedidoRow /\ K!Livre.pc = "livre"
BY DEF K!Livre, K!PedidoRow

LEMMA InitInvTikTok == K!Init => IndInvTikTok
<1> SUFFICES ASSUME K!Init PROVE IndInvTikTok
  OBVIOUS
<1>1. K!TypeOK
  BY LivreTipoTikTok, RemocoesAssumption DEF K!Init, K!TypeOK, K!TenantRow
<1>2. \A t \in Unidades : UnidadeFirme(t)
  BY DEF K!Init, UnidadeFirme
<1>3. \A p \in Pedidos : PedidoFirmeTikTok(p)
  BY LivreTipoTikTok DEF K!Init, PedidoFirmeTikTok
<1> QED BY <1>1, <1>2, <1>3 DEF IndInvTikTok

-----------------------------------------------------------------------------
LEMMA LinhaTipo ==
  ASSUME K!TypeOK
  PROVE  /\ \A t \in Unidades : kTenants[t] \in K!TenantRow
         /\ \A p \in Pedidos : kPedidos[p] \in K!PedidoRow
BY DEF K!TypeOK

(* One request takes a new row; rows of units and events stay. *)
LEMMA UmPedidoTikTok ==
  ASSUME IndInvTikTok, NEW p \in Pedidos, NEW row \in K!PedidoRow, kPedidos' = [kPedidos EXCEPT ![p] = row],
         UNCHANGED <<kTenants, kRemovidas, kEventos>>, kPedidos[p].pc # "limpar", PedidoFirmeTikTok(p)'
  PROVE  IndInvTikTok'
<1>1. /\ kPedidos' \in [Pedidos -> K!PedidoRow] /\ kPedidos'[p] = row
      /\ \A q \in Pedidos \ {p} : kPedidos'[q] = kPedidos[q]
  BY DEF IndInvTikTok, K!TypeOK
<1>2. K!TypeOK'
  BY <1>1 DEF IndInvTikTok, K!TypeOK
<1>3. \A t \in Unidades : UnidadeFirme(t)'
  BY <1>1 DEF IndInvTikTok, UnidadeFirme, K!Retirado, ACaminho
<1>4. \A q \in Pedidos : PedidoFirmeTikTok(q)'
  BY <1>1 DEF IndInvTikTok, PedidoFirmeTikTok, K!Retirado, ACaminho
<1> QED BY <1>2, <1>3, <1>4 DEF IndInvTikTok

LEMMA PassoTrocarCodigo ==
  ASSUME IndInvTikTok, NEW p \in Pedidos, NEW t \in Unidades, NEW a \in Contas, K!TrocarCodigo(p, t, a)
  PROVE  IndInvTikTok'
<1> DEFINE k == K!TokenNovo(a)
           row == [pc |-> "callback", unidade |-> t, token |-> k, tardio |-> FALSE]
<1>1. k \in K!Token /\ ~K!Retirado(k)
  BY RemocoesAssumption DEF K!TokenNovo, K!Token, K!Retirado, IndInvTikTok, K!TypeOK
<1>2. PICK c \in K!Token : c = k
  BY <1>1
<1> DEFINE r == [pc |-> "callback", unidade |-> t, token |-> c, tardio |-> FALSE]
<1>3. /\ kPedidos[p].pc = "livre" /\ kPedidos' = [kPedidos EXCEPT ![p] = r]
      /\ UNCHANGED <<kTenants, kRemovidas, kEventos>>
  BY <1>2 DEF K!TrocarCodigo, K!Comecar
<1>4. r \in K!PedidoRow /\ r.pc = "callback" /\ r.unidade = t /\ r.token = c
  BY DEF K!PedidoRow
<1> HIDE DEF r
<1>5. kPedidos'[p] = r
  BY <1>3 DEF IndInvTikTok, K!TypeOK
<1>6. PedidoFirmeTikTok(p)'
  BY <1>1, <1>2, <1>3, <1>4, <1>5, TokenTipo DEF PedidoFirmeTikTok, K!Retirado
<1> QED BY <1>3, <1>4, <1>6, UmPedidoTikTok

LEMMA PassoLerParaRenovar ==
  ASSUME IndInvTikTok, NEW p \in Pedidos, NEW t \in Unidades, K!LerParaRenovar(p, t)
  PROVE  IndInvTikTok'
<1>1. PICK r \in K!TenantRow : r = kTenants[t]
  BY LinhaTipo DEF IndInvTikTok
<1> DEFINE row == [pc |-> "renovar", unidade |-> t, token |-> r.token, tardio |-> r.tardio]
<1>2. /\ kPedidos[p].pc = "livre" /\ kPedidos' = [kPedidos EXCEPT ![p] = row] /\ r.token # NULL
      /\ UNCHANGED <<kTenants, kRemovidas, kEventos>>
  BY <1>1 DEF K!LerParaRenovar, K!Comecar
<1>3. row \in K!PedidoRow /\ row.pc = "renovar" /\ row.unidade = t /\ row.token = r.token /\ row.tardio = r.tardio
  BY DEF K!PedidoRow, K!TenantRow
<1> HIDE DEF row
<1>4. kPedidos'[p] = row
  BY <1>2 DEF IndInvTikTok, K!TypeOK
<1>5. ~r.tardio => r.token.conta = kTenants[t].conta
  BY <1>1, <1>2 DEF IndInvTikTok, UnidadeFirme
<1>6. PedidoFirmeTikTok(p)'
  BY <1>2, <1>3, <1>4, <1>5 DEF PedidoFirmeTikTok
<1> QED BY <1>2, <1>3, <1>6, UmPedidoTikTok

LEMMA PassoRenovar ==
  ASSUME IndInvTikTok, NEW p \in Pedidos, K!Renovar(p)
  PROVE  IndInvTikTok'
<1> DEFINE row == [kPedidos[p] EXCEPT !.pc = "gravar"]
<1>1. /\ kPedidos[p].pc = "renovar" /\ ~K!Retirado(kPedidos[p].token) /\ kPedidos' = [kPedidos EXCEPT ![p] = row]
      /\ UNCHANGED <<kTenants, kRemovidas, kEventos>>
  BY DEF K!Renovar
<1>2. /\ row \in K!PedidoRow /\ row.pc = "gravar" /\ row.unidade = kPedidos[p].unidade
      /\ row.token = kPedidos[p].token /\ row.tardio = kPedidos[p].tardio
  BY DEF K!PedidoRow, IndInvTikTok, K!TypeOK
<1> HIDE DEF row
<1>3. kPedidos'[p] = row
  BY <1>1 DEF IndInvTikTok, K!TypeOK
<1>4. PedidoFirmeTikTok(p)'
  BY <1>1, <1>2, <1>3 DEF IndInvTikTok, PedidoFirmeTikTok, K!Retirado
<1> QED BY <1>1, <1>2, <1>4, UmPedidoTikTok

LEMMA PassoDesistirTikTok ==
  ASSUME IndInvTikTok, NEW p \in Pedidos, K!Desistir(p)
  PROVE  IndInvTikTok'
<1>1. /\ kPedidos[p].pc # "limpar" /\ kPedidos' = [kPedidos EXCEPT ![p] = K!Livre]
      /\ UNCHANGED <<kTenants, kRemovidas, kEventos>>
  BY DEF K!Desistir
<1>2. kPedidos'[p] = K!Livre
  BY <1>1 DEF IndInvTikTok, K!TypeOK
<1>3. PedidoFirmeTikTok(p)'
  BY <1>2, LivreTipoTikTok DEF PedidoFirmeTikTok
<1> QED BY <1>1, <1>3, LivreTipoTikTok, UmPedidoTikTok

-----------------------------------------------------------------------------
(* A request writes the row of its unit, and those that renew it are late. *)

LEMMA TerminaEscrita ==
  ASSUME IndInvTikTok, NEW p \in Pedidos, K!TerminarEscrita(p)
  PROVE  /\ kPedidos' \in [Pedidos -> K!PedidoRow] /\ kPedidos'[p].pc = "livre"
         /\ \A q \in Pedidos \ {p} :
              /\ kPedidos'[q].pc = kPedidos[q].pc /\ kPedidos'[q].unidade = kPedidos[q].unidade
              /\ kPedidos'[q].token = kPedidos[q].token
              /\ ~kPedidos'[q].tardio =>
                   /\ ~kPedidos[q].tardio
                   /\ ~(kPedidos[q].unidade = kPedidos[p].unidade /\ kPedidos[q].pc \in {"renovar", "gravar"})
<1>1. kPedidos' = [q \in Pedidos |->
        IF q = p THEN K!Livre
        ELSE IF kPedidos[q].unidade = kPedidos[p].unidade /\ kPedidos[q].pc \in {"renovar", "gravar"}
             THEN [kPedidos[q] EXCEPT !.tardio = TRUE]
             ELSE kPedidos[q]]
  BY DEF K!TerminarEscrita
<1>2. \A q \in Pedidos : kPedidos[q] \in K!PedidoRow /\ [kPedidos[q] EXCEPT !.tardio = TRUE] \in K!PedidoRow
  BY DEF IndInvTikTok, K!TypeOK, K!PedidoRow
<1>3. kPedidos' \in [Pedidos -> K!PedidoRow] /\ kPedidos'[p].pc = "livre"
  BY <1>1, <1>2, LivreTipoTikTok
<1>4. \A q \in Pedidos \ {p} :
              /\ kPedidos'[q].pc = kPedidos[q].pc /\ kPedidos'[q].unidade = kPedidos[q].unidade
              /\ kPedidos'[q].token = kPedidos[q].token
              /\ ~kPedidos'[q].tardio =>
                   /\ ~kPedidos[q].tardio
                   /\ ~(kPedidos[q].unidade = kPedidos[p].unidade /\ kPedidos[q].pc \in {"renovar", "gravar"})
  BY <1>1, <1>2 DEF K!PedidoRow
<1> QED BY <1>3, <1>4

LEMMA PassoEscrita ==
  ASSUME IndInvTikTok, NEW p \in Pedidos, NEW t \in Unidades, NEW row \in K!TenantRow, kPedidos[p].unidade = t,
         kTenants' = [kTenants EXCEPT ![t] = row], K!TerminarEscrita(p), UNCHANGED <<kRemovidas, kEventos>>,
         row.token # NULL /\ ~row.tardio =>
           /\ row.token.conta = row.conta
           /\ K!Retirado(row.token) => ACaminho(row.token)
  PROVE  IndInvTikTok'
<1>1. /\ kPedidos' \in [Pedidos -> K!PedidoRow] /\ kPedidos'[p].pc = "livre"
      /\ \A q \in Pedidos \ {p} :
              /\ kPedidos'[q].pc = kPedidos[q].pc /\ kPedidos'[q].unidade = kPedidos[q].unidade
              /\ kPedidos'[q].token = kPedidos[q].token
              /\ ~kPedidos'[q].tardio =>
                   /\ ~kPedidos[q].tardio
                   /\ ~(kPedidos[q].unidade = t /\ kPedidos[q].pc \in {"renovar", "gravar"})
  BY TerminaEscrita
<1>2. /\ kTenants' \in [Unidades -> K!TenantRow] /\ kTenants'[t] = row
      /\ \A u \in Unidades \ {t} : kTenants'[u] = kTenants[u]
  BY DEF IndInvTikTok, K!TypeOK
<1>3. K!TypeOK'
  BY <1>1, <1>2 DEF IndInvTikTok, K!TypeOK
<1>4. \A u \in Unidades : UnidadeFirme(u)'
  <2>1. UnidadeFirme(t)'
    BY <1>2 DEF UnidadeFirme, K!Retirado, ACaminho
  <2>2. ASSUME NEW u \in Unidades \ {t} PROVE UnidadeFirme(u)'
    <3>1. \A q \in Pedidos : kPedidos[q].pc = "limpar" /\ kPedidos[q].unidade = u
                             => kPedidos'[q].pc = "limpar" /\ kPedidos'[q].unidade = u
      BY <1>1
    <3>2. UnidadeFirme(u) /\ kTenants'[u] = kTenants[u]
      BY <1>2 DEF IndInvTikTok
    <3> QED BY <3>1, <3>2 DEF UnidadeFirme, K!Retirado, ACaminho
  <2> QED BY <2>1, <2>2
<1>5. \A q \in Pedidos : PedidoFirmeTikTok(q)'
  <2>1. PedidoFirmeTikTok(p)'
    BY <1>1 DEF PedidoFirmeTikTok
  <2>2. ASSUME NEW q \in Pedidos \ {p} PROVE PedidoFirmeTikTok(q)'
    <3>1. PedidoFirmeTikTok(q)
      BY DEF IndInvTikTok
    <3>2. ACaminho(kPedidos[q].token) => ACaminho(kPedidos[q].token)'
      BY <1>1 DEF ACaminho
    <3>3. kPedidos'[q].pc \in {"renovar", "gravar"} /\ ~kPedidos'[q].tardio
          => kTenants'[kPedidos'[q].unidade].conta = kTenants[kPedidos[q].unidade].conta
      BY <1>1, <1>2, <3>1 DEF PedidoFirmeTikTok
    <3> QED BY <1>1, <3>1, <3>2, <3>3 DEF PedidoFirmeTikTok, K!Retirado
  <2> QED BY <2>1, <2>2
<1> QED BY <1>3, <1>4, <1>5 DEF IndInvTikTok

LEMMA PassoGravarCallback ==
  ASSUME IndInvTikTok, NEW p \in Pedidos, K!GravarCallback(p)
  PROVE  IndInvTikTok'
<1>1. PICK d \in K!PedidoRow : d = kPedidos[p]
  BY LinhaTipo DEF IndInvTikTok
<1> DEFINE row == [token |-> d.token, expira |-> FALSE, conta |-> d.token.conta, tardio |-> d.tardio]
<1>2. /\ d.pc = "callback" /\ kTenants' = [kTenants EXCEPT ![d.unidade] = row] /\ K!TerminarEscrita(p)
      /\ UNCHANGED <<kRemovidas, kEventos>>
  BY <1>1 DEF K!GravarCallback, K!ContaGravada
<1>3. d.unidade \in Unidades /\ d.token # NULL /\ d.token \in K!Token
      /\ (~d.tardio => (K!Retirado(d.token) => ACaminho(d.token)))
  BY <1>1, <1>2 DEF IndInvTikTok, PedidoFirmeTikTok, K!PedidoRow
<1>4. row \in K!TenantRow /\ row.token = d.token /\ row.conta = d.token.conta /\ row.tardio = d.tardio
  BY <1>3, TokenTipo DEF K!TenantRow, K!PedidoRow
<1> HIDE DEF row
<1>5. row.token # NULL /\ ~row.tardio =>
           /\ row.token.conta = row.conta
           /\ K!Retirado(row.token) => ACaminho(row.token)
  BY <1>3, <1>4
<1>6. kPedidos[p].unidade = d.unidade
  BY <1>1
<1> QED BY <1>2, <1>3, <1>4, <1>5, <1>6, PassoEscrita

LEMMA PassoGravarRenovacao ==
  ASSUME IndInvTikTok, NEW p \in Pedidos, K!GravarRenovacao(p)
  PROVE  IndInvTikTok'
<1>1. PICK d \in K!PedidoRow : d = kPedidos[p]
  BY LinhaTipo DEF IndInvTikTok
<1>2. d.pc = "gravar" /\ K!TerminarEscrita(p) /\ UNCHANGED <<kRemovidas, kEventos>>
  BY <1>1 DEF K!GravarRenovacao
<1>3. d.unidade \in Unidades /\ d.token # NULL /\ d.token \in K!Token
      /\ (~d.tardio => (K!Retirado(d.token) => ACaminho(d.token)) /\ d.token.conta = kTenants[d.unidade].conta)
  BY <1>1, <1>2 DEF IndInvTikTok, PedidoFirmeTikTok, K!PedidoRow
<1> DEFINE row == [kTenants[d.unidade] EXCEPT !.token = d.token, !.expira = FALSE, !.tardio = d.tardio]
<1>4. kTenants[d.unidade] \in K!TenantRow
  BY <1>3, LinhaTipo DEF IndInvTikTok
<1>5. kTenants' = [kTenants EXCEPT ![d.unidade] = row]
  BY <1>1, <1>3, <1>4 DEF K!GravarRenovacao, IndInvTikTok, K!TypeOK, K!TenantRow
<1>6. row \in K!TenantRow /\ row.token = d.token /\ row.conta = kTenants[d.unidade].conta /\ row.tardio = d.tardio
  BY <1>3, <1>4 DEF K!TenantRow, K!PedidoRow
<1> HIDE DEF row
<1>7. row.token # NULL /\ ~row.tardio =>
           /\ row.token.conta = row.conta
           /\ K!Retirado(row.token) => ACaminho(row.token)
  BY <1>3, <1>6
<1>8. kPedidos[p].unidade = d.unidade
  BY <1>1
<1> QED BY <1>2, <1>3, <1>5, <1>6, <1>7, <1>8, PassoEscrita

LEMMA PassoLimparTokens ==
  ASSUME IndInvTikTok, NEW p \in Pedidos, K!LimparTokens(p)
  PROVE  IndInvTikTok'
<1>1. PICK d \in K!PedidoRow : d = kPedidos[p]
  BY LinhaTipo DEF IndInvTikTok
<1> DEFINE row == [token |-> NULL, expira |-> FALSE, conta |-> kTenants[d.unidade].conta, tardio |-> FALSE]
<1>2. /\ d.pc = "limpar" /\ kTenants' = [kTenants EXCEPT ![d.unidade] = row] /\ K!TerminarEscrita(p)
      /\ UNCHANGED <<kRemovidas, kEventos>>
  BY <1>1 DEF K!LimparTokens
<1>3. d.unidade \in Unidades
  BY <1>1, <1>2 DEF IndInvTikTok, PedidoFirmeTikTok
<1>4. row \in K!TenantRow /\ row.token = NULL
  BY <1>3, LinhaTipo DEF IndInvTikTok, K!TenantRow
<1> HIDE DEF row
<1>5. kPedidos[p].unidade = d.unidade
  BY <1>1
<1> QED BY <1>2, <1>3, <1>4, <1>5, PassoEscrita

-----------------------------------------------------------------------------
LEMMA PassoEnvelhecer ==
  ASSUME IndInvTikTok, NEW t \in Unidades, K!Envelhecer(t)
  PROVE  IndInvTikTok'
<1>1. kTenants' = [kTenants EXCEPT ![t].expira = TRUE] /\ UNCHANGED <<kRemovidas, kEventos, kPedidos>>
  BY DEF K!Envelhecer
<1>2. /\ kTenants' \in [Unidades -> K!TenantRow]
      /\ \A u \in Unidades : /\ kTenants'[u].token = kTenants[u].token /\ kTenants'[u].conta = kTenants[u].conta
                             /\ kTenants'[u].tardio = kTenants[u].tardio
  BY <1>1 DEF IndInvTikTok, K!TypeOK, K!TenantRow
<1>3. K!TypeOK'
  BY <1>1, <1>2 DEF IndInvTikTok, K!TypeOK
<1>4. \A u \in Unidades : UnidadeFirme(u)'
  BY <1>1, <1>2 DEF IndInvTikTok, UnidadeFirme, K!Retirado, ACaminho
<1>5. \A q \in Pedidos : PedidoFirmeTikTok(q)'
  BY <1>1, <1>2 DEF IndInvTikTok, PedidoFirmeTikTok, K!Retirado, ACaminho
<1> QED BY <1>3, <1>4, <1>5 DEF IndInvTikTok

(* A removal at TikTok makes tokens withdrawn, and its event says so. *)
LEMMA RemocaoAvisada ==
  ASSUME IndInvTikTok, NEW a \in Contas, K!Remover(a), NEW k \in K!Token,
         K!Retirado(k) => ACaminho(k), K!Retirado(k)'
  PROVE  ACaminho(k)'
<1>1. /\ kRemovidas[a] < MaxRemocoes /\ kRemovidas' = [kRemovidas EXCEPT ![a] = kRemovidas[a] + 1]
      /\ kEventos' = kEventos \cup {<<a, kRemovidas[a] + 1>>} /\ kRemovidas \in [Contas -> 0..MaxRemocoes]
  BY DEF K!Remover, IndInvTikTok, K!TypeOK
<1>2. k.conta \in Contas /\ k.numero \in 0..MaxRemocoes
  BY TokenTipo
<1>3. CASE K!Retirado(k)
  BY <1>1, <1>3 DEF ACaminho
<1>4. CASE ~K!Retirado(k)
  <2>1. k.conta = a /\ k.numero < kRemovidas[a] + 1
    BY <1>1, <1>2, <1>4, RemocoesAssumption DEF K!Retirado
  <2>2. kRemovidas[a] + 1 \in 1..MaxRemocoes
    BY <1>1, RemocoesAssumption
  <2> QED BY <1>1, <1>2, <2>1, <2>2, RemocoesAssumption DEF ACaminho
<1> QED BY <1>3, <1>4

LEMMA PassoRemover ==
  ASSUME IndInvTikTok, NEW a \in Contas, K!Remover(a)
  PROVE  IndInvTikTok'
<1>1. /\ kRemovidas[a] < MaxRemocoes /\ kRemovidas' = [kRemovidas EXCEPT ![a] = kRemovidas[a] + 1]
      /\ kEventos' = kEventos \cup {<<a, kRemovidas[a] + 1>>} /\ UNCHANGED <<kTenants, kPedidos>>
  BY DEF K!Remover
<1>2. K!TypeOK'
  <2>1. kRemovidas[a] + 1 \in 0..MaxRemocoes /\ kRemovidas[a] + 1 \in 1..MaxRemocoes
    BY <1>1, RemocoesAssumption DEF IndInvTikTok, K!TypeOK
  <2>2. kRemovidas' \in [Contas -> 0..MaxRemocoes]
    BY <1>1, <2>1 DEF IndInvTikTok, K!TypeOK
  <2>3. kEventos' \subseteq Contas \X (1..MaxRemocoes)
    BY <1>1, <2>1 DEF IndInvTikTok, K!TypeOK
  <2> QED BY <1>1, <2>2, <2>3 DEF IndInvTikTok, K!TypeOK
<1>3. ASSUME NEW k \in K!Token, K!Retirado(k) => ACaminho(k) PROVE (K!Retirado(k) => ACaminho(k))'
  BY <1>3, RemocaoAvisada
<1>4. ASSUME NEW t \in Unidades PROVE UnidadeFirme(t)'
  <2> SUFFICES ASSUME kTenants[t].token # NULL, ~kTenants[t].tardio
               PROVE  UnidadeFirme(t)'
    BY <1>1 DEF UnidadeFirme
  <2>1. kTenants[t].token \in K!Token
    BY DEF IndInvTikTok, K!TypeOK, K!TenantRow
  <2>2. PICK k \in K!Token : k = kTenants[t].token
    BY <2>1
  <2>3. CASE \E p \in Pedidos : kPedidos[p].pc = "limpar" /\ kPedidos[p].unidade = t
    BY <2>3, <1>1 DEF IndInvTikTok, UnidadeFirme
  <2>4. CASE K!Retirado(k) => ACaminho(k)
    <3>1. (K!Retirado(k) => ACaminho(k))'
      BY <2>4, <1>3
    <3>2. kTenants'[t].token = k /\ k.conta = kTenants'[t].conta
      BY <1>1, <2>2 DEF IndInvTikTok, UnidadeFirme
    <3> QED BY <3>1, <3>2 DEF UnidadeFirme, K!Retirado, ACaminho
  <2> QED BY <2>2, <2>3, <2>4 DEF IndInvTikTok, UnidadeFirme
<1>5. ASSUME NEW p \in Pedidos PROVE PedidoFirmeTikTok(p)'
  <2>1. CASE kPedidos[p].pc \in {"callback", "gravar"} /\ ~kPedidos[p].tardio
    <3>1. kPedidos[p].token \in K!Token
      BY <2>1 DEF IndInvTikTok, K!TypeOK, K!PedidoRow, PedidoFirmeTikTok
    <3>2. PICK k \in K!Token : k = kPedidos[p].token
      BY <3>1
    <3>3. (K!Retirado(k) => ACaminho(k))'
      BY <2>1, <3>2, <1>3 DEF IndInvTikTok, PedidoFirmeTikTok
    <3>4. kPedidos'[p].token = k
      BY <1>1, <3>2
    <3> QED BY <1>1, <2>1, <3>3, <3>4 DEF IndInvTikTok, PedidoFirmeTikTok, K!Retirado, ACaminho
  <2>2. CASE ~(kPedidos[p].pc \in {"callback", "gravar"} /\ ~kPedidos[p].tardio)
    BY <1>1, <2>2 DEF IndInvTikTok, PedidoFirmeTikTok
  <2> QED BY <2>1, <2>2
<1> QED BY <1>2, <1>4, <1>5 DEF IndInvTikTok

(* The removal is lost on some units. *)
LEMMA Esquece ==
  ASSUME IndInvTikTok, NEW U, K!Esquecer(U)
  PROVE  /\ kTenants' \in [Unidades -> K!TenantRow]
         /\ \A t \in Unidades : /\ kTenants'[t].token = kTenants[t].token /\ kTenants'[t].conta = kTenants[t].conta
                                /\ ~kTenants'[t].tardio => t \notin U /\ ~kTenants[t].tardio
<1>1. kTenants' = [t \in Unidades |-> IF t \in U THEN [kTenants[t] EXCEPT !.tardio = TRUE] ELSE kTenants[t]]
  BY DEF K!Esquecer
<1> QED BY <1>1 DEF IndInvTikTok, K!TypeOK, K!TenantRow

LEMMA Ultrapassa ==
  ASSUME IndInvTikTok, NEW a \in Contas, NEW exceto
  PROVE  /\ K!Ultrapassados(a, exceto) \in [Pedidos -> K!PedidoRow]
         /\ \A q \in Pedidos : LET d == K!Ultrapassados(a, exceto)[q] IN
              /\ d.pc = kPedidos[q].pc /\ d.unidade = kPedidos[q].unidade /\ d.token = kPedidos[q].token
              /\ ~d.tardio =>
                   /\ ~kPedidos[q].tardio
                   /\ q \notin exceto /\ kPedidos[q].token # NULL => kPedidos[q].token.conta # a
<1>1. \A q \in Pedidos : kPedidos[q] \in K!PedidoRow
  BY DEF IndInvTikTok, K!TypeOK
<1>2. \A q \in Pedidos : [kPedidos[q] EXCEPT !.tardio = TRUE] \in K!PedidoRow
  BY <1>1 DEF K!PedidoRow
<1> QED BY <1>1, <1>2 DEF K!Ultrapassados, K!PedidoRow

LEMMA PassoReceberRemocao ==
  ASSUME IndInvTikTok, NEW p \in Pedidos, NEW e \in kEventos, K!ReceberRemocao(p, e)
  PROVE  IndInvTikTok'
<1>0. PICK a \in Contas, n \in 1..MaxRemocoes : e = <<a, n>>
  BY DEF IndInvTikTok, K!TypeOK
<1>1. kEventos' = kEventos \ {<<a, n>>} /\ UNCHANGED kRemovidas
  BY <1>0 DEF K!ReceberRemocao
<1>2. ASSUME NEW k \in K!Token, k.conta # a, K!Retirado(k) => ACaminho(k) PROVE (K!Retirado(k) => ACaminho(k))'
  BY <1>1, <1>2 DEF K!Retirado, ACaminho
<1>3. ASSUME NEW U, NEW escolhido \in BOOLEAN, K!Esquecer(U),
             kPedidos' \in [Pedidos -> K!PedidoRow],
             \A t \in Unidades : kTenants[t].conta = a /\ t \notin U =>
               \E q \in Pedidos : kPedidos'[q].pc = "limpar" /\ kPedidos'[q].unidade = t,
             \A q \in Pedidos : kPedidos[q].pc = "limpar" =>
               kPedidos'[q].pc = "limpar" /\ kPedidos'[q].unidade = kPedidos[q].unidade,
             \A q \in Pedidos :
               \/ /\ kPedidos'[q].pc = kPedidos[q].pc /\ kPedidos'[q].unidade = kPedidos[q].unidade
                  /\ kPedidos'[q].token = kPedidos[q].token
                  /\ ~kPedidos'[q].tardio => ~kPedidos[q].tardio /\ (kPedidos[q].token # NULL => kPedidos[q].token.conta # a)
               \/ kPedidos'[q].pc = "limpar" /\ kPedidos'[q].unidade \in Unidades
      PROVE  IndInvTikTok'
  <2>1. /\ kTenants' \in [Unidades -> K!TenantRow]
        /\ \A t \in Unidades : /\ kTenants'[t].token = kTenants[t].token /\ kTenants'[t].conta = kTenants[t].conta
                               /\ ~kTenants'[t].tardio => t \notin U /\ ~kTenants[t].tardio
    BY <1>3, Esquece
  <2>2. K!TypeOK'
    BY <1>1, <1>3, <2>1 DEF IndInvTikTok, K!TypeOK
  <2>3. ASSUME NEW t \in Unidades PROVE UnidadeFirme(t)'
    <3> SUFFICES ASSUME kTenants'[t].token # NULL, ~kTenants'[t].tardio
                 PROVE  UnidadeFirme(t)'
      BY DEF UnidadeFirme
    <3>1. kTenants[t].token \in K!Token /\ t \notin U /\ ~kTenants[t].tardio
      BY <2>1 DEF IndInvTikTok, K!TypeOK, K!TenantRow
    <3>2. PICK k \in K!Token : k = kTenants[t].token
      BY <3>1
    <3>3. UnidadeFirme(t) /\ k.conta = kTenants[t].conta
      BY <3>1, <3>2, TokenTipo DEF IndInvTikTok, UnidadeFirme
    <3>4. CASE \E q \in Pedidos : kPedidos'[q].pc = "limpar" /\ kPedidos'[q].unidade = t
      BY <3>2, <3>3, <3>4, <2>1 DEF UnidadeFirme
    <3>5. CASE ~ \E q \in Pedidos : kPedidos'[q].pc = "limpar" /\ kPedidos'[q].unidade = t
      <4>1. k.conta # a
        BY <1>3, <3>1, <3>3, <3>5
      <4>2. ~ \E q \in Pedidos : kPedidos[q].pc = "limpar" /\ kPedidos[q].unidade = t
        BY <1>3, <3>5
      <4>3. K!Retirado(k) => ACaminho(k)
        BY <3>1, <3>2, <3>3, <4>2, TokenTipo DEF UnidadeFirme
      <4>4. (K!Retirado(k) => ACaminho(k))'
        BY <4>1, <4>3, <1>2
      <4> QED BY <4>4, <2>1, <3>2, <3>3 DEF UnidadeFirme, K!Retirado, ACaminho
    <3> QED BY <3>4, <3>5
  <2>4. ASSUME NEW q \in Pedidos PROVE PedidoFirmeTikTok(q)'
    <3>1. CASE kPedidos'[q].pc = "limpar" /\ kPedidos'[q].unidade \in Unidades
      BY <3>1 DEF PedidoFirmeTikTok
    <3>2. CASE /\ kPedidos'[q].pc = kPedidos[q].pc /\ kPedidos'[q].unidade = kPedidos[q].unidade
               /\ kPedidos'[q].token = kPedidos[q].token
               /\ ~kPedidos'[q].tardio => ~kPedidos[q].tardio /\ (kPedidos[q].token # NULL => kPedidos[q].token.conta # a)
      <4>1. PedidoFirmeTikTok(q)
        BY DEF IndInvTikTok
      <4>2. CASE kPedidos'[q].pc \in {"callback", "gravar"} /\ ~kPedidos'[q].tardio
        <5>1. kPedidos[q].token \in K!Token /\ kPedidos[q].token.conta # a
          BY <3>2, <4>1, <4>2 DEF PedidoFirmeTikTok, IndInvTikTok, K!TypeOK, K!PedidoRow
        <5>2. PICK k \in K!Token : k = kPedidos[q].token
          BY <5>1
        <5>3. K!Retirado(k) => ACaminho(k)
          BY <3>2, <4>1, <4>2, <5>2 DEF PedidoFirmeTikTok
        <5>4. (K!Retirado(k) => ACaminho(k))'
          BY <5>1, <5>2, <5>3, <1>2
        <5>5. kPedidos'[q].token = k
          BY <3>2, <5>2
        <5>6. kPedidos[q].unidade \in Unidades
          BY <3>2, <4>1, <4>2 DEF PedidoFirmeTikTok
        <5> QED BY <3>2, <4>1, <4>2, <5>2, <5>4, <5>5, <5>6, <2>1 DEF PedidoFirmeTikTok, K!Retirado, ACaminho
      <4>3. CASE ~(kPedidos'[q].pc \in {"callback", "gravar"} /\ ~kPedidos'[q].tardio)
        BY <3>2, <4>1, <4>3, <2>1 DEF PedidoFirmeTikTok
      <4> QED BY <4>2, <4>3
    <3> QED BY <1>3, <3>1, <3>2
  <2> QED BY <2>2, <2>3, <2>4 DEF IndInvTikTok
<1>4. CASE K!Esquecer(K!DaConta(a)) /\ kPedidos' = K!Ultrapassados(a, {})
  <2>1. \A t \in Unidades : kTenants[t].conta = a => t \in K!DaConta(a)
    BY DEF K!DaConta
  <2>2. /\ K!Ultrapassados(a, {}) \in [Pedidos -> K!PedidoRow]
         /\ \A q \in Pedidos : LET d == K!Ultrapassados(a, {})[q] IN
              /\ d.pc = kPedidos[q].pc /\ d.unidade = kPedidos[q].unidade /\ d.token = kPedidos[q].token
              /\ ~d.tardio =>
                   /\ ~kPedidos[q].tardio
                   /\ q \notin {} /\ kPedidos[q].token # NULL => kPedidos[q].token.conta # a
    BY Ultrapassa
  <2> QED BY <1>4, <2>1, <2>2, <1>3
<1>5. CASE /\ kPedidos[p].pc = "livre"
           /\ \E t \in K!DaConta(a) :
                /\ K!Esquecer(K!DaConta(a) \ {t})
                /\ kPedidos' = [K!Ultrapassados(a, {p}) EXCEPT ![p] = [K!Livre EXCEPT !.pc = "limpar", !.unidade = t]]
  <2>1. PICK t \in K!DaConta(a) :
          /\ K!Esquecer(K!DaConta(a) \ {t})
          /\ kPedidos' = [K!Ultrapassados(a, {p}) EXCEPT ![p] = [K!Livre EXCEPT !.pc = "limpar", !.unidade = t]]
    BY <1>5
  <2> DEFINE row == [K!Livre EXCEPT !.pc = "limpar", !.unidade = t]
  <2>2. t \in Unidades /\ \A u \in Unidades : kTenants[u].conta = a => u \in K!DaConta(a)
    BY DEF K!DaConta
  <2>3. row \in K!PedidoRow /\ row.pc = "limpar" /\ row.unidade = t
    BY <2>2 DEF K!Livre, K!PedidoRow
  <2>4. kPedidos' = [K!Ultrapassados(a, {p}) EXCEPT ![p] = row]
    BY <2>1
  <2> HIDE DEF row
  <2>5. /\ K!Ultrapassados(a, {p}) \in [Pedidos -> K!PedidoRow]
         /\ \A q \in Pedidos : LET d == K!Ultrapassados(a, {p})[q] IN
              /\ d.pc = kPedidos[q].pc /\ d.unidade = kPedidos[q].unidade /\ d.token = kPedidos[q].token
              /\ ~d.tardio =>
                   /\ ~kPedidos[q].tardio
                   /\ q \notin {p} /\ kPedidos[q].token # NULL => kPedidos[q].token.conta # a
    BY Ultrapassa
  <2>6. /\ kPedidos' \in [Pedidos -> K!PedidoRow] /\ kPedidos'[p] = row
        /\ \A q \in Pedidos \ {p} : kPedidos'[q] = K!Ultrapassados(a, {p})[q]
    BY <2>3, <2>4, <2>5
  <2>7. \A u \in Unidades : kTenants[u].conta = a /\ u \notin K!DaConta(a) \ {t} =>
          \E q \in Pedidos : kPedidos'[q].pc = "limpar" /\ kPedidos'[q].unidade = u
    BY <2>2, <2>3, <2>6
  <2>8. \A q \in Pedidos : kPedidos[q].pc = "limpar" =>
          kPedidos'[q].pc = "limpar" /\ kPedidos'[q].unidade = kPedidos[q].unidade
    BY <1>5, <2>5, <2>6
  <2>9. \A q \in Pedidos :
          \/ /\ kPedidos'[q].pc = kPedidos[q].pc /\ kPedidos'[q].unidade = kPedidos[q].unidade
             /\ kPedidos'[q].token = kPedidos[q].token
             /\ ~kPedidos'[q].tardio => ~kPedidos[q].tardio /\ (kPedidos[q].token # NULL => kPedidos[q].token.conta # a)
          \/ kPedidos'[q].pc = "limpar" /\ kPedidos'[q].unidade \in Unidades
    BY <2>2, <2>3, <2>5, <2>6
  <2> QED BY <2>1, <2>6, <2>7, <2>8, <2>9, <1>3
<1> QED BY <1>0, <1>4, <1>5 DEF K!ReceberRemocao

LEMMA PassoFalharRemocao ==
  ASSUME IndInvTikTok, NEW p \in Pedidos, K!FalharRemocao(p)
  PROVE  IndInvTikTok'
<1>1. /\ kPedidos[p].pc = "limpar" /\ K!Esquecer({kPedidos[p].unidade}) /\ kPedidos' = [kPedidos EXCEPT ![p] = K!Livre]
      /\ UNCHANGED <<kRemovidas, kEventos>>
  BY DEF K!FalharRemocao
<1>2. /\ kTenants' \in [Unidades -> K!TenantRow]
      /\ \A t \in Unidades : /\ kTenants'[t].token = kTenants[t].token /\ kTenants'[t].conta = kTenants[t].conta
                             /\ ~kTenants'[t].tardio => t # kPedidos[p].unidade /\ ~kTenants[t].tardio
  BY <1>1, Esquece
<1>3. /\ kPedidos' \in [Pedidos -> K!PedidoRow] /\ kPedidos'[p] = K!Livre
      /\ \A q \in Pedidos \ {p} : kPedidos'[q] = kPedidos[q]
  BY <1>1, LivreTipoTikTok DEF IndInvTikTok, K!TypeOK
<1>4. K!TypeOK'
  BY <1>1, <1>2, <1>3 DEF IndInvTikTok, K!TypeOK
<1>5. ASSUME NEW t \in Unidades PROVE UnidadeFirme(t)'
  <2>1. CASE t = kPedidos[p].unidade
    BY <2>1, <1>2 DEF UnidadeFirme
  <2>2. CASE t # kPedidos[p].unidade
    <3>1. \A q \in Pedidos : kPedidos[q].pc = "limpar" /\ kPedidos[q].unidade = t
                             => kPedidos'[q].pc = "limpar" /\ kPedidos'[q].unidade = t
      BY <2>2, <1>3
    <3> QED BY <3>1, <1>1, <1>2 DEF IndInvTikTok, UnidadeFirme, K!Retirado, ACaminho
  <2> QED BY <2>1, <2>2
<1>6. ASSUME NEW q \in Pedidos PROVE PedidoFirmeTikTok(q)'
  BY <1>1, <1>2, <1>3, LivreTipoTikTok DEF IndInvTikTok, PedidoFirmeTikTok, K!Retirado, ACaminho
<1> QED BY <1>4, <1>5, <1>6 DEF IndInvTikTok

LEMMA PassoNextTikTok == IndInvTikTok /\ [K!Next]_tiktok => IndInvTikTok'
<1> SUFFICES ASSUME IndInvTikTok, [K!Next]_tiktok PROVE IndInvTikTok'
  OBVIOUS
<1>1. ASSUME NEW p \in Pedidos, NEW t \in Unidades, K!LerParaRenovar(p, t) \/ \E a \in Contas : K!TrocarCodigo(p, t, a)
      PROVE  IndInvTikTok'
  BY <1>1, PassoLerParaRenovar, PassoTrocarCodigo
<1>2. ASSUME NEW p \in Pedidos, NEW e \in kEventos, K!ReceberRemocao(p, e) PROVE IndInvTikTok'
  BY <1>2, PassoReceberRemocao
<1>3. ASSUME NEW p \in Pedidos, K!GravarCallback(p) \/ K!Renovar(p) \/ K!GravarRenovacao(p) \/ K!Desistir(p)
      PROVE  IndInvTikTok'
  BY <1>3, PassoGravarCallback, PassoRenovar, PassoGravarRenovacao, PassoDesistirTikTok
<1>4. ASSUME NEW p \in Pedidos, K!LimparTokens(p) \/ K!FalharRemocao(p) PROVE IndInvTikTok'
  BY <1>4, PassoLimparTokens, PassoFalharRemocao
<1>5. ASSUME NEW t \in Unidades, K!Envelhecer(t) PROVE IndInvTikTok'
  BY <1>5, PassoEnvelhecer
<1>6. ASSUME NEW a \in Contas, K!Remover(a) PROVE IndInvTikTok'
  BY <1>6, PassoRemover
<1>7. CASE UNCHANGED tiktok
  BY <1>7 DEF tiktok, IndInvTikTok, K!TypeOK, UnidadeFirme, PedidoFirmeTikTok, K!Retirado, ACaminho
<1> QED BY <1>1, <1>2, <1>3, <1>4, <1>5, <1>6, <1>7 DEF K!Next

LEMMA SpecInvTikTok == K!Spec => []IndInvTikTok
<1>1. IndInvTikTok /\ [K!Next]_(K!vars) => IndInvTikTok'
  BY PassoNextTikTok DEF tiktok, K!vars
<1> QED BY InitInvTikTok, <1>1, PTL DEF K!Spec

LEMMA InvPropsTikTok == IndInvTikTok => K!TypeOK /\ K!ContaDesligada
BY DEF IndInvTikTok, UnidadeFirme, ACaminho, K!ContaDesligada

(* However many connections, renewals, errors and deliveries of the webhook are in flight, *)
(* the token of an account that was removed is not kept, unless it was written late, for   *)
(* longer than the removal is on its way.                                                  *)
THEOREM ContaDesligadaCorrect == K!Spec => []ContaDesligada
<1>1. IndInvTikTok => ContaDesligada
  BY InvPropsTikTok DEF ContaDesligada
<1> QED BY SpecInvTikTok, <1>1, PTL

-----------------------------------------------------------------------------
(* The streams of the live toolkit. *)

LEMMA ContagemAssumption == MaxContagem \in Nat
BY EntornoConstantes DEF EntornoAssumption

(* What was stored was counted. *)
Contado == vGravada <= vContagem /\ vFlush.valor <= vContagem

(* A request that has read what it will send, or has sent it, is up to date, or is about to be. *)
EmDia(x, e) == x >= vGravada \/ vFlush.pc = "gravado" \/ vPedidos[e].perdeu

(* The same of what its connection has sent, while it listens. *)
PedidoFirmeTransmissao(e) ==
  /\ vPedidos[e].pc = "lido" => EmDia(vPedidos[e].lida, e)
  /\ vPedidos[e].pc = "aberto" /\ vPedidos[e].presente => EmDia(vPedidos[e].vista, e)
  /\ vPedidos[e].pc = "aberto" => vPedidos[e].avisado \/ ~vPedidos[e].presente
  /\ vPedidos[e].pc = "aberto" <=> e \in vOuvintes

(* The inductive invariant of Transmissao. *)
IndInvTransmissao == V!TypeOK /\ Contado /\ \A e \in Espectadores : PedidoFirmeTransmissao(e)

LEMMA ForaTipo == V!Fora \in V!PedidoRow /\ V!Fora.pc = "fora"
BY ContagemAssumption DEF V!Fora, V!PedidoRow

LEMMA InitInvTransmissao == V!Init => IndInvTransmissao
<1> SUFFICES ASSUME V!Init PROVE IndInvTransmissao
  OBVIOUS
<1>1. V!TypeOK /\ Contado
  <2>1. 0 \in 0..MaxContagem
    BY ContagemAssumption
  <2>2. /\ vFlush.pc = "parado" /\ vFlush.valor = 0
        /\ vFlush \in [pc: {"parado", "gravando", "gravado"}, valor: 0..MaxContagem]
    BY <2>1 DEF V!Init, V!FlushParado
  <2>3. V!TypeOK
    BY <2>1, <2>2, ForaTipo DEF V!Init, V!TypeOK
  <2>4. Contado
    BY <2>2 DEF V!Init, Contado
  <2> QED BY <2>3, <2>4
<1>2. \A e \in Espectadores : PedidoFirmeTransmissao(e)
  BY ForaTipo DEF V!Init, PedidoFirmeTransmissao
<1> QED BY <1>1, <1>2 DEF IndInvTransmissao

-----------------------------------------------------------------------------
(* The connection of the live. *)

LEMMA PassoConexao ==
  ASSUME IndInvTransmissao, V!Receber \/ V!Flush \/ V!Encerrar \/ (\E ok \in BOOLEAN : V!Gravar(ok))
  PROVE  IndInvTransmissao'
<1>1. UNCHANGED <<vPedidos, vOuvintes>>
  BY DEF V!Receber, V!Flush, V!Encerrar, V!Gravar
<1>0. /\ 0 \in 0..MaxContagem
      /\ vContagem \in 0..MaxContagem /\ vGravada \in 0..MaxContagem /\ vFlush.valor \in 0..MaxContagem
      /\ vContagem < MaxContagem => vContagem + 1 \in 0..MaxContagem
  BY ContagemAssumption DEF IndInvTransmissao, V!TypeOK
<1>2. V!TypeOK'
  <2>1. vFlush' \in [pc: {"parado", "gravando", "gravado"}, valor: 0..MaxContagem]
    BY <1>0 DEF IndInvTransmissao, V!TypeOK, V!Receber, V!Flush, V!Encerrar, V!Gravar, V!FlushParado
  <2>2. vContagem' \in 0..MaxContagem /\ vGravada' \in 0..MaxContagem
    BY <1>0 DEF V!Receber, V!Flush, V!Encerrar, V!Gravar
  <2>3. vNoAr' \in BOOLEAN /\ vDirty' \in BOOLEAN
    BY DEF IndInvTransmissao, V!TypeOK, V!Receber, V!Flush, V!Encerrar, V!Gravar
  <2> QED BY <1>1, <2>1, <2>2, <2>3 DEF IndInvTransmissao, V!TypeOK
<1>3. Contado'
  <2>1. Contado /\ vFlush \in [pc: {"parado", "gravando", "gravado"}, valor: 0..MaxContagem]
    BY DEF IndInvTransmissao, V!TypeOK
  <2>2. CASE V!Receber
    BY <1>0, <2>1, <2>2, ContagemAssumption DEF Contado, V!Receber
  <2>3. CASE V!Flush \/ V!Encerrar
    BY <1>0, <2>1, <2>3, ContagemAssumption DEF Contado, V!Flush, V!Encerrar
  <2>4. CASE \E ok \in BOOLEAN : V!Gravar(ok)
    BY <1>0, <2>1, <2>4, ContagemAssumption DEF Contado, V!Gravar, V!FlushParado
  <2> QED BY <2>2, <2>3, <2>4
<1>4. (vGravada' = vGravada /\ (vFlush.pc = "gravado" => vFlush'.pc = "gravado")) \/ vFlush'.pc = "gravado"
  BY DEF IndInvTransmissao, V!TypeOK, V!Receber, V!Flush, V!Encerrar, V!Gravar, V!FlushParado
<1>5. \A e \in Espectadores : PedidoFirmeTransmissao(e)'
  BY <1>1, <1>4 DEF IndInvTransmissao, PedidoFirmeTransmissao, EmDia
<1> QED BY <1>2, <1>3, <1>5 DEF IndInvTransmissao

LEMMA PassoEmitirTransmissao ==
  ASSUME IndInvTransmissao, V!Emitir
  PROVE  IndInvTransmissao'
<1>1. /\ vFlush' = V!FlushParado /\ vDirty' = FALSE /\ UNCHANGED <<vNoAr, vContagem, vGravada, vOuvintes>>
      /\ vPedidos' = [e \in Espectadores |->
           CASE e \in vOuvintes /\ vPedidos[e].presente -> [vPedidos[e] EXCEPT !.vista = vContagem, !.perdeu = FALSE]
             [] vPedidos[e].pc = "lido" -> [vPedidos[e] EXCEPT !.perdeu = TRUE]
             [] OTHER -> vPedidos[e]]
  BY DEF V!Emitir
<1>2. ASSUME NEW e \in Espectadores
      PROVE  /\ vPedidos'[e] \in V!PedidoRow
             /\ vPedidos'[e].pc = vPedidos[e].pc /\ vPedidos'[e].presente = vPedidos[e].presente
             /\ vPedidos'[e].avisado = vPedidos[e].avisado
             /\ e \in vOuvintes /\ vPedidos[e].presente => vPedidos'[e].vista = vContagem
             /\ vPedidos[e].pc = "lido" /\ ~(e \in vOuvintes /\ vPedidos[e].presente) => vPedidos'[e].perdeu = TRUE
  <2>1. vPedidos[e] \in V!PedidoRow /\ vContagem \in 0..MaxContagem /\ (e \in vOuvintes => vPedidos[e].pc # "lido")
    BY DEF IndInvTransmissao, V!TypeOK, PedidoFirmeTransmissao
  <2>a. vPedidos'[e] = CASE e \in vOuvintes /\ vPedidos[e].presente -> [vPedidos[e] EXCEPT !.vista = vContagem, !.perdeu = FALSE]
                        [] vPedidos[e].pc = "lido" -> [vPedidos[e] EXCEPT !.perdeu = TRUE]
                        [] OTHER -> vPedidos[e]
    BY <1>1
  <2>2. CASE e \in vOuvintes /\ vPedidos[e].presente
    <3>1. vPedidos'[e] = [vPedidos[e] EXCEPT !.vista = vContagem, !.perdeu = FALSE]
      BY <2>1, <2>2, <2>a
    <3> QED BY <2>1, <2>2, <3>1 DEF V!PedidoRow
  <2>3. CASE ~(e \in vOuvintes /\ vPedidos[e].presente) /\ vPedidos[e].pc = "lido"
    BY <1>1, <2>1, <2>3 DEF V!PedidoRow
  <2>4. CASE ~(e \in vOuvintes /\ vPedidos[e].presente) /\ vPedidos[e].pc # "lido"
    BY <1>1, <2>1, <2>4 DEF V!PedidoRow
  <2> QED BY <2>2, <2>3, <2>4
<1>3. vPedidos' \in [Espectadores -> V!PedidoRow]
  <2> DEFINE novo(e) ==
        CASE e \in vOuvintes /\ vPedidos[e].presente -> [vPedidos[e] EXCEPT !.vista = vContagem, !.perdeu = FALSE]
          [] vPedidos[e].pc = "lido" -> [vPedidos[e] EXCEPT !.perdeu = TRUE]
          [] OTHER -> vPedidos[e]
  <2>1. vPedidos' = [e \in Espectadores |-> novo(e)]
    BY <1>1
  <2> HIDE DEF novo
  <2>2. \A e \in Espectadores : novo(e) \in V!PedidoRow
    BY <2>1, <1>2
  <2> QED BY <2>1, <2>2
<1>4. V!TypeOK'
  <2>1. 0 \in 0..MaxContagem
    BY ContagemAssumption
  <2> QED BY <2>1, <1>1, <1>3 DEF IndInvTransmissao, V!TypeOK, V!FlushParado
<1>5. Contado'
  <2>1. vFlush'.valor = 0
    BY <1>1 DEF V!FlushParado
  <2>2. vGravada <= vContagem /\ 0 <= vContagem
    BY ContagemAssumption DEF IndInvTransmissao, V!TypeOK, Contado
  <2> QED BY <2>1, <2>2, <1>1 DEF Contado
<1>6. ASSUME NEW e \in Espectadores PROVE PedidoFirmeTransmissao(e)'
  <2>1. vContagem >= vGravada
    BY ContagemAssumption DEF IndInvTransmissao, V!TypeOK, Contado
  <2> QED BY <1>1, <1>2, <2>1, ZenonT(60) DEF IndInvTransmissao, PedidoFirmeTransmissao, EmDia
<1> QED BY <1>4, <1>5, <1>6 DEF IndInvTransmissao

-----------------------------------------------------------------------------
(* A request takes a new row. *)
LEMMA UmPedidoTransmissao ==
  ASSUME IndInvTransmissao, NEW e \in Espectadores, NEW row \in V!PedidoRow, vPedidos' = [vPedidos EXCEPT ![e] = row],
         UNCHANGED <<vNoAr, vContagem, vDirty, vGravada, vFlush>>,
         vOuvintes' \subseteq Espectadores, \A f \in Espectadores \ {e} : f \in vOuvintes' <=> f \in vOuvintes,
         row.pc = "aberto" <=> e \in vOuvintes',
         row.pc = "lido" => row.lida >= vGravada \/ vFlush.pc = "gravado" \/ row.perdeu,
         row.pc = "aberto" /\ row.presente => row.vista >= vGravada \/ vFlush.pc = "gravado" \/ row.perdeu,
         row.pc = "aberto" => row.avisado \/ ~row.presente
  PROVE  IndInvTransmissao'
<1>1. /\ vPedidos' \in [Espectadores -> V!PedidoRow] /\ vPedidos'[e] = row
      /\ \A f \in Espectadores \ {e} : vPedidos'[f] = vPedidos[f]
  BY DEF IndInvTransmissao, V!TypeOK
<1>2. V!TypeOK' /\ Contado'
  BY <1>1 DEF IndInvTransmissao, V!TypeOK, Contado
<1>3. PedidoFirmeTransmissao(e)'
  BY <1>1 DEF PedidoFirmeTransmissao, EmDia
<1>4. \A f \in Espectadores \ {e} : PedidoFirmeTransmissao(f)'
  BY <1>1 DEF IndInvTransmissao, PedidoFirmeTransmissao, EmDia
<1> QED BY <1>2, <1>3, <1>4 DEF IndInvTransmissao

LEMMA PassoPedido ==
  ASSUME IndInvTransmissao, NEW e \in Espectadores,
         V!Pedir(e) \/ V!Consultar(e) \/ V!LerSnapshot(e) \/ V!Abrir(e) \/ V!Sair(e) \/ V!Limpar(e)
  PROVE  IndInvTransmissao'
<1>1. PICK d \in V!PedidoRow : d = vPedidos[e]
  BY DEF IndInvTransmissao, V!TypeOK
<1>2. /\ PedidoFirmeTransmissao(e) /\ UNCHANGED <<vNoAr, vContagem, vDirty, vGravada, vFlush>>
      /\ vOuvintes \subseteq Espectadores
      /\ vGravada \in Nat
  BY ContagemAssumption DEF IndInvTransmissao, V!TypeOK, V!Pedir, V!Consultar, V!LerSnapshot, V!Abrir, V!Sair, V!Limpar
<1>3. CASE V!Pedir(e) \/ V!Consultar(e) \/ V!Limpar(e)
  <2> DEFINE row == CASE V!Pedir(e) -> [d EXCEPT !.pc = "consultando", !.presente = TRUE]
                      [] ~V!Pedir(e) /\ V!Consultar(e) /\ vNoAr -> [d EXCEPT !.pc = "lendo"]
                      [] OTHER -> V!Fora
  <2>1. vPedidos' = [vPedidos EXCEPT ![e] = row]
    BY <1>1, <1>3 DEF V!Pedir, V!Consultar, V!Limpar, IndInvTransmissao, V!TypeOK, V!PedidoRow, V!Fora
  <2>2. row \in V!PedidoRow /\ row.pc \in {"consultando", "lendo", "fora"}
    BY ForaTipo DEF V!PedidoRow
  <2> HIDE DEF row
  <2>3. vOuvintes' \subseteq Espectadores /\ \A f \in Espectadores \ {e} : f \in vOuvintes' <=> f \in vOuvintes
    BY <1>2, <1>3 DEF V!Pedir, V!Consultar, V!Limpar, V!SemOuvinte
  <2>4. e \notin vOuvintes'
    BY <1>2, <1>3, ForaTipo DEF V!Pedir, V!Consultar, V!Limpar, V!SemOuvinte, PedidoFirmeTransmissao
  <2> QED BY <1>2, <2>1, <2>2, <2>3, <2>4, UmPedidoTransmissao
<1>4. CASE V!LerSnapshot(e)
  <2> DEFINE row == [d EXCEPT !.pc = "lido", !.lida = vGravada]
  <2>1. vPedidos' = [vPedidos EXCEPT ![e] = row] /\ UNCHANGED vOuvintes /\ vPedidos[e].pc = "lendo"
    BY <1>1, <1>4 DEF V!LerSnapshot, IndInvTransmissao, V!TypeOK, V!PedidoRow
  <2>2. row \in V!PedidoRow /\ row.pc = "lido" /\ row.lida = vGravada
    BY DEF V!PedidoRow, IndInvTransmissao, V!TypeOK
  <2> HIDE DEF row
  <2>3. e \notin vOuvintes'
    BY <1>2, <2>1 DEF PedidoFirmeTransmissao
  <2>4. row.lida >= vGravada
    BY <1>2, <2>2
  <2> QED BY <1>2, <2>1, <2>2, <2>3, <2>4, UmPedidoTransmissao
<1>5. CASE V!Abrir(e)
  <2> DEFINE row == [d EXCEPT !.pc = "aberto", !.vista = d.lida, !.avisado = d.presente]
  <2>1. vPedidos' = [vPedidos EXCEPT ![e] = row] /\ vOuvintes' = vOuvintes \cup {e} /\ vPedidos[e].pc = "lido"
    BY <1>1, <1>5 DEF V!Abrir, IndInvTransmissao, V!TypeOK, V!PedidoRow
  <2>2. row \in V!PedidoRow /\ row.pc = "aberto" /\ row.vista = d.lida /\ row.avisado = d.presente
        /\ row.presente = d.presente /\ row.perdeu = d.perdeu
    BY DEF V!PedidoRow
  <2> HIDE DEF row
  <2>3. d.lida >= vGravada \/ vFlush.pc = "gravado" \/ d.perdeu
    BY <1>1, <1>2, <2>1 DEF PedidoFirmeTransmissao, EmDia
  <2>4. /\ vOuvintes' \subseteq Espectadores /\ e \in vOuvintes'
        /\ \A f \in Espectadores \ {e} : f \in vOuvintes' <=> f \in vOuvintes
    BY <1>2, <2>1
  <2>5. row.avisado \/ ~row.presente
    BY <2>2
  <2> QED BY <1>2, <2>1, <2>2, <2>3, <2>4, <2>5, UmPedidoTransmissao
<1>6. CASE V!Sair(e)
  <2> DEFINE row == [d EXCEPT !.presente = FALSE]
  <2>1. vPedidos' = [vPedidos EXCEPT ![e] = row] /\ UNCHANGED vOuvintes
    BY <1>1, <1>6 DEF V!Sair, IndInvTransmissao, V!TypeOK, V!PedidoRow
  <2>2. row \in V!PedidoRow /\ row.pc = d.pc /\ row.lida = d.lida /\ row.presente = FALSE /\ row.perdeu = d.perdeu
    BY DEF V!PedidoRow
  <2> HIDE DEF row
  <2>3. row.pc = "lido" => row.lida >= vGravada \/ vFlush.pc = "gravado" \/ row.perdeu
    BY <1>1, <1>2, <2>2 DEF PedidoFirmeTransmissao, EmDia
  <2>4. (row.pc = "aberto" <=> e \in vOuvintes') /\ (row.pc = "aberto" => row.avisado \/ ~row.presente)
    BY <1>1, <1>2, <2>1, <2>2 DEF PedidoFirmeTransmissao
  <2> QED BY <1>2, <2>1, <2>2, <2>3, <2>4, UmPedidoTransmissao
<1> QED BY <1>3, <1>4, <1>5, <1>6

LEMMA PassoNextTransmissao == IndInvTransmissao /\ [V!Next]_transmissao => IndInvTransmissao'
<1> SUFFICES ASSUME IndInvTransmissao, [V!Next]_transmissao PROVE IndInvTransmissao'
  OBVIOUS
<1>1. CASE UNCHANGED transmissao
  BY <1>1 DEF transmissao, IndInvTransmissao, V!TypeOK, Contado, PedidoFirmeTransmissao, EmDia
<1> QED BY <1>1, PassoConexao, PassoEmitirTransmissao, PassoPedido DEF V!Next

LEMMA SpecInvTransmissao == V!Spec => []IndInvTransmissao
<1>1. IndInvTransmissao /\ [V!Next]_(V!vars) => IndInvTransmissao'
  BY PassoNextTransmissao DEF transmissao, V!vars
<1> QED BY InitInvTransmissao, <1>1, PTL DEF V!Spec

LEMMA InvPropsTransmissao == IndInvTransmissao => V!TypeOK /\ V!EspectadorEmDia
BY DEF IndInvTransmissao, PedidoFirmeTransmissao, EmDia, V!EspectadorEmDia

(* However many viewers join while counters are flushed, whoever was sent the snapshot and *)
(* missed no event has the count of what was last stored.                                  *)
THEOREM EspectadorEmDiaCorrect == V!Spec => []EspectadorEmDia
<1>1. IndInvTransmissao => EspectadorEmDia
  BY InvPropsTransmissao DEF EspectadorEmDia
<1> QED BY SpecInvTransmissao, <1>1, PTL

-----------------------------------------------------------------------------
(* The knowledge base. *)

LEMMA NuloForaConhecimento == NULL \notin Slugs
BY EntornoConstantes DEF EntornoAssumption

LEMMA OrdemAssumption ==
  /\ MaxOrdem \in Nat
  /\ \A ids \in Ordens : ids \in Seq(Categorias) /\ ids # <<>> /\ Len(ids) <= MaxOrdem
BY EntornoConstantes DEF EntornoAssumption

(* A row is locked by one reorder. *)
TravasUnicas == \A p, q \in Reordenacoes : p # q => B!Travadas(p) \cap B!Travadas(q) = {}

(* The categories of a reorder are there, and so are those of the last one. *)
IdsExistem ==
  /\ \A p \in Reordenacoes : \A i \in DOMAIN bPedidos[p].ids : B!Existe(bPedidos[p].ids[i])
  /\ \A i \in DOMAIN bUltima : B!Existe(bUltima[i])

(* A reorder runs one statement per id. *)
Feitos == \A p \in Reordenacoes : bPedidos[p].feitos <= Len(bPedidos[p].ids)

(* A locked row has its last position among the statements that have run. *)
EmPosicao(p, c) ==
  LET n == bCategorias[c].ordem IN
  /\ n \in 1..bPedidos[p].feitos /\ bPedidos[p].ids[n] = c
  /\ \A m \in 1..bPedidos[p].feitos : bPedidos[p].ids[m] = c => m <= n

(* So has every row that a reorder holds. *)
Posicoes == \A p \in Reordenacoes : \A c \in B!Travadas(p) : EmPosicao(p, c)

(* What a ROLLBACK would give back is the order of the last reorder, as is a row that nobody has locked. *)
DaUltima(c) == c \in Categorias \ bMexidas /\ c \in {bUltima[i] : i \in DOMAIN bUltima}

(* Such a row has a position of the last order, now or once its reorder is undone. *)
Bases ==
  \A c \in Categorias : DaUltima(c) =>
    /\ B!Solta(c) => B!EhPosicao(bUltima, c, bCategorias[c].ordem)
    /\ \A p \in Reordenacoes : c \in B!Travadas(p) => B!EhPosicao(bUltima, c, bPedidos[p].antes[c])

(* The inductive invariant of Conhecimento. *)
IndInvConhecimento == B!TypeOK /\ TravasUnicas /\ IdsExistem /\ Feitos /\ Posicoes /\ Bases

-----------------------------------------------------------------------------
(* Arrays of ids. *)
LEMMA IdsTipo ==
  ASSUME NEW ids \in Ordens \cup {<<>>}
  PROVE  /\ ids \in Seq(Categorias) /\ Len(ids) \in 0..MaxOrdem /\ DOMAIN ids = 1..Len(ids)
         /\ \A i \in 1..Len(ids) : ids[i] \in Categorias
<1>1. ids \in Seq(Categorias) /\ Len(ids) <= MaxOrdem
  <2>1. CASE ids = <<>>
    BY <2>1, OrdemAssumption
  <2>2. CASE ids \in Ordens
    BY <2>2, OrdemAssumption
  <2> QED BY <2>1, <2>2
<1> QED BY <1>1, OrdemAssumption

LEMMA PedidoTipo ==
  ASSUME B!TypeOK, NEW p \in Reordenacoes
  PROVE  /\ bPedidos[p] \in B!PedidoRow /\ bPedidos[p].ids \in Ordens \cup {<<>>} /\ bPedidos[p].feitos \in 0..MaxOrdem
         /\ bPedidos[p].antes \in [Categorias -> 0..MaxOrdem]
BY DEF B!TypeOK, B!PedidoRow

LEMMA LivreTipoConhecimento == B!Livre \in B!PedidoRow /\ B!Livre.ids = <<>> /\ B!Livre.feitos = 0
BY OrdemAssumption DEF B!Livre, B!PedidoRow

LEMMA InitInvConhecimento == B!Init => IndInvConhecimento
<1> SUFFICES ASSUME B!Init PROVE IndInvConhecimento
  OBVIOUS
<1>1. B!TypeOK
  BY LivreTipoConhecimento, OrdemAssumption DEF B!Init, B!TypeOK, B!CategoriaRow, B!ArtigoRow, B!SemArtigo
<1>2. \A p \in Reordenacoes : bPedidos[p] = B!Livre /\ B!Travadas(p) = {}
  BY LivreTipoConhecimento DEF B!Init, B!Travadas
<1>3. TravasUnicas /\ Posicoes
  BY <1>2 DEF TravasUnicas, Posicoes
<1>4. IdsExistem /\ Feitos
  BY <1>2, LivreTipoConhecimento DEF B!Init, IdsExistem, Feitos
<1>5. Bases
  BY DEF B!Init, Bases, DaUltima
<1> QED BY <1>1, <1>3, <1>4, <1>5 DEF IndInvConhecimento

LEMMA TravadasTipo ==
  ASSUME IndInvConhecimento, NEW p \in Reordenacoes
  PROVE  /\ B!Travadas(p) \subseteq {d \in Categorias : B!Existe(d)}
         /\ \A i \in DOMAIN bPedidos[p].ids : bPedidos[p].ids[i] \in Categorias /\ B!Existe(bPedidos[p].ids[i])
         /\ \A i \in DOMAIN bUltima : bUltima[i] \in Categorias /\ B!Existe(bUltima[i])
<1>1. \A i \in DOMAIN bPedidos[p].ids : bPedidos[p].ids[i] \in Categorias /\ B!Existe(bPedidos[p].ids[i])
  BY IdsTipo, PedidoTipo DEF IndInvConhecimento, IdsExistem
<1>2. \A i \in DOMAIN bUltima : bUltima[i] \in Categorias /\ B!Existe(bUltima[i])
  BY IdsTipo DEF IndInvConhecimento, B!TypeOK, IdsExistem
<1>3. \A i \in 1..bPedidos[p].feitos : i \in DOMAIN bPedidos[p].ids
  <2>1. bPedidos[p].feitos \in 0..MaxOrdem /\ bPedidos[p].feitos <= Len(bPedidos[p].ids)
        /\ DOMAIN bPedidos[p].ids = 1..Len(bPedidos[p].ids) /\ Len(bPedidos[p].ids) \in 0..MaxOrdem
    BY IdsTipo, PedidoTipo DEF IndInvConhecimento, Feitos
  <2> QED BY <2>1, OrdemAssumption
<1> QED BY <1>1, <1>2, <1>3 DEF B!Travadas

(* Nothing that the reorders look at changes. *)
LEMMA Iguais ==
  ASSUME IndInvConhecimento, UNCHANGED <<bCategorias, bPedidos, bUltima, bMexidas>>,
         bArtigos' \in [Artigos -> B!ArtigoRow]
  PROVE  IndInvConhecimento'
<1>1. B!TypeOK'
  BY DEF IndInvConhecimento, B!TypeOK
<1>2. TravasUnicas' /\ Feitos'
  <2>1. \A p \in Reordenacoes : B!Travadas(p)' = B!Travadas(p)
    BY DEF B!Travadas
  <2>2. TravasUnicas'
    BY <2>1 DEF IndInvConhecimento, TravasUnicas
  <2> QED BY <2>2 DEF IndInvConhecimento, Feitos
<1>3. IdsExistem'
  BY DEF IndInvConhecimento, IdsExistem, B!Existe
<1>4. Posicoes'
  BY DEF IndInvConhecimento, Posicoes, B!Travadas, EmPosicao
<1>5. Bases'
  BY DEF IndInvConhecimento, Bases, DaUltima, B!Solta, B!Travadas
<1> QED BY <1>1, <1>2, <1>3, <1>4, <1>5 DEF IndInvConhecimento

-----------------------------------------------------------------------------
(* A step of categories: the reorders and their rows stay, and so does the order of rows  *)
(* that are not given one of their own.                                                   *)
LEMMA PassoDeCategoria ==
  ASSUME IndInvConhecimento, NEW c \in Categorias, NEW row \in B!CategoriaRow, row.slug # NULL,
         bCategorias' = [bCategorias EXCEPT ![c] = row], UNCHANGED <<bArtigos, bPedidos, bUltima>>,
         B!Existe(c) => B!Solta(c) \/ row.ordem = bCategorias[c].ordem,
         bMexidas' \subseteq Categorias, bMexidas \subseteq bMexidas',
         B!Existe(c) => row.ordem = bCategorias[c].ordem \/ c \in bMexidas'
  PROVE  IndInvConhecimento'
<1>1. /\ bCategorias' \in [Categorias -> B!CategoriaRow] /\ bCategorias'[c] = row
      /\ \A d \in Categorias \ {c} : bCategorias'[d] = bCategorias[d]
  BY DEF IndInvConhecimento, B!TypeOK
<1>2. B!TypeOK'
  BY <1>1 DEF IndInvConhecimento, B!TypeOK
<1>3. /\ \A p \in Reordenacoes : B!Travadas(p)' = B!Travadas(p)
      /\ \A d \in Categorias : B!Solta(d)' = B!Solta(d)
  BY DEF B!Travadas, B!Solta
<1>4. TravasUnicas' /\ Feitos'
  BY <1>3 DEF IndInvConhecimento, TravasUnicas, Feitos
<1>5. \A d \in Categorias : B!Existe(d) => B!Existe(d)'
  BY <1>1 DEF B!Existe
<1>6. /\ \A p \in Reordenacoes : \A i \in DOMAIN bPedidos[p].ids : bPedidos[p].ids[i] \in Categorias
      /\ \A i \in DOMAIN bUltima : bUltima[i] \in Categorias
  BY TravadasTipo, IdsTipo DEF IndInvConhecimento, B!TypeOK
<1>7. IdsExistem'
  BY <1>5, <1>6 DEF IndInvConhecimento, IdsExistem
<1>8. \A p \in Reordenacoes : B!Travadas(p) \subseteq {d \in Categorias : B!Existe(d)}
  BY TravadasTipo
<1>9. ASSUME NEW p \in Reordenacoes, NEW d \in B!Travadas(p) PROVE bCategorias'[d].ordem = bCategorias[d].ordem
  BY <1>1, <1>8, <1>9 DEF B!Solta
<1>10. Posicoes'
  BY <1>3, <1>9 DEF IndInvConhecimento, Posicoes, EmPosicao
<1>11. ASSUME NEW d \in Categorias, DaUltima(d)' PROVE DaUltima(d) /\ bCategorias'[d].ordem = bCategorias[d].ordem
  <2>1. DaUltima(d) /\ d \notin bMexidas'
    BY <1>11 DEF DaUltima
  <2>2. B!Existe(d)
    BY <2>1 DEF DaUltima, IndInvConhecimento, IdsExistem
  <2> QED BY <2>1, <2>2, <1>1
<1>12. Bases'
  BY <1>3, <1>11 DEF IndInvConhecimento, Bases
<1> QED BY <1>2, <1>4, <1>7, <1>10, <1>12 DEF IndInvConhecimento

LEMMA PassoCategorias ==
  ASSUME IndInvConhecimento, NEW c \in Categorias,
         \/ \E s \in Slugs, ativa \in BOOLEAN, ordem \in 0..MaxOrdem :
              B!CriarCategoria(c, s, ativa, ordem) \/ B!EditarCategoria(c, s, ativa, ordem)
         \/ B!DesativarCategoria(c)
  PROVE  IndInvConhecimento'
<1>1. CASE \E s \in Slugs, ativa \in BOOLEAN, ordem \in 0..MaxOrdem :
              B!CriarCategoria(c, s, ativa, ordem) \/ B!EditarCategoria(c, s, ativa, ordem)
  <2>1. PICK s \in Slugs, ativa \in BOOLEAN, ordem \in 0..MaxOrdem :
           B!CriarCategoria(c, s, ativa, ordem) \/ B!EditarCategoria(c, s, ativa, ordem)
    BY <1>1
  <2> DEFINE row == [slug |-> s, ativa |-> ativa, ordem |-> ordem]
  <2>2. row \in B!CategoriaRow /\ row.slug # NULL /\ row.ordem = ordem
    BY NuloForaConhecimento DEF B!CategoriaRow
  <2>3. /\ bCategorias' = [bCategorias EXCEPT ![c] = row] /\ UNCHANGED <<bArtigos, bPedidos, bUltima>>
        /\ B!Existe(c) => B!Solta(c) /\ bMexidas' = IF ordem = bCategorias[c].ordem THEN bMexidas ELSE bMexidas \cup {c}
        /\ ~B!Existe(c) => UNCHANGED bMexidas
    BY <2>1 DEF B!CriarCategoria, B!EditarCategoria
  <2> HIDE DEF row
  <2>4. bMexidas' \subseteq Categorias /\ bMexidas \subseteq bMexidas'
    BY <2>3 DEF IndInvConhecimento, B!TypeOK
  <2> QED BY <2>2, <2>3, <2>4, PassoDeCategoria
<1>2. CASE B!DesativarCategoria(c)
  <2> DEFINE row == [bCategorias[c] EXCEPT !.ativa = FALSE]
  <2>1. /\ bCategorias' = [bCategorias EXCEPT ![c] = row]
        /\ UNCHANGED <<bArtigos, bPedidos, bUltima, bMexidas>> /\ B!Existe(c)
    BY <1>2 DEF B!DesativarCategoria, IndInvConhecimento, B!TypeOK, B!CategoriaRow
  <2>2. row \in B!CategoriaRow /\ row.slug = bCategorias[c].slug /\ row.ordem = bCategorias[c].ordem
    BY DEF IndInvConhecimento, B!TypeOK, B!CategoriaRow
  <2> HIDE DEF row
  <2>3. bMexidas' \subseteq Categorias
    BY <2>1 DEF IndInvConhecimento, B!TypeOK
  <2> QED BY <2>1, <2>2, <2>3, PassoDeCategoria DEF B!Existe
<1> QED BY <1>1, <1>2

-----------------------------------------------------------------------------
LEMMA PedidoMudaConhecimento ==
  ASSUME B!TypeOK, NEW p \in Reordenacoes, NEW row \in B!PedidoRow, bPedidos' = [bPedidos EXCEPT ![p] = row]
  PROVE  /\ bPedidos' \in [Reordenacoes -> B!PedidoRow] /\ bPedidos'[p] = row
         /\ \A q \in Reordenacoes \ {p} : bPedidos'[q] = bPedidos[q] /\ B!Travadas(q)' = B!Travadas(q)
BY DEF B!TypeOK, B!Travadas

LEMMA PassoReordenar ==
  ASSUME IndInvConhecimento, NEW p \in Reordenacoes, NEW ids \in Ordens, B!Reordenar(p, ids)
  PROVE  IndInvConhecimento'
<1> DEFINE row == [B!Livre EXCEPT !.ids = ids]
<1>1. row \in B!PedidoRow /\ row.ids = ids /\ row.feitos = 0
  BY LivreTipoConhecimento DEF B!PedidoRow
<1>2. /\ bPedidos[p] = B!Livre /\ bPedidos' = [bPedidos EXCEPT ![p] = row]
      /\ UNCHANGED <<bCategorias, bArtigos, bUltima, bMexidas>>
      /\ \A i \in DOMAIN ids : B!Existe(ids[i])
  BY DEF B!Reordenar, IndInvConhecimento, B!TypeOK
<1> HIDE DEF row
<1>3. /\ bPedidos' \in [Reordenacoes -> B!PedidoRow] /\ bPedidos'[p] = row
      /\ \A q \in Reordenacoes \ {p} : bPedidos'[q] = bPedidos[q] /\ B!Travadas(q)' = B!Travadas(q)
  BY <1>1, <1>2, PedidoMudaConhecimento DEF IndInvConhecimento
<1>4. B!Travadas(p) = {} /\ B!Travadas(p)' = {}
  BY <1>1, <1>2, <1>3, LivreTipoConhecimento DEF B!Travadas
<1>5. B!TypeOK' /\ TravasUnicas'
  BY <1>2, <1>3, <1>4 DEF IndInvConhecimento, B!TypeOK, TravasUnicas
<1>6. IdsExistem'
  BY <1>1, <1>2, <1>3 DEF IndInvConhecimento, IdsExistem, B!Existe
<1>7. Feitos'
  BY <1>1, <1>3, IdsTipo DEF IndInvConhecimento, Feitos
<1>8. Posicoes'
  BY <1>2, <1>3, <1>4 DEF IndInvConhecimento, Posicoes, EmPosicao
<1>9. Bases'
  BY <1>2, <1>3, <1>4 DEF IndInvConhecimento, Bases, DaUltima, B!Solta
<1> QED BY <1>5, <1>6, <1>7, <1>8, <1>9 DEF IndInvConhecimento

LEMMA PassoAtualizar ==
  ASSUME IndInvConhecimento, NEW p \in Reordenacoes, B!Atualizar(p)
  PROVE  IndInvConhecimento'
<1>1. PICK d \in B!PedidoRow : d = bPedidos[p]
  BY PedidoTipo DEF IndInvConhecimento
<1>a. PICK n : n = d.feitos + 1
  OBVIOUS
<1>b. PICK c : c = d.ids[n]
  OBVIOUS
<1> DEFINE antes == IF c \in B!Travadas(p) THEN d.antes ELSE [d.antes EXCEPT ![c] = bCategorias[c].ordem]
           row == [ids |-> d.ids, feitos |-> n, antes |-> antes]
<1>2. /\ n <= Len(d.ids) /\ (\A q \in Reordenacoes \ {p} : c \notin B!Travadas(q))
      /\ bCategorias' = [bCategorias EXCEPT ![c].ordem = n] /\ UNCHANGED <<bArtigos, bUltima, bMexidas>>
  BY <1>1, <1>a, <1>b DEF B!Atualizar, B!PodeAtualizar
<1>3. /\ d.ids \in Ordens \cup {<<>>} /\ d.feitos \in 0..MaxOrdem /\ Len(d.ids) \in 0..MaxOrdem
      /\ n \in 1..MaxOrdem /\ n \in DOMAIN d.ids /\ c \in Categorias /\ d.antes \in [Categorias -> 0..MaxOrdem]
      /\ \A i \in 1..n : i \in DOMAIN d.ids
  <2>1. d.ids \in Ordens \cup {<<>>} /\ d.feitos \in 0..MaxOrdem /\ d.antes \in [Categorias -> 0..MaxOrdem]
    BY DEF B!PedidoRow
  <2>2. Len(d.ids) \in 0..MaxOrdem /\ DOMAIN d.ids = 1..Len(d.ids) /\ \A i \in 1..Len(d.ids) : d.ids[i] \in Categorias
    BY <2>1, IdsTipo
  <2>3. n \in 1..MaxOrdem /\ n \in 1..Len(d.ids) /\ \A i \in 1..n : i \in 1..Len(d.ids)
    BY <2>1, <2>2, <1>2, <1>a, OrdemAssumption
  <2> QED BY <2>1, <2>2, <2>3, <1>b
<1>4. bCategorias[c] \in B!CategoriaRow
  BY <1>3 DEF IndInvConhecimento, B!TypeOK
<1>5. antes \in [Categorias -> 0..MaxOrdem]
  BY <1>3, <1>4 DEF B!CategoriaRow
<1>6. row \in B!PedidoRow /\ row.ids = d.ids /\ row.feitos = n /\ row.antes = antes
  BY <1>3, <1>5 DEF B!PedidoRow
<1>7. bPedidos' = [bPedidos EXCEPT ![p] = row]
  BY <1>1, <1>a, <1>b DEF B!Atualizar
<1>8. PICK a \in [Categorias -> 0..MaxOrdem] : a = antes
  BY <1>5
<1>9. /\ c \in B!Travadas(p) => a = d.antes
      /\ c \notin B!Travadas(p) => a[c] = bCategorias[c].ordem
      /\ \A b \in Categorias \ {c} : a[b] = d.antes[b]
  BY <1>3, <1>8
<1>10. row.antes = a
  BY <1>6, <1>8
<1> HIDE DEF antes, row
<1>11. /\ bPedidos' \in [Reordenacoes -> B!PedidoRow] /\ bPedidos'[p] = row
       /\ \A q \in Reordenacoes \ {p} : bPedidos'[q] = bPedidos[q] /\ B!Travadas(q)' = B!Travadas(q)
  BY <1>6, <1>7, PedidoMudaConhecimento DEF IndInvConhecimento
<1>12. PICK e \in Categorias : e = c
  BY <1>3
<1>13. /\ bCategorias' \in [Categorias -> B!CategoriaRow] /\ bCategorias'[e].ordem = n
       /\ \A b \in Categorias \ {e} : bCategorias'[b] = bCategorias[b]
       /\ \A b \in Categorias : bCategorias'[b].slug = bCategorias[b].slug
  <2>1. n \in 0..MaxOrdem
    BY <1>3, OrdemAssumption
  <2>2. [bCategorias[e] EXCEPT !.ordem = n] \in B!CategoriaRow
    BY <2>1, <1>4, <1>12 DEF B!CategoriaRow
  <2>3. bCategorias' = [bCategorias EXCEPT ![e] = [bCategorias[e] EXCEPT !.ordem = n]]
    BY <1>2, <1>12
  <2>4. /\ bCategorias' \in [Categorias -> B!CategoriaRow] /\ bCategorias'[e] = [bCategorias[e] EXCEPT !.ordem = n]
        /\ \A b \in Categorias \ {e} : bCategorias'[b] = bCategorias[b]
    BY <2>2, <2>3 DEF IndInvConhecimento, B!TypeOK
  <2> QED BY <2>4, <1>4, <1>12 DEF B!CategoriaRow
<1>14. B!Travadas(p)' = B!Travadas(p) \cup {e}
  <2>1. B!Travadas(p) = {d.ids[i] : i \in 1..d.feitos} /\ B!Travadas(p)' = {d.ids[i] : i \in 1..n}
    BY <1>1, <1>6, <1>11 DEF B!Travadas
  <2>2. 1..n = (1..d.feitos) \cup {n}
    BY <1>3, <1>a
  <2> QED BY <2>1, <2>2, <1>12, <1>b
<1>15. B!TypeOK'
  BY <1>2, <1>11, <1>13 DEF IndInvConhecimento, B!TypeOK
<1>16. TravasUnicas'
  BY <1>2, <1>11, <1>12, <1>14 DEF IndInvConhecimento, TravasUnicas
<1>17. IdsExistem'
  <2>1. \A b \in Categorias : B!Existe(b)' = B!Existe(b)
    BY <1>13 DEF B!Existe
  <2>2. /\ \A q \in Reordenacoes : bPedidos'[q].ids = bPedidos[q].ids
        /\ \A q \in Reordenacoes : \A i \in DOMAIN bPedidos[q].ids : bPedidos[q].ids[i] \in Categorias
        /\ \A i \in DOMAIN bUltima : bUltima[i] \in Categorias
    BY <1>1, <1>6, <1>11, TravadasTipo
  <2> QED BY <2>1, <2>2, <1>2 DEF IndInvConhecimento, IdsExistem
<1>18. Feitos'
  BY <1>1, <1>2, <1>6, <1>11 DEF IndInvConhecimento, Feitos
<1>19. ASSUME NEW q \in Reordenacoes, NEW b \in B!Travadas(q)' PROVE EmPosicao(q, b)'
  <2>1. CASE q = p /\ b = e
    <3>1. /\ bCategorias'[b].ordem = n /\ bPedidos'[q].feitos = n
          /\ bPedidos'[q].ids = d.ids /\ n \in 1..n /\ d.ids[n] = b
          /\ \A m \in 1..n : m <= n
      BY <2>1, <1>3, <1>6, <1>11, <1>12, <1>13, <1>b
    <3> QED BY <3>1 DEF EmPosicao
  <2>2. CASE q = p /\ b # e
    <3>1. b \in B!Travadas(p) /\ EmPosicao(p, b)
      BY <2>2, <1>14, <1>19 DEF IndInvConhecimento, Posicoes
    <3>2. b \in Categorias
      BY <3>1, TravadasTipo
    <3>3. /\ bCategorias'[b] = bCategorias[b] /\ bPedidos'[q].feitos = n /\ bPedidos'[q].ids = d.ids
          /\ d.ids[n] # b
      BY <2>2, <3>2, <1>6, <1>11, <1>12, <1>13, <1>b
    <3>4. 1..n = (1..d.feitos) \cup {n}
      BY <1>3, <1>a
    <3> QED BY <2>2, <3>1, <3>3, <3>4, <1>1 DEF EmPosicao
  <2>3. CASE q # p
    <3>1. b \in B!Travadas(q) /\ EmPosicao(q, b) /\ bPedidos'[q] = bPedidos[q]
      BY <2>3, <1>11, <1>19 DEF IndInvConhecimento, Posicoes
    <3>2. b # e
      BY <2>3, <3>1, <1>2, <1>12
    <3>3. b \in Categorias
      BY <3>1, TravadasTipo
    <3> QED BY <3>1, <3>2, <3>3, <1>13 DEF EmPosicao
  <2> QED BY <2>1, <2>2, <2>3
<1>20. Posicoes'
  BY <1>19 DEF Posicoes
<1>21. ASSUME NEW b \in Categorias, DaUltima(b)'
       PROVE  /\ B!Solta(b)' => B!EhPosicao(bUltima', b, bCategorias'[b].ordem)
              /\ \A q \in Reordenacoes : b \in B!Travadas(q)' => B!EhPosicao(bUltima', b, bPedidos'[q].antes[b])
  <2>1. DaUltima(b) /\ bUltima' = bUltima
    BY <1>2, <1>21 DEF DaUltima
  <2>2. /\ B!Solta(b) => B!EhPosicao(bUltima, b, bCategorias[b].ordem)
        /\ \A q \in Reordenacoes : b \in B!Travadas(q) => B!EhPosicao(bUltima, b, bPedidos[q].antes[b])
    BY <2>1 DEF IndInvConhecimento, Bases
  <2>3. CASE b # e
    <3>1. B!Solta(b)' = B!Solta(b) /\ bCategorias'[b] = bCategorias[b]
      BY <2>3, <1>11, <1>13, <1>14 DEF B!Solta
    <3>2. bPedidos'[p].antes[b] = bPedidos[p].antes[b]
      BY <2>3, <1>1, <1>6, <1>9, <1>10, <1>11, <1>12
    <3> QED BY <2>1, <2>2, <2>3, <3>1, <3>2, <1>11, <1>14
  <2>4. CASE b = e
    <3>1. ~B!Solta(b)' /\ \A q \in Reordenacoes \ {p} : b \notin B!Travadas(q)'
      BY <2>4, <1>2, <1>11, <1>12, <1>14 DEF B!Solta
    <3>2. B!EhPosicao(bUltima, b, bPedidos'[p].antes[b])
      <4>1. CASE b \in B!Travadas(p)
        BY <2>2, <2>4, <4>1, <1>1, <1>9, <1>10, <1>11, <1>12
      <4>2. CASE b \notin B!Travadas(p)
        <5>1. B!Solta(b)
          BY <2>4, <4>2, <1>2, <1>12 DEF B!Solta
        <5> QED BY <2>2, <2>4, <4>2, <5>1, <1>9, <1>10, <1>11, <1>12
      <4> QED BY <4>1, <4>2
    <3> QED BY <2>1, <3>1, <3>2
  <2> QED BY <2>3, <2>4
<1>22. Bases'
  BY <1>21 DEF Bases
<1> QED BY <1>15, <1>16, <1>17, <1>18, <1>20, <1>22 DEF IndInvConhecimento

LEMMA PassoConfirmar ==
  ASSUME IndInvConhecimento, NEW p \in Reordenacoes, B!Confirmar(p)
  PROVE  IndInvConhecimento'
<1>1. PICK d \in B!PedidoRow : d = bPedidos[p]
  BY PedidoTipo DEF IndInvConhecimento
<1>2. /\ d.feitos = Len(d.ids) /\ bPedidos' = [bPedidos EXCEPT ![p] = B!Livre] /\ bUltima' = d.ids /\ bMexidas' = {}
      /\ UNCHANGED <<bCategorias, bArtigos>>
  BY <1>1 DEF B!Confirmar
<1>3. /\ bPedidos' \in [Reordenacoes -> B!PedidoRow] /\ bPedidos'[p] = B!Livre
      /\ \A q \in Reordenacoes \ {p} : bPedidos'[q] = bPedidos[q] /\ B!Travadas(q)' = B!Travadas(q)
  BY <1>2, LivreTipoConhecimento, PedidoMudaConhecimento DEF IndInvConhecimento
<1>4. B!Travadas(p)' = {}
  BY <1>3, LivreTipoConhecimento DEF B!Travadas
<1>5. d.ids \in Ordens \cup {<<>>} /\ DOMAIN d.ids = 1..Len(d.ids) /\ DOMAIN d.ids = 1..d.feitos
  BY <1>2, IdsTipo DEF B!PedidoRow
<1>6. B!Travadas(p) = {d.ids[i] : i \in DOMAIN d.ids}
  BY <1>1, <1>5 DEF B!Travadas
<1>7. B!TypeOK'
  BY <1>2, <1>3, <1>5 DEF IndInvConhecimento, B!TypeOK
<1>8. TravasUnicas'
  BY <1>3, <1>4 DEF IndInvConhecimento, TravasUnicas
<1>9. IdsExistem'
  BY <1>1, <1>2, <1>3, LivreTipoConhecimento DEF IndInvConhecimento, IdsExistem, B!Existe
<1>10. Feitos'
  BY <1>3, LivreTipoConhecimento DEF IndInvConhecimento, Feitos
<1>11. Posicoes'
  BY <1>2, <1>3, <1>4 DEF IndInvConhecimento, Posicoes, EmPosicao
<1>12. ASSUME NEW b \in Categorias, DaUltima(b)'
       PROVE  /\ B!Solta(b)' => B!EhPosicao(bUltima', b, bCategorias'[b].ordem)
              /\ \A q \in Reordenacoes : b \in B!Travadas(q)' => B!EhPosicao(bUltima', b, bPedidos'[q].antes[b])
  <2>1. b \in B!Travadas(p)
    BY <1>2, <1>6, <1>12 DEF DaUltima
  <2>2. EmPosicao(p, b)
    BY <2>1 DEF IndInvConhecimento, Posicoes
  <2>3. B!EhPosicao(bUltima', b, bCategorias'[b].ordem)
    BY <2>2, <1>1, <1>2, <1>5 DEF EmPosicao, B!EhPosicao
  <2>4. \A q \in Reordenacoes : b \notin B!Travadas(q)'
    BY <2>1, <1>3, <1>4 DEF IndInvConhecimento, TravasUnicas
  <2> QED BY <2>3, <2>4
<1>13. Bases'
  BY <1>12 DEF Bases
<1> QED BY <1>7, <1>8, <1>9, <1>10, <1>11, <1>13 DEF IndInvConhecimento

LEMMA PassoDesfazerConhecimento ==
  ASSUME IndInvConhecimento, NEW p \in Reordenacoes, B!Desfazer(p)
  PROVE  IndInvConhecimento'
<1>1. PICK d \in B!PedidoRow : d = bPedidos[p]
  BY PedidoTipo DEF IndInvConhecimento
<1>2. /\ bPedidos' = [bPedidos EXCEPT ![p] = B!Livre] /\ UNCHANGED <<bArtigos, bUltima, bMexidas>>
      /\ bCategorias' = [c \in Categorias |->
           IF c \in B!Travadas(p) THEN [bCategorias[c] EXCEPT !.ordem = d.antes[c]] ELSE bCategorias[c]]
  BY <1>1 DEF B!Desfazer
<1>3. /\ bPedidos' \in [Reordenacoes -> B!PedidoRow] /\ bPedidos'[p] = B!Livre
      /\ \A q \in Reordenacoes \ {p} : bPedidos'[q] = bPedidos[q] /\ B!Travadas(q)' = B!Travadas(q)
  BY <1>2, LivreTipoConhecimento, PedidoMudaConhecimento DEF IndInvConhecimento
<1>4. B!Travadas(p)' = {}
  BY <1>3, LivreTipoConhecimento DEF B!Travadas
<1>5. /\ bCategorias' \in [Categorias -> B!CategoriaRow]
      /\ \A c \in Categorias : /\ bCategorias'[c].slug = bCategorias[c].slug
                               /\ c \in B!Travadas(p) => bCategorias'[c].ordem = d.antes[c]
                               /\ c \notin B!Travadas(p) => bCategorias'[c] = bCategorias[c]
  <2>1. \A c \in Categorias : bCategorias[c] \in B!CategoriaRow /\ d.antes[c] \in 0..MaxOrdem
    BY DEF IndInvConhecimento, B!TypeOK, B!PedidoRow
  <2>2. \A c \in Categorias : [bCategorias[c] EXCEPT !.ordem = d.antes[c]] \in B!CategoriaRow
    BY <2>1 DEF B!CategoriaRow
  <2> QED BY <2>1, <2>2, <1>2 DEF B!CategoriaRow
<1>6. B!TypeOK'
  BY <1>2, <1>3, <1>5 DEF IndInvConhecimento, B!TypeOK
<1>7. TravasUnicas'
  BY <1>3, <1>4 DEF IndInvConhecimento, TravasUnicas
<1>8. /\ \A q \in Reordenacoes : \A i \in DOMAIN bPedidos[q].ids : bPedidos[q].ids[i] \in Categorias
      /\ \A i \in DOMAIN bUltima : bUltima[i] \in Categorias
      /\ \A q \in Reordenacoes : B!Travadas(q) \subseteq Categorias
  BY TravadasTipo
<1>9. IdsExistem'
  <2>1. \A b \in Categorias : B!Existe(b)' = B!Existe(b)
    BY <1>5 DEF B!Existe
  <2> QED BY <2>1, <1>2, <1>3, <1>8, LivreTipoConhecimento DEF IndInvConhecimento, IdsExistem
<1>10. Feitos'
  BY <1>3, LivreTipoConhecimento DEF IndInvConhecimento, Feitos
<1>11. ASSUME NEW q \in Reordenacoes, NEW b \in B!Travadas(q)' PROVE EmPosicao(q, b)'
  <2>1. q # p /\ b \in B!Travadas(q) /\ b \notin B!Travadas(p) /\ b \in Categorias /\ bPedidos'[q] = bPedidos[q]
    BY <1>3, <1>4, <1>8, <1>11 DEF IndInvConhecimento, TravasUnicas
  <2> QED BY <2>1, <1>5 DEF IndInvConhecimento, Posicoes, EmPosicao
<1>12. ASSUME NEW b \in Categorias, DaUltima(b)'
       PROVE  /\ B!Solta(b)' => B!EhPosicao(bUltima', b, bCategorias'[b].ordem)
              /\ \A q \in Reordenacoes : b \in B!Travadas(q)' => B!EhPosicao(bUltima', b, bPedidos'[q].antes[b])
  <2>1. DaUltima(b) /\ bUltima' = bUltima
    BY <1>2, <1>12 DEF DaUltima
  <2>2. /\ B!Solta(b) => B!EhPosicao(bUltima, b, bCategorias[b].ordem)
        /\ \A q \in Reordenacoes : b \in B!Travadas(q) => B!EhPosicao(bUltima, b, bPedidos[q].antes[b])
    BY <2>1 DEF IndInvConhecimento, Bases
  <2>3. B!Solta(b)' => B!EhPosicao(bUltima', b, bCategorias'[b].ordem)
    <3>1. CASE b \in B!Travadas(p)
      BY <2>1, <2>2, <3>1, <1>1, <1>5
    <3>2. CASE b \notin B!Travadas(p)
      <4>1. B!Solta(b)' => B!Solta(b)
        BY <3>2, <1>3 DEF B!Solta
      <4> QED BY <2>1, <2>2, <3>2, <4>1, <1>5
    <3> QED BY <3>1, <3>2
  <2>4. \A q \in Reordenacoes : b \in B!Travadas(q)' => q # p /\ b \in B!Travadas(q) /\ bPedidos'[q] = bPedidos[q]
    BY <1>3, <1>4
  <2> QED BY <2>1, <2>2, <2>3, <2>4
<1>13. Posicoes' /\ Bases'
  BY <1>11, <1>12 DEF Posicoes, Bases
<1> QED BY <1>6, <1>7, <1>9, <1>10, <1>13 DEF IndInvConhecimento

-----------------------------------------------------------------------------
LEMMA PassoArtigos ==
  ASSUME IndInvConhecimento, NEW a \in Artigos,
         \/ \E status \in {"draft", "published", "archived"} : B!CriarArtigo(a, status) \/ B!EditarArtigo(a, status)
         \/ B!Publicar(a) \/ B!Arquivar(a) \/ B!ExcluirArtigo(a)
  PROVE  IndInvConhecimento'
<1>1. UNCHANGED <<bCategorias, bPedidos, bUltima, bMexidas>>
  BY DEF B!CriarArtigo, B!EditarArtigo, B!Publicar, B!Arquivar, B!ExcluirArtigo
<1>2. bArtigos' \in [Artigos -> B!ArtigoRow]
  <2>1. \A status \in {"draft", "published", "archived"} :
          /\ [status |-> status, publicado |-> status = "published"] \in B!ArtigoRow
          /\ [bArtigos[a] EXCEPT !.status = status] \in B!ArtigoRow
          /\ [bArtigos[a] EXCEPT !.status = "published", !.publicado = TRUE] \in B!ArtigoRow
    BY DEF IndInvConhecimento, B!TypeOK, B!ArtigoRow
  <2>2. B!SemArtigo \in B!ArtigoRow
    BY DEF B!SemArtigo, B!ArtigoRow
  <2>3. \E row \in B!ArtigoRow : bArtigos' = [bArtigos EXCEPT ![a] = row]
    <3>1. CASE \E status \in {"draft", "published", "archived"} : B!CriarArtigo(a, status)
      BY <2>1, <3>1 DEF B!CriarArtigo
    <3>2. CASE \E status \in {"draft", "published", "archived"} : B!EditarArtigo(a, status)
      BY <2>1, <3>2 DEF B!EditarArtigo
    <3>3. CASE B!Publicar(a)
      BY <2>1, <3>3 DEF B!Publicar
    <3>4. CASE B!Arquivar(a)
      BY <2>1, <3>4 DEF B!Arquivar
    <3>5. CASE B!ExcluirArtigo(a)
      BY <2>2, <3>5 DEF B!ExcluirArtigo
    <3> QED BY <3>1, <3>2, <3>3, <3>4, <3>5
  <2> QED BY <2>3 DEF IndInvConhecimento, B!TypeOK
<1> QED BY <1>1, <1>2, Iguais

LEMMA PassoNextConhecimento == IndInvConhecimento /\ [B!Next]_conhecimento => IndInvConhecimento'
<1> SUFFICES ASSUME IndInvConhecimento, [B!Next]_conhecimento PROVE IndInvConhecimento'
  OBVIOUS
<1>1. ASSUME NEW p \in Reordenacoes,
             (\E ids \in Ordens : B!Reordenar(p, ids)) \/ B!Atualizar(p) \/ B!Confirmar(p) \/ B!Desfazer(p)
      PROVE  IndInvConhecimento'
  BY <1>1, PassoReordenar, PassoAtualizar, PassoConfirmar, PassoDesfazerConhecimento
<1>2. CASE UNCHANGED conhecimento
  BY <1>2, Iguais DEF conhecimento, IndInvConhecimento, B!TypeOK
<1> QED BY <1>1, <1>2, PassoCategorias, PassoArtigos DEF B!Next

LEMMA SpecInvConhecimento == B!Spec => []IndInvConhecimento
<1>1. IndInvConhecimento /\ [B!Next]_(B!vars) => IndInvConhecimento'
  BY PassoNextConhecimento DEF conhecimento, B!vars
<1> QED BY InitInvConhecimento, <1>1, PTL DEF B!Spec

LEMMA InvPropsConhecimento == IndInvConhecimento => B!TypeOK /\ B!OrdemInteira
BY DEF IndInvConhecimento, Bases, DaUltima, B!OrdemInteira

(* For every number of categories and of reorders at once, the order that is left is that  *)
(* of the last one to commit, whole.                                                       *)
THEOREM OrdemInteiraCorrect == B!Spec => []OrdemInteira
<1>1. IndInvConhecimento => OrdemInteira
  BY InvPropsConhecimento DEF OrdemInteira
<1> QED BY SpecInvConhecimento, <1>1, PTL

-----------------------------------------------------------------------------
(* The recurring events of the agenda. *)

LEMMA NumerosDaAgenda ==
  MaxEventos \in Nat /\ Inicios \subseteq Nat /\ Destinos \subseteq Nat /\ Citados \subseteq 1..MaxEventos
BY EntornoConstantes DEF EntornoAssumption

(* The days of the occurrences of a recurrence. *)
Dias(o) == G!Recorrencias(gSeries[o].inicio, gSeries[o].regra)

(* The request that inserts the occurrences of o. *)
Criando(p, o) == gPedidos[p].pc = "ocorrencias" /\ gPedidos[p].evento = o

(* A request in flight is about a series, or about an event, by what it does. *)
PedidoInv ==
  \A p \in G!Tarefas :
    /\ gPedidos[p].pc = "ocorrencias" => gPedidos[p].evento \in DOMAIN gSeries
    /\ gPedidos[p].pc \in {"este", "serie"} => gPedidos[p].evento \in 1..Len(gEventos)
    /\ gPedidos[p].pc # "ocorrencias" => gPedidos[p].faltam = <<>>

(* A recurrence is inserted by one request. *)
UmaCriacao == \A p, q \in G!Tarefas : \A o \in DOMAIN gSeries : Criando(p, o) /\ Criando(q, o) => p = q

(* What inserted an event was there before it, and is its origin unless a body gave another. *)
Origens ==
  \A e \in 1..Len(gEventos) :
    gEventos[e].vem <= Len(gEventos) /\ (gEventos[e].avulso \/ gEventos[e].origem = gEventos[e].vem)

(* The occurrences that were inserted, in order: the k-th is event g[k], and stays in the *)
(* series and on the k-th day unless a body moves it.                                     *)
EmDias(o, n, g) ==
  /\ n \in 0..Len(Dias(o)) /\ g \in [1..n -> 1..Len(gEventos)]
  /\ \A i, j \in 1..n : i < j => g[i] < g[j]
  /\ G!Inseridas(o) = {g[k] : k \in 1..n}
  /\ \A k \in 1..n : \/ gEventos[g[k]].avulso
                     \/ gEventos[g[k]].dia = Dias(o)[k] /\ gEventos[g[k]].origem = o

(* What a request has left to insert are the days that follow. *)
Restantes(o, n) ==
  /\ \A p \in G!Tarefas : Criando(p, o) =>
       /\ Len(gPedidos[p].faltam) = Len(Dias(o)) - n
       /\ \A k \in 1..Len(gPedidos[p].faltam) : gPedidos[p].faltam[k] = Dias(o)[n + k]
  /\ gSeries[o].inteira => n = Len(Dias(o))

(* The occurrences of a series are a beginning of its days, and its request has the rest. *)
SerieInv == \A o \in DOMAIN gSeries : \E n, g : EmDias(o, n, g) /\ Restantes(o, n)

(* The inductive invariant of Series. *)
IndInvSeries == G!TypeOK /\ PedidoInv /\ UmaCriacao /\ Origens /\ SerieInv

-----------------------------------------------------------------------------
LEMMA LivreTipoSeries == G!Livre \in G!PedidoRow /\ G!Livre.pc = "livre" /\ G!Livre.faltam = <<>>
<1>1. 0 \in 0..MaxEventos /\ 0 \in Nat /\ <<>> \in Seq(Nat)
  BY NumerosDaAgenda
<1>2. G!Nada \in G!Mudancas
  BY DEF G!Nada, G!Mudancas
<1> QED BY <1>1, <1>2 DEF G!Livre, G!PedidoRow, G!Modos

LEMMA MesmaCardinalidade == \A Q : G!Cardinality(Q) = Cardinality(Q)
BY DEF G!Cardinality, Cardinality

LEMMA DiasTipo ==
  ASSUME G!TypeOK, NEW o \in DOMAIN gSeries
  PROVE  /\ o \in 1..Len(gEventos) /\ Dias(o) \in Seq(Nat) /\ Len(Dias(o)) \in Nat
         /\ Len(Dias(o)) = Cardinality(G!Pretendidas(gSeries[o].inicio, gSeries[o].regra))
         /\ \A k \in 1..Len(Dias(o)) : G!DiaPretendido(Dias(o)[k], k, gSeries[o].inicio, gSeries[o].regra)
<1>1. gSeries[o].inicio \in Inicios /\ gSeries[o].regra \in Regras /\ o \in 1..Len(gEventos)
  BY DEF G!TypeOK
<1>2. /\ Dias(o) \in Seq(Nat)
      /\ Len(Dias(o)) = Cardinality(G!Pretendidas(gSeries[o].inicio, gSeries[o].regra))
      /\ \A k \in DOMAIN Dias(o) : G!DiaPretendido(Dias(o)[k], k, gSeries[o].inicio, gSeries[o].regra)
  BY <1>1, CalendarioConforme, MesmaCardinalidade DEF Calendario, G!DiasConformes, Dias
<1>3. DOMAIN Dias(o) = 1..Len(Dias(o)) /\ Len(Dias(o)) \in Nat
  BY <1>2
<1> QED BY <1>1, <1>2, <1>3

LEMMA EventosTipo ==
  ASSUME G!TypeOK
  PROVE  /\ Len(gEventos) \in Nat /\ Len(gEventos) <= MaxEventos /\ DOMAIN gEventos = 1..Len(gEventos)
         /\ \A e \in 1..Len(gEventos) : gEventos[e] \in G!EventoRow
BY DEF G!TypeOK

LEMMA InitInvSeries == G!Init => IndInvSeries
<1> SUFFICES ASSUME G!Init PROVE IndInvSeries
  OBVIOUS
<1>1. gEventos = <<>> /\ gSeries = <<>> /\ \A p \in G!Tarefas : gPedidos[p] = G!Livre
  BY DEF G!Init
<1>2. Len(gEventos) = 0 /\ DOMAIN gSeries = {} /\ DOMAIN gEventos = {} /\ gEventos \in Seq(G!EventoRow)
  BY <1>1
<1>3. G!TypeOK
  BY <1>2, LivreTipoSeries, NumerosDaAgenda DEF G!Init, G!TypeOK
<1>4. PedidoInv
  BY <1>1, LivreTipoSeries DEF PedidoInv
<1>5. UmaCriacao /\ Origens /\ SerieInv
  BY <1>2 DEF UmaCriacao, Origens, SerieInv
<1> QED BY <1>3, <1>4, <1>5 DEF IndInvSeries

(* One request changes. *)
LEMMA UmPedidoSeries ==
  ASSUME G!TypeOK, NEW p \in G!Tarefas, NEW row \in G!PedidoRow, gPedidos' = [gPedidos EXCEPT ![p] = row]
  PROVE  /\ gPedidos' \in [G!Tarefas -> G!PedidoRow] /\ gPedidos'[p] = row
         /\ \A q \in G!Tarefas \ {p} : gPedidos'[q] = gPedidos[q]
BY DEF G!TypeOK

(* What keeps the occurrences of a recurrence where they are. *)
LEMMA Segue ==
  ASSUME NEW o \in DOMAIN gSeries, NEW n, NEW g, EmDias(o, n, g), Restantes(o, n), EmDias(o, n, g)', Dias(o)' = Dias(o),
         \A q \in G!Tarefas : Criando(q, o)' => Criando(q, o) /\ gPedidos'[q].faltam = gPedidos[q].faltam,
         gSeries'[o].inteira => gSeries[o].inteira \/ n = Len(Dias(o))
  PROVE  Restantes(o, n)'
BY DEF Restantes

(* Rows change, but neither their number nor what inserted them; a day or an origin changes *)
(* by a body.                                                                               *)
LEMMA EventosMudam ==
  ASSUME G!TypeOK, NEW o \in DOMAIN gSeries, NEW n, NEW g, EmDias(o, n, g), Dias(o)' = Dias(o),
         Len(gEventos') = Len(gEventos), DOMAIN gEventos' = DOMAIN gEventos,
         \A e \in 1..Len(gEventos) :
           /\ gEventos'[e].vem = gEventos[e].vem
           /\ gEventos'[e].avulso \/ (/\ gEventos'[e].avulso = gEventos[e].avulso
                                      /\ gEventos'[e].dia = gEventos[e].dia
                                      /\ gEventos'[e].origem = gEventos[e].origem)
  PROVE  EmDias(o, n, g)'
<1>1. G!Inseridas(o)' = G!Inseridas(o)
  BY EventosTipo DEF G!Inseridas
<1> QED BY <1>1 DEF EmDias

(* Neither an event nor a recurrence changes, and no request begins to insert. *)
LEMMA SoPedidos ==
  ASSUME IndInvSeries, UNCHANGED <<gEventos, gSeries>>, gPedidos' \in [G!Tarefas -> G!PedidoRow],
          \A q \in G!Tarefas :
            gPedidos'[q] = gPedidos[q] \/ (gPedidos'[q].pc # "ocorrencias" /\ gPedidos'[q].faltam = <<>>),
         \A q \in G!Tarefas : gPedidos'[q].pc \in {"este", "serie"} => gPedidos'[q].evento \in 1..Len(gEventos)
  PROVE  IndInvSeries'
<1>1. G!TypeOK'
  BY DEF IndInvSeries, G!TypeOK
<1>2. PedidoInv' /\ UmaCriacao' /\ Origens'
  BY DEF IndInvSeries, PedidoInv, UmaCriacao, Origens, Criando
<1>3. SerieInv'
  <2> SUFFICES ASSUME NEW o \in DOMAIN gSeries PROVE \E n, g : EmDias(o, n, g)' /\ Restantes(o, n)'
    BY DEF SerieInv
  <2>1. PICK n, g : EmDias(o, n, g) /\ Restantes(o, n)
    BY DEF IndInvSeries, SerieInv
  <2>2. Dias(o)' = Dias(o)
    BY DEF Dias
  <2>3. EmDias(o, n, g)'
    BY <2>1, <2>2 DEF EmDias, G!Inseridas
  <2>4. Restantes(o, n)'
    BY <2>1, <2>2, <2>3, Segue DEF Criando
  <2> QED BY <2>3, <2>4
<1> QED BY <1>1, <1>2, <1>3 DEF IndInvSeries

-----------------------------------------------------------------------------
(* One more element at the end of an initial segment of the naturals. *)
LEMMA MaisUm ==
  ASSUME NEW m \in Nat
  PROVE  1..(m + 1) = (1..m) \cup {m + 1} /\ m + 1 \notin 1..m
<1>1. \A k \in 1..(m + 1) : k \in 1..m \/ k = m + 1
  OBVIOUS
<1>2. m + 1 \notin 1..m /\ m + 1 \in 1..(m + 1) /\ \A k \in 1..m : k \in 1..(m + 1)
  OBVIOUS
<1> QED BY <1>1, <1>2

(* A row more, at the end. *)
LEMMA InseridoSeries ==
  ASSUME G!TypeOK, NEW dia \in Nat, NEW origem \in 0..MaxEventos, NEW vem \in 0..MaxEventos,
         G!Inserir(dia, origem, vem)
  PROVE  /\ Len(gEventos) < MaxEventos
         /\ gEventos' \in Seq(G!EventoRow) /\ Len(gEventos') = Len(gEventos) + 1
         /\ DOMAIN gEventos' = 1..(Len(gEventos) + 1)
         /\ \A e \in 1..Len(gEventos) : gEventos'[e] = gEventos[e]
         /\ gEventos'[Len(gEventos) + 1].dia = dia /\ gEventos'[Len(gEventos) + 1].origem = origem
         /\ gEventos'[Len(gEventos) + 1].vem = vem
         /\ vem = 0 => gEventos'[Len(gEventos) + 1].avulso
<1> DEFINE row == [dia |-> dia, origem |-> origem, vem |-> vem, avulso |-> vem = 0]
<1>1. row \in G!EventoRow /\ row.dia = dia /\ row.origem = origem /\ row.vem = vem /\ (vem = 0 => row.avulso)
  BY DEF G!EventoRow
<1>2. gEventos' = Append(gEventos, row) /\ Len(gEventos) < MaxEventos
  BY DEF G!Inserir
<1> HIDE DEF row
<1>3. gEventos \in Seq(G!EventoRow)
  BY DEF G!TypeOK
<1> QED BY <1>1, <1>2, <1>3

LEMMA Origina ==
  ASSUME G!TypeOK, Origens, NEW l \in Nat, l = Len(gEventos), Len(gEventos') = l + 1,
         \A e \in 1..l : gEventos'[e] = gEventos[e], gEventos'[l + 1].vem \in 0..l,
         gEventos'[l + 1].avulso \/ gEventos'[l + 1].origem = gEventos'[l + 1].vem
  PROVE  Origens'
<1>1. \A e \in 1..l : /\ gEventos'[e].vem \in 0..MaxEventos /\ gEventos'[e].vem <= l
                      /\ gEventos'[e].avulso \/ gEventos'[e].origem = gEventos'[e].vem
  BY EventosTipo DEF G!EventoRow, Origens
<1>2. \A e \in 1..(l + 1) : /\ gEventos'[e].vem \in Int /\ gEventos'[e].vem <= l
                            /\ gEventos'[e].avulso \/ gEventos'[e].origem = gEventos'[e].vem
  <2> SUFFICES ASSUME NEW e \in 1..(l + 1)
               PROVE  /\ gEventos'[e].vem \in Int /\ gEventos'[e].vem <= l
                      /\ gEventos'[e].avulso \/ gEventos'[e].origem = gEventos'[e].vem
    OBVIOUS
  <2>1. CASE e = l + 1
    BY <2>1
  <2>2. CASE e \in 1..l
    BY <2>2, <1>1, NumerosDaAgenda
  <2> QED BY <2>1, <2>2
<1> QED BY <1>2 DEF Origens

(* A row that another inserted leaves the series as it is. *)
LEMMA OutraLinha ==
  ASSUME G!TypeOK, NEW o \in DOMAIN gSeries, NEW n, NEW g, EmDias(o, n, g), Dias(o)' = Dias(o),
         NEW l \in Nat, l = Len(gEventos), Len(gEventos') = l + 1, DOMAIN gEventos' = 1..(l + 1),
         \A e \in 1..l : gEventos'[e] = gEventos[e], gEventos'[l + 1].vem # o
  PROVE  EmDias(o, n, g)'
<1>1. DOMAIN gEventos = 1..l /\ DOMAIN gEventos' = (1..l) \cup {l + 1}
  BY EventosTipo, MaisUm
<1>2. G!Inseridas(o)' = G!Inseridas(o)
  BY <1>1 DEF G!Inseridas
<1>3. g \in [1..n -> 1..l] /\ g \in [1..n -> 1..(l + 1)]
  BY DEF EmDias
<1>4. \A k \in 1..n : gEventos'[g[k]] = gEventos[g[k]]
  BY <1>3
<1> QED BY <1>2, <1>3, <1>4 DEF EmDias

(* An event by itself. *)
LEMMA PassoCriarUm ==
  ASSUME IndInvSeries, NEW dia \in Inicios, NEW origem \in {0} \cup (Citados \cap DOMAIN gEventos),
         G!CriarUm(dia, origem)
  PROVE  IndInvSeries'
<1>1. PICK l \in Nat : l = Len(gEventos)
  BY EventosTipo DEF IndInvSeries
<1>2. G!Inserir(dia, origem, 0) /\ UNCHANGED <<gPedidos, gSeries>>
  BY DEF G!CriarUm
<1>3. dia \in Nat /\ 0 \in 0..MaxEventos /\ origem \in 0..MaxEventos
  BY NumerosDaAgenda
<1>4. /\ l < MaxEventos
      /\ gEventos' \in Seq(G!EventoRow) /\ Len(gEventos') = l + 1 /\ DOMAIN gEventos' = 1..(l + 1)
      /\ \A e \in 1..l : gEventos'[e] = gEventos[e]
      /\ gEventos'[l + 1].vem = 0 /\ gEventos'[l + 1].avulso
  BY <1>1, <1>2, <1>3, InseridoSeries DEF IndInvSeries
<1>5. G!TypeOK'
  BY <1>1, <1>2, <1>4, EventosTipo, NumerosDaAgenda DEF IndInvSeries, G!TypeOK
<1>6. PedidoInv' /\ UmaCriacao'
  BY <1>1, <1>2, <1>4 DEF IndInvSeries, PedidoInv, UmaCriacao, Criando
<1>7. Origens'
  BY <1>1, <1>4, Origina DEF IndInvSeries
<1>8. SerieInv'
  <2> SUFFICES ASSUME NEW o \in DOMAIN gSeries PROVE \E n, g : EmDias(o, n, g)' /\ Restantes(o, n)'
    BY <1>2 DEF SerieInv
  <2>1. PICK n, g : EmDias(o, n, g) /\ Restantes(o, n)
    BY DEF IndInvSeries, SerieInv
  <2>2. Dias(o)' = Dias(o) /\ o \in 1..l /\ G!TypeOK
    BY <1>1, <1>2, DiasTipo DEF Dias, IndInvSeries
  <2>3. EmDias(o, n, g)'
    BY <1>1, <1>4, <2>1, <2>2, OutraLinha
  <2>4. Restantes(o, n)'
    BY <1>2, <2>1, <2>2, <2>3, Segue DEF Criando
  <2> QED BY <2>3, <2>4
<1> QED BY <1>5, <1>6, <1>7, <1>8 DEF IndInvSeries

LEMMA PassoCriarSeries ==
  ASSUME IndInvSeries, NEW p \in G!Tarefas, NEW dia \in Inicios, NEW r \in Regras,
         NEW origem \in {0} \cup (Citados \cap DOMAIN gEventos), G!Criar(p, dia, origem, r)
  PROVE  IndInvSeries'
<1>1. PICK l \in Nat : l = Len(gEventos)
  BY EventosTipo DEF IndInvSeries
<1>a. PICK dias \in Seq(Nat) : dias = G!Recorrencias(dia, r)
  BY CalendarioConforme DEF Calendario, G!DiasConformes
<1> DEFINE row == [G!Livre EXCEPT !.pc = "ocorrencias", !.evento = l + 1, !.faltam = dias]
           linha == [inicio |-> dia, regra |-> r, inteira |-> FALSE]
<1>2. gPedidos[p] = G!Livre /\ G!Inserir(dia, origem, 0) /\ gPedidos' = [gPedidos EXCEPT ![p] = row]
      /\ gSeries' = [i \in DOMAIN gSeries \cup {l + 1} |-> IF i = l + 1 THEN linha ELSE gSeries[i]]
  BY <1>1, <1>a DEF G!Criar
<1>3. dia \in Nat /\ 0 \in 0..MaxEventos /\ origem \in 0..MaxEventos
  BY NumerosDaAgenda
<1>4. /\ l < MaxEventos
      /\ gEventos' \in Seq(G!EventoRow) /\ Len(gEventos') = l + 1 /\ DOMAIN gEventos' = 1..(l + 1)
      /\ \A e \in 1..l : gEventos'[e] = gEventos[e]
      /\ gEventos'[l + 1].vem = 0 /\ gEventos'[l + 1].avulso
  BY <1>1, <1>2, <1>3, InseridoSeries DEF IndInvSeries
<1>5. row \in G!PedidoRow /\ row.pc = "ocorrencias" /\ row.evento = l + 1 /\ row.faltam = dias
  <2>1. l + 1 \in 0..MaxEventos
    BY <1>4, NumerosDaAgenda
  <2>2. G!Livre \in G!PedidoRow
    BY LivreTipoSeries
  <2> QED BY <2>1, <2>2 DEF G!PedidoRow
<1>6. linha \in [inicio: Inicios, regra: Regras, inteira: BOOLEAN]
      /\ linha.inicio = dia /\ linha.regra = r /\ linha.inteira = FALSE
  OBVIOUS
<1> HIDE DEF row, linha
<1>7. /\ gPedidos' \in [G!Tarefas -> G!PedidoRow] /\ gPedidos'[p] = row
      /\ \A q \in G!Tarefas \ {p} : gPedidos'[q] = gPedidos[q]
  BY <1>2, <1>5, UmPedidoSeries DEF IndInvSeries
<1>8. /\ DOMAIN gSeries' = DOMAIN gSeries \cup {l + 1} /\ gSeries'[l + 1] = linha
      /\ DOMAIN gSeries \subseteq 1..l /\ \A o \in DOMAIN gSeries : gSeries'[o] = gSeries[o]
  BY <1>1, <1>2, DiasTipo DEF IndInvSeries
<1>9. G!TypeOK'
  BY <1>1, <1>4, <1>6, <1>7, <1>8, EventosTipo, NumerosDaAgenda DEF IndInvSeries, G!TypeOK
<1>10. PedidoInv'
  BY <1>1, <1>4, <1>5, <1>7, <1>8 DEF IndInvSeries, PedidoInv
<1>11. UmaCriacao'
  <2>1. \A q \in G!Tarefas, o \in DOMAIN gSeries' :
          Criando(q, o)' => IF o = l + 1 THEN q = p ELSE q # p /\ Criando(q, o)
    BY <1>5, <1>7, <1>8 DEF Criando, IndInvSeries, PedidoInv
  <2> QED BY <2>1, <1>8 DEF IndInvSeries, UmaCriacao
<1>12. Origens'
  BY <1>1, <1>4, Origina DEF IndInvSeries
<1>13. SerieInv'
  <2>1. ASSUME NEW o \in DOMAIN gSeries PROVE \E n, g : EmDias(o, n, g)' /\ Restantes(o, n)'
    <3>1. PICK n, g : EmDias(o, n, g) /\ Restantes(o, n)
      BY DEF IndInvSeries, SerieInv
    <3>2. Dias(o)' = Dias(o) /\ o \in 1..l /\ G!TypeOK
      BY <1>8 DEF Dias, IndInvSeries
    <3>3. EmDias(o, n, g)'
      BY <1>1, <1>4, <3>1, <3>2, OutraLinha
    <3>4. \A q \in G!Tarefas : Criando(q, o)' => Criando(q, o) /\ gPedidos'[q].faltam = gPedidos[q].faltam
      BY <1>5, <1>7, <3>2 DEF Criando
    <3>5. Restantes(o, n)'
      BY <1>8, <3>1, <3>2, <3>3, <3>4, Segue
    <3> QED BY <3>3, <3>5
  <2>2. \E n, g : EmDias(l + 1, n, g)' /\ Restantes(l + 1, n)'
    <3> DEFINE g == [k \in 1..0 |-> 1]
    <3>1. Dias(l + 1)' = dias
      BY <1>6, <1>8, <1>a DEF Dias
    <3>2. G!Inseridas(l + 1)' = {}
      <4>1. \A e \in 1..l : gEventos'[e].vem \in 0..MaxEventos /\ gEventos'[e].vem <= l
        BY <1>1, <1>4, EventosTipo DEF IndInvSeries, Origens, G!EventoRow
      <4>2. DOMAIN gEventos' = (1..l) \cup {l + 1} /\ gEventos'[l + 1].vem # l + 1
        BY <1>4, MaisUm
      <4>3. \A e \in 1..l : gEventos'[e].vem # l + 1
        BY <4>1, NumerosDaAgenda
      <4> QED BY <4>2, <4>3 DEF G!Inseridas
    <3>3. EmDias(l + 1, 0, g)'
      BY <3>1, <3>2, <1>4 DEF EmDias
    <3>4. \A q \in G!Tarefas : Criando(q, l + 1)' => q = p
      BY <1>1, <1>7, <1>8 DEF Criando, IndInvSeries, PedidoInv
    <3>5. Restantes(l + 1, 0)'
      BY <3>1, <3>4, <1>5, <1>6, <1>7, <1>8 DEF Restantes
    <3> QED BY <3>3, <3>5
  <2> QED BY <1>8, <2>1, <2>2 DEF SerieInv
<1> QED BY <1>9, <1>10, <1>11, <1>12, <1>13 DEF IndInvSeries

LEMMA PassoOcorrencia ==
  ASSUME IndInvSeries, NEW p \in G!Tarefas, G!Ocorrencia(p)
  PROVE  IndInvSeries'
<1>1. PICK l \in Nat : l = Len(gEventos)
  BY EventosTipo DEF IndInvSeries
<1>2. PICK d \in G!PedidoRow : d = gPedidos[p]
  BY DEF IndInvSeries, G!TypeOK
<1>3. PICK o \in DOMAIN gSeries : d.pc = "ocorrencias" /\ d.evento = o
  BY <1>2 DEF G!Ocorrencia, IndInvSeries, PedidoInv
<1>4. /\ d.faltam \in Seq(Nat) /\ d.faltam # <<>> /\ Head(d.faltam) \in Nat /\ Tail(d.faltam) \in Seq(Nat)
      /\ Len(d.faltam) \in Nat \ {0} /\ Head(d.faltam) = d.faltam[1] /\ Len(Tail(d.faltam)) = Len(d.faltam) - 1
      /\ \A k \in 1..(Len(d.faltam) - 1) : Tail(d.faltam)[k] = d.faltam[k + 1]
  BY <1>2 DEF G!Ocorrencia, G!PedidoRow
<1> DEFINE row == [d EXCEPT !.faltam = Tail(d.faltam)]
<1>5. row \in G!PedidoRow /\ row.pc = "ocorrencias" /\ row.evento = o /\ row.faltam = Tail(d.faltam)
  BY <1>3, <1>4 DEF G!PedidoRow
<1>6. gPedidos' = [gPedidos EXCEPT ![p] = row] /\ G!Inserir(Head(d.faltam), o, o) /\ UNCHANGED gSeries
  BY <1>2, <1>3 DEF G!Ocorrencia
<1> HIDE DEF row
<1>7. o \in 1..l /\ o \in 0..MaxEventos /\ l < MaxEventos
  <2>1. o \in 1..l /\ l < MaxEventos
    BY <1>1, <1>6, DiasTipo DEF IndInvSeries, G!Inserir
  <2> QED BY <2>1, NumerosDaAgenda
<1>8. /\ gEventos' \in Seq(G!EventoRow) /\ Len(gEventos') = l + 1 /\ DOMAIN gEventos' = 1..(l + 1)
      /\ \A e \in 1..l : gEventos'[e] = gEventos[e]
      /\ gEventos'[l + 1].vem = o /\ gEventos'[l + 1].origem = o /\ gEventos'[l + 1].dia = d.faltam[1]
  BY <1>1, <1>4, <1>6, <1>7, InseridoSeries DEF IndInvSeries
<1>9. /\ gPedidos' \in [G!Tarefas -> G!PedidoRow] /\ gPedidos'[p] = row
      /\ \A q \in G!Tarefas \ {p} : gPedidos'[q] = gPedidos[q]
  BY <1>5, <1>6, UmPedidoSeries DEF IndInvSeries
<1>10. G!TypeOK'
  BY <1>1, <1>6, <1>7, <1>8, <1>9, EventosTipo, NumerosDaAgenda DEF IndInvSeries, G!TypeOK
<1>11. PedidoInv'
  BY <1>1, <1>3, <1>5, <1>6, <1>8, <1>9 DEF IndInvSeries, PedidoInv
<1>12. \A q \in G!Tarefas : \A u \in DOMAIN gSeries : Criando(q, u)' <=> Criando(q, u)
  BY <1>2, <1>3, <1>5, <1>9 DEF Criando
<1>13. UmaCriacao'
  BY <1>6, <1>12 DEF IndInvSeries, UmaCriacao
<1>14. Origens'
  BY <1>1, <1>7, <1>8, Origina DEF IndInvSeries
<1>15. ASSUME NEW u \in DOMAIN gSeries PROVE Dias(u)' = Dias(u) /\ u \in 1..l
  BY <1>1, <1>6, DiasTipo DEF Dias, IndInvSeries
<1>16. ASSUME NEW u \in DOMAIN gSeries \ {o} PROVE \E n, g : EmDias(u, n, g)' /\ Restantes(u, n)'
  <2>1. PICK n, g : EmDias(u, n, g) /\ Restantes(u, n)
    BY DEF IndInvSeries, SerieInv
  <2>2. G!TypeOK /\ u \in DOMAIN gSeries /\ Dias(u)' = Dias(u) /\ gEventos'[l + 1].vem # u
    BY <1>8, <1>15 DEF IndInvSeries
  <2>3. EmDias(u, n, g)'
    BY <1>1, <1>8, <2>1, <2>2, OutraLinha
  <2>4. \A q \in G!Tarefas : Criando(q, u)' => Criando(q, u) /\ gPedidos'[q].faltam = gPedidos[q].faltam
    BY <1>3, <1>5, <1>9 DEF Criando
  <2>5. Restantes(u, n)'
    BY <1>6, <1>15, <2>1, <2>3, <2>4, Segue
  <2> QED BY <2>3, <2>5
<1>17. \E n, g : EmDias(o, n, g)' /\ Restantes(o, n)'
  <2>1. PICK n, g : EmDias(o, n, g) /\ Restantes(o, n)
    BY DEF IndInvSeries, SerieInv
  <2>2. PICK dias \in Seq(Nat) : dias = Dias(o)
    BY DiasTipo DEF IndInvSeries
  <2>3. Dias(o)' = dias /\ Len(dias) \in Nat
    BY <1>15, <2>2
  <2>4. /\ n \in Nat /\ Len(d.faltam) = Len(dias) - n
        /\ \A k \in 1..Len(d.faltam) : d.faltam[k] = dias[n + k]
    BY <1>2, <1>3, <2>1, <2>2, <2>3 DEF Restantes, Criando, EmDias
  <2>5. n + 1 \in 0..Len(dias) /\ d.faltam[1] = dias[n + 1]
    BY <1>4, <2>3, <2>4
  <2> DEFINE h == [k \in 1..(n + 1) |-> IF k = n + 1 THEN l + 1 ELSE g[k]]
  <2>6. /\ g \in [1..n -> 1..l] /\ (\A i, j \in 1..n : i < j => g[i] < g[j])
        /\ G!Inseridas(o) = {g[k] : k \in 1..n}
        /\ \A k \in 1..n : gEventos[g[k]].avulso \/ (gEventos[g[k]].dia = dias[k] /\ gEventos[g[k]].origem = o)
    BY <1>1, <2>1, <2>2 DEF EmDias
  <2>7. 1..(n + 1) = (1..n) \cup {n + 1} /\ n + 1 \notin 1..n /\ 1..(l + 1) = (1..l) \cup {l + 1} /\ l + 1 \notin 1..l
    BY <1>1, <2>4, MaisUm
  <2>8. /\ h \in [1..(n + 1) -> 1..(l + 1)] /\ h[n + 1] = l + 1
        /\ \A k \in 1..n : h[k] = g[k] /\ h[k] \in 1..l
    BY <2>6, <2>7
  <2> HIDE DEF h
  <2>9. \A i, j \in 1..(n + 1) : i < j => h[i] < h[j]
    <3> SUFFICES ASSUME NEW i \in 1..(n + 1), NEW j \in 1..(n + 1), i < j PROVE h[i] < h[j]
      OBVIOUS
    <3>1. i \in 1..n
      BY <2>4
    <3>2. CASE j = n + 1
      BY <2>8, <3>1, <3>2
    <3>3. CASE j \in 1..n
      BY <2>6, <2>8, <3>1, <3>3
    <3> QED BY <2>7, <3>2, <3>3
  <2>10. G!Inseridas(o)' = G!Inseridas(o) \cup {l + 1}
    <3>1. DOMAIN gEventos = 1..l /\ DOMAIN gEventos' = (1..l) \cup {l + 1}
      BY <1>1, <1>8, <2>7, EventosTipo DEF IndInvSeries
    <3> QED BY <1>8, <3>1 DEF G!Inseridas
  <2>11. G!Inseridas(o)' = {h[k] : k \in 1..(n + 1)}
    <3>1. {h[k] : k \in 1..(n + 1)} = {h[k] : k \in 1..n} \cup {h[n + 1]}
      BY <2>7
    <3>2. {h[k] : k \in 1..n} = {g[k] : k \in 1..n}
      BY <2>8
    <3>3. G!Inseridas(o)' = {g[k] : k \in 1..n} \cup {l + 1}
      BY <2>6, <2>10
    <3> QED BY <2>8, <3>1, <3>2, <3>3
  <2>12. \A k \in 1..(n + 1) : \/ gEventos'[h[k]].avulso
                               \/ gEventos'[h[k]].dia = dias[k] /\ gEventos'[h[k]].origem = o
    <3>1. ASSUME NEW k \in 1..n
          PROVE  gEventos'[h[k]].avulso \/ (gEventos'[h[k]].dia = dias[k] /\ gEventos'[h[k]].origem = o)
      <4>1. h[k] = g[k] /\ gEventos'[g[k]] = gEventos[g[k]]
        BY <1>8, <2>6, <2>8
      <4> QED BY <2>6, <4>1
    <3>2. gEventos'[h[n + 1]].dia = dias[n + 1] /\ gEventos'[h[n + 1]].origem = o
      BY <1>8, <2>5, <2>8
    <3> QED BY <2>7, <3>1, <3>2
  <2>13. EmDias(o, n + 1, h)'
    BY <1>8, <2>3, <2>5, <2>8, <2>9, <2>11, <2>12 DEF EmDias
  <2>14. \A q \in G!Tarefas : Criando(q, o)' => q = p
    BY <1>2, <1>3, <1>12 DEF IndInvSeries, UmaCriacao, Criando
  <2>15. /\ Len(Tail(d.faltam)) = Len(dias) - (n + 1)
         /\ \A k \in 1..Len(Tail(d.faltam)) : Tail(d.faltam)[k] = dias[n + 1 + k]
    <3>1. Len(Tail(d.faltam)) = Len(dias) - (n + 1)
      BY <1>4, <2>3, <2>4
    <3>2. ASSUME NEW k \in 1..Len(Tail(d.faltam)) PROVE Tail(d.faltam)[k] = dias[n + 1 + k]
      <4>1. k \in 1..(Len(d.faltam) - 1) /\ k + 1 \in 1..Len(d.faltam) /\ n + (k + 1) = n + 1 + k
        BY <1>4, <2>4
      <4> QED BY <1>4, <2>4, <4>1
    <3> QED BY <3>1, <3>2
  <2>16. ~gSeries[o].inteira
    <3>1. n # Len(dias)
      BY <2>3, <2>5
    <3> QED BY <2>1, <2>2, <3>1 DEF Restantes
  <2>17. Restantes(o, n + 1)'
    BY <1>5, <1>6, <1>9, <2>3, <2>14, <2>15, <2>16 DEF Restantes
  <2> QED BY <2>13, <2>17
<1>18. SerieInv'
  BY <1>6, <1>16, <1>17 DEF SerieInv
<1> QED BY <1>10, <1>11, <1>13, <1>14, <1>18 DEF IndInvSeries

LEMMA PassoResponder ==
  ASSUME IndInvSeries, NEW p \in G!Tarefas, G!Responder(p)
  PROVE  IndInvSeries'
<1>1. PICK o \in DOMAIN gSeries : gPedidos[p].pc = "ocorrencias" /\ gPedidos[p].evento = o /\ gPedidos[p].faltam = <<>>
  BY DEF G!Responder, IndInvSeries, PedidoInv
<1>2. gPedidos' = [gPedidos EXCEPT ![p] = G!Livre] /\ gSeries' = [gSeries EXCEPT ![o].inteira = TRUE]
      /\ UNCHANGED gEventos
  BY <1>1 DEF G!Responder
<1>3. /\ gPedidos' \in [G!Tarefas -> G!PedidoRow] /\ gPedidos'[p] = G!Livre
      /\ \A q \in G!Tarefas \ {p} : gPedidos'[q] = gPedidos[q]
  BY <1>2, LivreTipoSeries, UmPedidoSeries DEF IndInvSeries
<1>4. gSeries[o] \in [inicio: Inicios, regra: Regras, inteira: BOOLEAN]
  BY DEF IndInvSeries, G!TypeOK
<1>5. /\ DOMAIN gSeries' = DOMAIN gSeries /\ \A u \in DOMAIN gSeries \ {o} : gSeries'[u] = gSeries[u]
      /\ gSeries'[o] \in [inicio: Inicios, regra: Regras, inteira: BOOLEAN]
      /\ gSeries'[o].inicio = gSeries[o].inicio /\ gSeries'[o].regra = gSeries[o].regra
  BY <1>2, <1>4
<1>6. G!TypeOK'
  BY <1>2, <1>3, <1>5 DEF IndInvSeries, G!TypeOK
<1>7. \A q \in G!Tarefas : \A u \in DOMAIN gSeries :
        Criando(q, u)' => Criando(q, u) /\ q # p /\ gPedidos'[q] = gPedidos[q]
  BY <1>3, LivreTipoSeries DEF Criando
<1>8. PedidoInv' /\ UmaCriacao' /\ Origens'
  BY <1>2, <1>3, <1>5, <1>7, LivreTipoSeries DEF IndInvSeries, PedidoInv, UmaCriacao, Origens
<1>9. ASSUME NEW u \in DOMAIN gSeries PROVE \E n, g : EmDias(u, n, g)' /\ Restantes(u, n)'
  <2>1. PICK n, g : EmDias(u, n, g) /\ Restantes(u, n)
    BY DEF IndInvSeries, SerieInv
  <2>2. Dias(u)' = Dias(u)
    BY <1>5 DEF Dias
  <2>3. EmDias(u, n, g)'
    BY <1>2, <2>1, <2>2 DEF EmDias, G!Inseridas
  <2>4. u = o => n = Len(Dias(u))
    <3> SUFFICES ASSUME u = o PROVE n = Len(Dias(u))
      OBVIOUS
    <3>1. Len(gPedidos[p].faltam) = Len(Dias(u)) - n
      BY <1>1, <2>1 DEF Restantes, Criando
    <3>2. Len(Dias(u)) \in Nat /\ n \in 0..Len(Dias(u)) /\ Len(gPedidos[p].faltam) = 0
      BY <1>1, <2>1, DiasTipo DEF EmDias, IndInvSeries
    <3> QED BY <3>1, <3>2
  <2>5. Restantes(u, n)'
    BY <1>5, <1>7, <2>1, <2>2, <2>3, <2>4, Segue
  <2> QED BY <2>3, <2>5
<1>10. SerieInv'
  BY <1>5, <1>9 DEF SerieInv
<1> QED BY <1>6, <1>8, <1>10 DEF IndInvSeries

-----------------------------------------------------------------------------
LEMMA PassoLer ==
  ASSUME IndInvSeries, NEW p \in G!Tarefas, NEW e \in DOMAIN gEventos, NEW modo \in G!Modos, NEW mudanca \in G!Mudancas,
         G!LerEvento(p, e, modo, mudanca)
  PROVE  IndInvSeries'
<1> DEFINE row == [G!Livre EXCEPT !.pc = "este", !.evento = e, !.modo = modo, !.mudanca = mudanca,
                    !.origem = G!Origem(e), !.dia = gEventos[e].dia]
<1>1. e \in 1..Len(gEventos) /\ e \in 0..MaxEventos /\ gEventos[e] \in G!EventoRow
  <2>1. e \in 1..Len(gEventos) /\ Len(gEventos) \in Nat /\ Len(gEventos) <= MaxEventos /\ gEventos[e] \in G!EventoRow
    BY EventosTipo DEF IndInvSeries
  <2> QED BY <2>1, NumerosDaAgenda
<1>2. G!Origem(e) \in 0..MaxEventos /\ gEventos[e].dia \in Nat
  BY <1>1 DEF G!Origem, G!EventoRow
<1>3. row \in G!PedidoRow /\ row.pc = "este" /\ row.evento = e /\ row.mudanca = mudanca /\ row.faltam = <<>>
  BY <1>1, <1>2, LivreTipoSeries DEF G!PedidoRow
<1>4. gPedidos' = [gPedidos EXCEPT ![p] = row] /\ UNCHANGED <<gEventos, gSeries>>
  BY DEF G!LerEvento
<1> HIDE DEF row
<1>5. /\ gPedidos' \in [G!Tarefas -> G!PedidoRow] /\ gPedidos'[p] = row
      /\ \A q \in G!Tarefas \ {p} : gPedidos'[q] = gPedidos[q]
  BY <1>3, <1>4, UmPedidoSeries DEF IndInvSeries
<1> QED BY <1>1, <1>3, <1>4, <1>5, SoPedidos DEF IndInvSeries, PedidoInv

LEMMA PassoFalharSeries ==
  ASSUME IndInvSeries, NEW p \in G!Tarefas, G!Falhar(p)
  PROVE  IndInvSeries'
<1>1. gPedidos' = [gPedidos EXCEPT ![p] = G!Livre] /\ UNCHANGED <<gEventos, gSeries>>
  BY DEF G!Falhar
<1>2. /\ gPedidos' \in [G!Tarefas -> G!PedidoRow] /\ gPedidos'[p] = G!Livre
      /\ \A q \in G!Tarefas \ {p} : gPedidos'[q] = gPedidos[q]
  BY <1>1, LivreTipoSeries, UmPedidoSeries DEF IndInvSeries
<1> QED BY <1>1, <1>2, LivreTipoSeries, SoPedidos DEF IndInvSeries, PedidoInv

(* A day or an origin that changes is a body's. *)
LEMMA MudadoTipo ==
  ASSUME NEW row \in G!EventoRow, NEW m \in G!Mudancas
  PROVE  LET nova == G!Mudado(row, m)
         IN  /\ nova \in G!EventoRow /\ nova.vem = row.vem
             /\ nova.avulso \/ (nova.avulso = row.avulso /\ nova.dia = row.dia /\ nova.origem = row.origem)
<1> DEFINE dia == IF m.dia = NULL THEN row.dia ELSE m.dia
           origem == IF m.origem = NULL THEN row.origem ELSE m.origem
           avulso == row.avulso \/ m.dia # NULL \/ m.origem # NULL
<1>1. dia \in Nat /\ origem \in 0..MaxEventos /\ avulso \in BOOLEAN
  <2>1. /\ row.dia \in Nat /\ row.origem \in 0..MaxEventos /\ row.avulso \in BOOLEAN
        /\ m.dia \in Destinos \cup {NULL} /\ m.origem \in {NULL, 0} \cup Citados
    BY DEF G!Mudancas, G!EventoRow
  <2>2. m.dia # NULL => m.dia \in Nat
    BY <2>1, NumerosDaAgenda
  <2>3. m.origem # NULL => m.origem \in 0..MaxEventos
    <3>1. 0 \in 0..MaxEventos /\ \A e \in Citados : e \in 0..MaxEventos
      BY NumerosDaAgenda
    <3> QED BY <2>1, <3>1
  <2> QED BY <2>1, <2>2, <2>3
<1>2. avulso \/ (avulso = row.avulso /\ dia = row.dia /\ origem = row.origem)
  BY DEF G!EventoRow
<1>3. G!Mudado(row, m) = [row EXCEPT !.dia = dia, !.origem = origem, !.avulso = avulso]
  BY DEF G!Mudado
<1> HIDE DEF dia, origem, avulso
<1>4. LET nova == [row EXCEPT !.dia = dia, !.origem = origem, !.avulso = avulso]
      IN  /\ nova \in G!EventoRow /\ nova.vem = row.vem
          /\ nova.avulso = avulso /\ nova.dia = dia /\ nova.origem = origem
  BY <1>1 DEF G!EventoRow
<1> QED BY <1>2, <1>3, <1>4

(* An edit of rows: each is as it was or changed. *)
LEMMA PassoEdicao ==
  ASSUME IndInvSeries, NEW p \in G!Tarefas, NEW m \in G!Mudancas, UNCHANGED gSeries,
         gEventos' \in Seq(G!EventoRow), Len(gEventos') = Len(gEventos), DOMAIN gEventos' = DOMAIN gEventos,
         \A e \in 1..Len(gEventos) : gEventos'[e] = gEventos[e] \/ gEventos'[e] = G!Mudado(gEventos[e], m),
         NEW row \in G!PedidoRow, gPedidos' = [gPedidos EXCEPT ![p] = row],
         row.pc \in {"livre", "serie"}, row.faltam = <<>>,
         row.pc = "serie" => row.evento \in 1..Len(gEventos)
  PROVE  IndInvSeries'
<1>1. /\ gPedidos' \in [G!Tarefas -> G!PedidoRow] /\ gPedidos'[p] = row
      /\ \A q \in G!Tarefas \ {p} : gPedidos'[q] = gPedidos[q]
  BY UmPedidoSeries DEF IndInvSeries
<1>2. \A e \in 1..Len(gEventos) :
        /\ gEventos'[e].vem = gEventos[e].vem
        /\ gEventos'[e].avulso \/ (/\ gEventos'[e].avulso = gEventos[e].avulso
                                   /\ gEventos'[e].dia = gEventos[e].dia
                                   /\ gEventos'[e].origem = gEventos[e].origem)
  BY EventosTipo, MudadoTipo DEF IndInvSeries
<1>3. G!TypeOK'
  BY <1>1 DEF IndInvSeries, G!TypeOK
<1>4. PedidoInv' /\ Origens'
  BY <1>1, <1>2 DEF IndInvSeries, PedidoInv, Origens
<1>5. \A q \in G!Tarefas : \A u \in DOMAIN gSeries : Criando(q, u)' => Criando(q, u) /\ gPedidos'[q] = gPedidos[q]
  BY <1>1 DEF Criando
<1>6. UmaCriacao'
  BY <1>5 DEF IndInvSeries, UmaCriacao
<1>7. SerieInv'
  <2> SUFFICES ASSUME NEW o \in DOMAIN gSeries PROVE \E n, g : EmDias(o, n, g)' /\ Restantes(o, n)'
    BY DEF SerieInv
  <2>1. PICK n, g : EmDias(o, n, g) /\ Restantes(o, n)
    BY DEF IndInvSeries, SerieInv
  <2>2. Dias(o)' = Dias(o)
    BY DEF Dias
  <2>3. EmDias(o, n, g)'
    BY <1>2, <2>1, <2>2, EventosMudam DEF IndInvSeries
  <2>4. Restantes(o, n)'
    BY <1>5, <2>1, <2>2, <2>3, Segue
  <2> QED BY <2>3, <2>4
<1> QED BY <1>3, <1>4, <1>6, <1>7 DEF IndInvSeries

LEMMA PassoMudarEste ==
  ASSUME IndInvSeries, NEW p \in G!Tarefas, G!MudarEste(p)
  PROVE  IndInvSeries'
<1>1. PICK d \in G!PedidoRow : d = gPedidos[p]
  BY DEF IndInvSeries, G!TypeOK
<1>2. d.pc = "este" /\ d.evento \in 1..Len(gEventos) /\ d.mudanca \in G!Mudancas /\ d.faltam = <<>>
  BY <1>1 DEF G!MudarEste, IndInvSeries, PedidoInv, G!PedidoRow
<1>3. gEventos' = [gEventos EXCEPT ![d.evento] = G!Mudado(gEventos[d.evento], d.mudanca)] /\ UNCHANGED gSeries
  BY <1>1 DEF G!MudarEste
<1>4. gEventos \in Seq(G!EventoRow) /\ G!Mudado(gEventos[d.evento], d.mudanca) \in G!EventoRow
  BY <1>2, EventosTipo, MudadoTipo DEF IndInvSeries, G!TypeOK
<1>5. /\ gEventos' \in Seq(G!EventoRow) /\ Len(gEventos') = Len(gEventos) /\ DOMAIN gEventos' = DOMAIN gEventos
      /\ \A e \in 1..Len(gEventos) : gEventos'[e] = gEventos[e] \/ gEventos'[e] = G!Mudado(gEventos[e], d.mudanca)
  BY <1>2, <1>3, <1>4
<1> DEFINE row == IF d.modo = "apenas_este" THEN G!Livre ELSE [d EXCEPT !.pc = "serie"]
<1>6. gPedidos' = [gPedidos EXCEPT ![p] = row]
  BY <1>1 DEF G!MudarEste
<1>7. /\ row \in G!PedidoRow /\ row.pc \in {"livre", "serie"} /\ row.faltam = <<>>
      /\ row.pc = "serie" => row.evento = d.evento
  BY <1>2, LivreTipoSeries DEF G!PedidoRow
<1> HIDE DEF row
<1> QED BY <1>2, <1>3, <1>5, <1>6, <1>7, PassoEdicao

LEMMA PassoMudarSerie ==
  ASSUME IndInvSeries, NEW p \in G!Tarefas, G!MudarSerie(p)
  PROVE  IndInvSeries'
<1>1. PICK m \in G!Mudancas : m = gPedidos[p].mudanca
  BY DEF IndInvSeries, G!TypeOK, G!PedidoRow
<1>2. DOMAIN gEventos = 1..Len(gEventos) /\ Len(gEventos) \in Nat
  BY EventosTipo DEF IndInvSeries
<1>3. gEventos' = [e \in 1..Len(gEventos) |-> IF e \in G!Alcancados(p) THEN G!Mudado(gEventos[e], m) ELSE gEventos[e]]
      /\ gPedidos' = [gPedidos EXCEPT ![p] = G!Livre] /\ UNCHANGED gSeries
  BY <1>1, <1>2 DEF G!MudarSerie
<1>4. \A e \in 1..Len(gEventos) : gEventos'[e] \in G!EventoRow
  BY <1>3, EventosTipo, MudadoTipo DEF IndInvSeries
<1>5. /\ gEventos' \in Seq(G!EventoRow) /\ Len(gEventos') = Len(gEventos) /\ DOMAIN gEventos' = DOMAIN gEventos
      /\ \A e \in 1..Len(gEventos) : gEventos'[e] = gEventos[e] \/ gEventos'[e] = G!Mudado(gEventos[e], m)
  <2>1. gEventos' \in [1..Len(gEventos) -> G!EventoRow]
    BY <1>3, <1>4
  <2> QED BY <1>2, <1>3, <2>1
<1> QED BY <1>3, <1>5, LivreTipoSeries, PassoEdicao

(* The image of U. *)
Valores(f, U) == {f[k] : k \in U}

(* As many elements as a function of different values has arguments. *)
LEMMA Contagem ==
  ASSUME NEW U, IsFiniteSet(U), NEW f, \A i, j \in U : f[i] = f[j] => i = j
  PROVE  IsFiniteSet(Valores(f, U)) /\ Cardinality(Valores(f, U)) = Cardinality(U)
<1> DEFINE h == [k \in U |-> f[k]]
<1>1. h \in [U -> Valores(f, U)] /\ (\A k \in U : h[k] = f[k]) /\ DOMAIN h = U
  BY DEF Valores
<1>2. \A v \in Valores(f, U) : \E k \in U : h[k] = v
  BY <1>1 DEF Valores
<1> HIDE DEF h
<1>3. h \in Bijection(U, Valores(f, U))
  BY <1>1, <1>2 DEF Bijection, Injection, Surjection, IsInjective
<1>4. ExistsBijection(U, Valores(f, U))
  BY <1>3 DEF ExistsBijection
<1> QED BY <1>4, FS_Bijection

LEMMA PassoNextSeries == IndInvSeries /\ [G!Next]_agenda => IndInvSeries'
<1> SUFFICES ASSUME IndInvSeries, [G!Next]_agenda PROVE IndInvSeries'
  OBVIOUS
<1>1. ASSUME NEW p \in Criacoes, G!Ocorrencia(p) \/ G!Responder(p)
      PROVE  IndInvSeries'
  <2>1. p \in G!Tarefas
    BY DEF G!Tarefas
  <2> QED BY <1>1, <2>1, PassoOcorrencia, PassoResponder
<1>4. ASSUME NEW dia \in Inicios, NEW origem \in {0} \cup (Citados \cap DOMAIN gEventos),
             G!CriarUm(dia, origem) \/ \E p \in Criacoes, r \in Regras : G!Criar(p, dia, origem, r)
      PROVE  IndInvSeries'
  <2>1. \A p \in Criacoes : p \in G!Tarefas
    BY DEF G!Tarefas
  <2> QED BY <1>4, <2>1, PassoCriarUm, PassoCriarSeries
<1>2. ASSUME NEW p \in Edicoes,
             \/ \E e \in DOMAIN gEventos, modo \in G!Modos, mudanca \in G!Mudancas : G!LerEvento(p, e, modo, mudanca)
             \/ G!MudarEste(p) \/ G!MudarSerie(p)
      PROVE  IndInvSeries'
  <2>1. p \in G!Tarefas
    BY DEF G!Tarefas
  <2> QED BY <1>2, <2>1, PassoLer, PassoMudarEste, PassoMudarSerie
<1>3. CASE UNCHANGED agenda
  BY <1>3, SoPedidos DEF agenda, IndInvSeries, G!TypeOK, PedidoInv
<1> QED BY <1>1, <1>2, <1>3, <1>4, PassoFalharSeries DEF G!Next

LEMMA SpecInvSeries == G!Spec => []IndInvSeries
<1>1. IndInvSeries /\ [G!Next]_(G!vars) => IndInvSeries'
  BY PassoNextSeries DEF agenda, G!vars
<1> QED BY InitInvSeries, <1>1, PTL DEF G!Spec

LEMMA InvPropsSeries == IndInvSeries => G!TypeOK /\ G!SerieConforme
<1> SUFFICES ASSUME IndInvSeries PROVE G!SerieConforme
  BY DEF IndInvSeries
<1> SUFFICES ASSUME NEW o \in DOMAIN gSeries
             PROVE  LET inicio == gSeries[o].inicio
                        r == gSeries[o].regra
                    IN /\ \A e \in G!Inseridas(o) : ~gEventos[e].avulso =>
                            /\ gEventos[e].origem = o
                            /\ G!DiaPretendido(gEventos[e].dia,
                                               G!Cardinality({f \in G!Inseridas(o) : f < e}) + 1, inicio, r)
                       /\ \A e \in G!Filhos(o) : gEventos[e].avulso \/ e \in G!Inseridas(o)
                       /\ gSeries[o].inteira =>
                            G!Cardinality(G!Inseridas(o)) = G!Cardinality(G!Pretendidas(inicio, r))
                       /\ \A p \in G!Tarefas : gPedidos[p].pc = "ocorrencias" /\ gPedidos[p].evento = o =>
                            G!Cardinality(G!Inseridas(o)) + Len(gPedidos[p].faltam)
                              = G!Cardinality(G!Pretendidas(inicio, r))
  BY DEF G!SerieConforme
<1> DEFINE inicio == gSeries[o].inicio
           r == gSeries[o].regra
<1>1. PICK n, g : EmDias(o, n, g) /\ Restantes(o, n)
  BY DEF IndInvSeries, SerieInv
<1>2. PICK t \in Nat : t = Len(Dias(o)) /\ t = Cardinality(G!Pretendidas(inicio, r))
  BY DiasTipo DEF IndInvSeries
<1>3. /\ n \in 0..t /\ n \in Nat /\ g \in [1..n -> 1..Len(gEventos)] /\ Len(gEventos) \in Nat
      /\ \A i, j \in 1..n : i < j => g[i] < g[j]
      /\ G!Inseridas(o) = Valores(g, 1..n)
      /\ \A k \in 1..n : gEventos[g[k]].avulso \/ (gEventos[g[k]].dia = Dias(o)[k] /\ gEventos[g[k]].origem = o)
  BY <1>1, <1>2, EventosTipo DEF EmDias, Valores, IndInvSeries
<1>4. \A i, j \in 1..n : g[i] = g[j] => i = j
  <2> SUFFICES ASSUME NEW i \in 1..n, NEW j \in 1..n, g[i] = g[j] PROVE i = j
    OBVIOUS
  <2>1. g[i] \in Int /\ ~(i < j) /\ ~(j < i)
    BY <1>3
  <2> QED BY <1>3, <2>1
<1>5. ASSUME NEW k \in 0..n
      PROVE  Cardinality(Valores(g, 1..k)) = k
  <2>1. 1 \in Int /\ k \in Int /\ \A i \in 1..k : i \in 1..n
    BY <1>3
  <2>2. IsFiniteSet(1..k) /\ Cardinality(1..k) = IF 1 > k THEN 0 ELSE k - 1 + 1
    BY <2>1, FS_Interval
  <2>3. Cardinality(1..k) = k
    BY <1>3, <2>2
  <2>4. \A i, j \in 1..k : g[i] = g[j] => i = j
    BY <1>4, <2>1
  <2> QED BY <2>2, <2>3, <2>4, Contagem
<1>6. ASSUME NEW e \in G!Inseridas(o), ~gEventos[e].avulso
      PROVE  /\ gEventos[e].origem = o
             /\ G!DiaPretendido(gEventos[e].dia, Cardinality({f \in G!Inseridas(o) : f < e}) + 1, inicio, r)
  <2>1. PICK k \in 1..n : e = g[k]
    BY <1>3 DEF Valores
  <2>2. gEventos[e].dia = Dias(o)[k] /\ gEventos[e].origem = o
    BY <1>3, <1>6, <2>1
  <2>3. {f \in G!Inseridas(o) : f < e} = Valores(g, 1..(k - 1))
    <3>1. \A i \in 1..n : g[i] \in Int /\ (g[i] < g[k] <=> i \in 1..(k - 1))
      <4> SUFFICES ASSUME NEW i \in 1..n PROVE g[i] \in Int /\ (g[i] < g[k] <=> i \in 1..(k - 1))
        OBVIOUS
      <4>1. g[i] \in Int /\ g[k] \in Int
        BY <1>3
      <4>2. CASE i < k
        BY <1>3, <4>1, <4>2
      <4>3. CASE i = k
        BY <1>3, <4>1, <4>3
      <4>4. CASE k < i
        <5>1. g[k] < g[i]
          BY <1>3, <4>4
        <5> QED BY <1>3, <4>1, <4>4, <5>1
      <4> QED BY <1>3, <4>2, <4>3, <4>4
    <3>2. \A i \in 1..(k - 1) : i \in 1..n
      BY <1>3
    <3> QED BY <1>3, <2>1, <3>1, <3>2 DEF Valores
  <2>4. k - 1 \in 0..n /\ (k - 1) + 1 = k /\ k \in 1..t
    BY <1>3
  <2>5. Cardinality({f \in G!Inseridas(o) : f < e}) + 1 = k
    BY <1>5, <2>3, <2>4
  <2>6. G!DiaPretendido(Dias(o)[k], k, inicio, r)
    BY <1>2, <2>4, DiasTipo DEF IndInvSeries
  <2> QED BY <2>2, <2>5, <2>6
<1>7. \A e \in G!Filhos(o) : gEventos[e].avulso \/ e \in G!Inseridas(o)
  BY EventosTipo DEF G!Filhos, G!Inseridas, IndInvSeries, Origens
<1>8. Cardinality(G!Inseridas(o)) = n
  BY <1>3, <1>5
<1>9. gSeries[o].inteira => n = t
  BY <1>1, <1>2 DEF Restantes
<1>10. \A p \in G!Tarefas : gPedidos[p].pc = "ocorrencias" /\ gPedidos[p].evento = o =>
         n + Len(gPedidos[p].faltam) = t
  <2> SUFFICES ASSUME NEW p \in G!Tarefas, Criando(p, o) PROVE n + Len(gPedidos[p].faltam) = t
    BY DEF Criando
  <2>1. Len(gPedidos[p].faltam) = t - n
    BY <1>1, <1>2 DEF Restantes
  <2> QED BY <1>2, <1>3, <2>1
<1> QED BY <1>2, <1>6, <1>7, <1>8, <1>9, <1>10, MesmaCardinalidade

(* For every number of events, recurrences and requests, whatever edits come between two   *)
(* insertions: the k-th occurrence a series inserted is in the series and on the k-th day  *)
(* that is meant, unless a body moved it; nothing else is in the series unless a body put  *)
(* it there; and all were inserted but for the rest of the request.  What the loop over    *)
(* the calendar computes for each rule is the assumption CalendarioConforme.               *)
THEOREM SerieConformeCorrect == G!Spec => []SerieConforme
<1>1. IndInvSeries => SerieConforme
  BY InvPropsSeries DEF SerieConforme
<1> QED BY SpecInvSeries, <1>1, PTL

-----------------------------------------------------------------------------
(* All the parts at once: a step of one of them leaves the others alone. *)

LEMMA Inicio ==
  InitEntorno =>
    /\ Init /\ C!Init /\ S!Init /\ R!Init /\ T!Init /\ K!Init /\ G!Init /\ V!Init /\ B!Init
BY DEF InitEntorno

LEMMA PassoDoEntorno ==
  ASSUME [NextEntorno]_Estado
  PROVE  /\ [Next]_vars /\ [C!Next]_convites /\ [S!Next]_sessoes /\ [R!Next]_reservas /\ [T!Next]_trocas
         /\ [K!Next]_tiktok /\ [G!Next]_agenda /\ [V!Next]_transmissao /\ [B!Next]_conhecimento
<1>1. CASE UNCHANGED Estado
  BY <1>1 DEF Estado
<1>2. CASE Mover("funil") /\ Next
  BY <1>2 DEF Mover
<1>3. CASE Mover("convites") /\ C!Next
  BY <1>3 DEF Mover
<1>4. CASE Mover("sessoes") /\ S!Next
  BY <1>4 DEF Mover
<1>5. CASE Mover("reservas") /\ R!Next
  BY <1>5 DEF Mover
<1>6. CASE Mover("trocas") /\ T!Next
  BY <1>6 DEF Mover
<1>7. CASE Mover("tiktok") /\ K!Next
  BY <1>7 DEF Mover
<1>8. CASE Mover("agenda") /\ G!Next
  BY <1>8 DEF Mover
<1>9. CASE Mover("transmissao") /\ V!Next
  BY <1>9 DEF Mover
<1>10. CASE Mover("conhecimento") /\ B!Next
  BY <1>10 DEF Mover
<1> QED BY <1>1, <1>2, <1>3, <1>4, <1>5, <1>6, <1>7, <1>8, <1>9, <1>10 DEF NextEntorno

(* A behaviour of the whole is a behaviour of every part: what is proved of a part holds  *)
(* beside the others.                                                                     *)
THEOREM PartesCorrect ==
  SpecEntorno =>
    /\ Spec /\ C!Spec /\ S!Spec /\ R!Spec /\ T!Spec /\ K!Spec /\ G!Spec /\ V!Spec /\ B!Spec
<1>1. [NextEntorno]_Estado =>
        /\ [Next]_vars /\ [C!Next]_(C!vars) /\ [S!Next]_(S!vars) /\ [R!Next]_(R!vars) /\ [T!Next]_(T!vars)
        /\ [K!Next]_(K!vars) /\ [G!Next]_(G!vars) /\ [V!Next]_(V!vars) /\ [B!Next]_(B!vars)
  BY PassoDoEntorno DEF convites, sessoes, reservas, trocas, tiktok, agenda, transmissao, conhecimento,
               C!vars, S!vars, R!vars, T!vars, K!vars, G!vars, V!vars, B!vars
<1> QED BY Inicio, <1>1, PTL DEF SpecEntorno, Spec, C!Spec, S!Spec, R!Spec, T!Spec, K!Spec, G!Spec, V!Spec, B!Spec

(* Hence every variable of every part keeps its type, *)
THEOREM TiposCorrect == SpecEntorno => []TiposDoEntorno
<1>1. IndInvFunil /\ IndInvConvites /\ IndInvSessoes /\ IndInvReservas /\ IndInvTrocas /\ IndInvTikTok /\ IndInvSeries
      /\ IndInvTransmissao /\ IndInvConhecimento => TiposDoEntorno
  BY DEF TiposDoEntorno, IndInvFunil, IndInvConvites, IndInvSessoes, IndInvReservas, IndInvTrocas, IndInvTikTok,
         IndInvSeries, IndInvTransmissao, IndInvConhecimento
<1> QED BY PartesCorrect, <1>1, Indutivo, SpecInvConvites, SpecInvSessoes, SpecInvReservas, SpecInvTrocas,
           SpecInvTikTok, SpecInvSeries, SpecInvTransmissao, SpecInvConhecimento, PTL

(* and the invariants of the parts hold of the whole, for every number of rows, requests  *)
(* and users.                                                                             *)
THEOREM EntornoCorrect ==
  SpecEntorno =>
    [](/\ ClienteDoLead /\ LeadUnicoPorEvento /\ ConvitesEmOrdem /\ SessoesEmOrdem /\ CabineSemConflito
       /\ UltimoConjunto /\ ContaDesligada /\ SerieConforme /\ EspectadorEmDia /\ OrdemInteira)
BY PartesCorrect, ClienteDoLeadCorrect, LeadUnicoCorrect, ConvitesCorrect, SessoesCorrect, ConflitoCorrect,
   UltimoConjuntoCorrect, ContaDesligadaCorrect, SerieConformeCorrect, EspectadorEmDiaCorrect, OrdemInteiraCorrect, PTL
=============================================================================
