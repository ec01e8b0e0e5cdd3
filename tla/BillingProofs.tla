---------------------------- MODULE BillingProofs ----------------------------
(***************************************************************************)
(* What Billing guarantees for any number of lives, clients, instances and *)
(* fortnights.                                                             *)
(*                                                                         *)
(* That no live is in two invoices depends on three things together: the   *)
(* lock makes one transaction of the open ones the only one (TravaUnica),  *)
(* the rows it read are in no invoice yet (LidasForaDosBoletos), and what  *)
(* is marked as billed stays so whatever is edited (MarcaCoerente).        *)
(*                                                                         *)
(* What a round has charged or billed is told from how it ended            *)
(* (DesfechosEmDia): an order belongs to a boleto, to an open transaction  *)
(* or to a round that was lost (CobrancaRegistrada), and a live in time    *)
(* waits for the transaction that has read it, or for nobody any more      *)
(* because the rounds of its day were lost (DaVez, Antigas).               *)
(***************************************************************************)
EXTENDS Billing, TLAPS

Aberta(i) == instancia[i].passo \in {"abriu", "faturando", "cobrando"}

(* The instance that holds the lock, and no other, has a transaction open. *)
TravaUnica == \A i \in Instancias : Aberta(i) <=> trava = i

(* A round is about a fortnight that is over, and a transaction starts empty. *)
RodadaCoerente ==
  \A i \in Instancias :
    /\ instancia[i].passo # "pronto" => quinzena > 1
    /\ instancia[i].passo = "cobrando" => instancia[i].cliente \in Clientes
    /\ instancia[i].passo \in {"espera", "abriu", "pronto"} =>
         instancia[i].lidas = {} /\ instancia[i].inseridos = {}

Tipo == TypeOK /\ TravaUnica /\ RodadaCoerente

(* The SELECT returns a live once, under the client it had, and only lives that exist. *)
LidasUnicas ==
  \A i \in Instancias : \A r1, r2 \in instancia[i].lidas : r1.id = r2.id => r1 = r2

LidasExistem == \A i \in Instancias : \A r \in instancia[i].lidas : lives[r.id].status # "ausente"

LidasForaDosBoletos ==
  \A i \in Instancias : \A r \in instancia[i].lidas : \A k \in Chaves : r.id \notin boletos[k].lives

MarcaCoerente ==
  \A k \in Chaves : \A l \in boletos[k].lives :
    lives[l].boleto = k \/ lives[l].status = "excluida"

Faturamento ==
  LidasUnicas /\ LidasExistem /\ LidasForaDosBoletos /\ MarcaCoerente /\ LiveEmUmBoleto

-----------------------------------------------------------------------------
LEMMA TipoInit == Init => Tipo
<1> SUFFICES ASSUME Init PROVE Tipo
  OBVIOUS
<1>1. 1 \in Quinzenas
  BY ConstantesAssumption DEF Quinzenas
<1>2. TypeOK
  BY <1>1 DEF Init, TypeOK, LiveRow, BoletoRow, InstanciaRow, Parada, Chaves, Cobrancas, Desfecho
<1>3. TravaUnica /\ RodadaCoerente
  BY ConstantesAssumption DEF Init, TravaUnica, RodadaCoerente, Aberta, Parada
<1> QED BY <1>2, <1>3 DEF Tipo

(* The row of an instance that a step of its round writes. *)
LEMMA LinhaTipo ==
  ASSUME NEW D, NEW f \in [D -> InstanciaRow], NEW i, NEW v, i \in D => v \in InstanciaRow
  PROVE  [f EXCEPT ![i] = v] \in [D -> InstanciaRow]
  OBVIOUS

LEMMA ParadaTipo ==
  ASSUME NEW p \in {"espera", "abriu", "faturando", "cobrando", "pronto"}
  PROVE  Parada(p) \in InstanciaRow
  BY DEF Parada, InstanciaRow

LEMMA ChaveTipo ==
  ASSUME TypeOK, quinzena > 1, NEW c \in Clientes
  PROVE  Chave(c) \in Chaves /\ quinzena - 1 \in Quinzenas
  BY ConstantesAssumption DEF TypeOK, Chave, Chaves, Quinzenas

LEMMA EncerraTipo ==
  ASSUME TypeOK, NEW i \in Instancias, NEW d \in Desfecho, Encerra(i, d)
  PROVE  desfechos' \in [Instancias \X Quinzenas -> Desfecho]
  BY DEF TypeOK, Encerra

(* An instance that leaves without the lock. *)
LEMMA TipoSair ==
  ASSUME Tipo, NEW i \in Instancias, instancia[i].passo = "espera", Vai(i, "pronto"), UNCHANGED <<trava, quinzena>>
  PROVE  instancia' \in [Instancias -> InstanciaRow] /\ TravaUnica' /\ RodadaCoerente'
<1>1. instancia' = [instancia EXCEPT ![i].passo = "pronto"]
  BY DEF Vai
<1>2. instancia' \in [Instancias -> InstanciaRow]
  BY <1>1, ZenonT(60) DEF Tipo, TypeOK, InstanciaRow
<1>3. TravaUnica'
  BY <1>1 DEF Tipo, TypeOK, TravaUnica, Aberta
<1>4. RodadaCoerente'
  BY <1>1 DEF Tipo, TypeOK, InstanciaRow, RodadaCoerente
<1> QED BY <1>2, <1>3, <1>4

LEMMA TipoDisparar ==
  ASSUME Tipo, NEW i \in Instancias, Disparar(i) PROVE Tipo'
<1>1. CASE i \notin presas /\ trava = NULL
  <2>1. trava' = i /\ instancia' = [instancia EXCEPT ![i].passo = "abriu"]
    BY <1>1 DEF Disparar, TentarTrava, Vai
  <2>2. TypeOK'
    BY <1>1, <2>1 DEF Tipo, TypeOK, Disparar, InstanciaRow
  <2>3. TravaUnica'
    <3>1. \A j \in Instancias : ~ Aberta(j)
      BY <1>1, ConstantesAssumption DEF Tipo, TravaUnica
    <3> QED BY <2>1, <3>1 DEF Tipo, TypeOK, TravaUnica, Aberta
  <2>4. RodadaCoerente'
    BY <2>1 DEF Tipo, TypeOK, InstanciaRow, RodadaCoerente, Disparar
  <2> QED BY <2>2, <2>3, <2>4 DEF Tipo
<1>2. CASE i \in presas \/ trava # NULL
  <2>1. Vai(i, "pronto") /\ UNCHANGED <<trava, quinzena>> /\ instancia[i].passo = "espera"
    BY <1>2 DEF Disparar, TentarTrava
  <2>2. instancia' \in [Instancias -> InstanciaRow] /\ TravaUnica' /\ RodadaCoerente'
    BY <2>1, TipoSair
  <2>3. desfechos' \in [Instancias \X Quinzenas -> Desfecho]
    BY <1>2, EncerraTipo DEF Disparar, Tipo, TypeOK, Desfecho
  <2> QED BY <2>1, <2>2, <2>3 DEF Tipo, TypeOK, Disparar
<1> QED BY <1>1, <1>2

(* A round that ends, by its COMMIT or by a ROLLBACK, empties its row and frees the lock. *)
LEMMA TipoParar ==
  ASSUME Tipo, NEW i \in Instancias, quinzena' = quinzena, LiberarTrava(i),
         instancia' = [instancia EXCEPT ![i] = Parada("pronto")]
  PROVE  /\ trava' \in Instancias \cup {NULL}
         /\ instancia' \in [Instancias -> InstanciaRow]
         /\ TravaUnica' /\ RodadaCoerente'
<1>1. trava' \in Instancias \cup {NULL}
  BY DEF Tipo, TypeOK, LiberarTrava
<1>2. instancia' \in [Instancias -> InstanciaRow]
  BY ParadaTipo DEF Tipo, TypeOK
<1>3. TravaUnica'
  <2>1. \A j \in Instancias : j # i => instancia'[j] = instancia[j]
    BY DEF Tipo, TypeOK
  <2>2. ~Aberta(i)' /\ trava' # i
    BY ConstantesAssumption DEF Tipo, TypeOK, Aberta, Parada, LiberarTrava
  <2>3. \A j \in Instancias : j # i => (trava' = j <=> trava = j)
    BY ConstantesAssumption DEF LiberarTrava
  <2> QED BY <2>1, <2>2, <2>3 DEF Tipo, TravaUnica, Aberta
<1>4. RodadaCoerente'
  BY DEF Tipo, TypeOK, RodadaCoerente, Parada
<1> QED BY <1>1, <1>2, <1>3, <1>4

(* A step of an open round that keeps it open. *)
LEMMA TipoSeguir ==
  ASSUME Tipo, NEW i \in Instancias, Aberta(i), trava' = trava, quinzena' = quinzena,
         NEW v \in InstanciaRow, v.passo \in {"faturando", "cobrando"},
         v.passo = "cobrando" => v.cliente \in Clientes,
         instancia' = [instancia EXCEPT ![i] = v]
  PROVE  /\ trava' \in Instancias \cup {NULL}
         /\ instancia' \in [Instancias -> InstanciaRow]
         /\ TravaUnica' /\ RodadaCoerente'
<1>1. trava' \in Instancias \cup {NULL}
  BY DEF Tipo, TypeOK
<1>2. instancia' \in [Instancias -> InstanciaRow]
  BY DEF Tipo, TypeOK
<1>3. TravaUnica'
  BY DEF Tipo, TypeOK, TravaUnica, Aberta
<1>4. RodadaCoerente'
  BY DEF Tipo, TypeOK, RodadaCoerente, Aberta
<1> QED BY <1>1, <1>2, <1>3, <1>4

LEMMA TipoLerLives ==
  ASSUME Tipo, NEW i \in Instancias, LerLives(i) PROVE Tipo'
<1> DEFINE lidas == {[id |-> l, cliente_id |-> lives[l].cliente_id, comissao |-> lives[l].comissao] :
                       l \in Faturaveis}
           donos == {r.cliente_id : r \in lidas} \cup (IF DiaUm THEN ComFixo ELSE {})
           v == [instancia[i] EXCEPT !.passo = "faturando", !.lidas = lidas, !.pendentes = donos]
<1>1. lidas \subseteq LinhaLida
  BY DEF Faturaveis, LinhaLida, Tipo, TypeOK, LiveRow
<1>2. {r.cliente_id : r \in lidas} \subseteq Clientes \cup {NULL}
  BY <1>1 DEF LinhaLida
<1>3. v \in InstanciaRow
  <2>1. donos \subseteq Clientes \cup {NULL}
    BY <1>2, ConstantesAssumption
  <2>2. instancia[i] \in InstanciaRow
    BY DEF Tipo, TypeOK
  <2> HIDE DEF lidas, donos
  <2> QED BY <1>1, <2>1, <2>2 DEF InstanciaRow
<1>4. instancia' = [instancia EXCEPT ![i] = v] /\ Aberta(i)
  BY DEF LerLives, Tipo, TypeOK, Aberta
<1>5. v.passo = "faturando"
  BY DEF Tipo, TypeOK, InstanciaRow
<1> HIDE DEF v
<1>6. /\ trava' \in Instancias \cup {NULL} /\ instancia' \in [Instancias -> InstanciaRow]
      /\ TravaUnica' /\ RodadaCoerente'
  BY <1>3, <1>4, <1>5, TipoSeguir DEF LerLives
<1> QED BY <1>6 DEF Tipo, TypeOK, LerLives

LEMMA TipoFaturar ==
  ASSUME Tipo, NEW i \in Instancias, FaturarCliente(i) PROVE Tipo'
<1>1. PICK c \in instancia[i].pendentes :
        \/ PularCliente(i, c) \/ InserirBoleto(i, c)
        \/ (Devido(i, c) /\ c = NULL /\ Desfazer(i) /\ UNCHANGED presas)
  BY DEF FaturarCliente
<1>2. instancia[i] \in InstanciaRow /\ Aberta(i) /\ c \in Clientes \cup {NULL}
  BY DEF FaturarCliente, Tipo, TypeOK, InstanciaRow, Aberta
<1>3. CASE PularCliente(i, c)
  <2> DEFINE v == [instancia[i] EXCEPT !.pendentes = @ \ {c}]
  <2>1. v \in InstanciaRow /\ v.passo = "faturando"
    BY <1>2 DEF InstanciaRow, FaturarCliente
  <2>2. instancia' = [instancia EXCEPT ![i] = v]
    BY <1>3 DEF PularCliente, Tipo, TypeOK
  <2> HIDE DEF v
  <2>3. /\ trava' \in Instancias \cup {NULL} /\ instancia' \in [Instancias -> InstanciaRow]
        /\ TravaUnica' /\ RodadaCoerente'
    BY <1>2, <1>3, <2>1, <2>2, TipoSeguir DEF PularCliente
  <2> QED BY <1>3, <2>3 DEF Tipo, TypeOK, PularCliente
<1>4. CASE InserirBoleto(i, c)
  <2> DEFINE v == [instancia[i] EXCEPT !.passo = "cobrando", !.cliente = c, !.pendentes = @ \ {c},
                                       !.inseridos = @ \cup {c}]
  <2>1. v \in InstanciaRow /\ v.passo = "cobrando" /\ v.cliente \in Clientes
    BY <1>2, <1>4 DEF InstanciaRow, InserirBoleto
  <2>2. instancia' = [instancia EXCEPT ![i] = v]
    BY <1>4 DEF InserirBoleto, Tipo, TypeOK
  <2> HIDE DEF v
  <2>3. /\ trava' \in Instancias \cup {NULL} /\ instancia' \in [Instancias -> InstanciaRow]
        /\ TravaUnica' /\ RodadaCoerente'
    BY <1>2, <1>4, <2>1, <2>2, TipoSeguir DEF InserirBoleto
  <2> QED BY <1>4, <2>3 DEF Tipo, TypeOK, InserirBoleto
<1>5. CASE Desfazer(i)
  <2>1. /\ trava' \in Instancias \cup {NULL} /\ instancia' \in [Instancias -> InstanciaRow]
        /\ TravaUnica' /\ RodadaCoerente'
    BY <1>5, TipoParar DEF Desfazer
  <2>2. desfechos' \in [Instancias \X Quinzenas -> Desfecho]
    BY <1>5, EncerraTipo DEF Desfazer, Tipo, Desfecho
  <2>3. UNCHANGED presas
    BY <1>2, <1>5 DEF Desfazer, FaturarCliente, PularCliente, InserirBoleto
  <2> QED BY <1>5, <2>1, <2>2, <2>3 DEF Tipo, TypeOK, Desfazer
<1> QED BY <1>1, <1>3, <1>4, <1>5

LEMMA TipoCobrar ==
  ASSUME Tipo, NEW i \in Instancias, Cobrar(i) PROVE Tipo'
<1> DEFINE v == [instancia[i] EXCEPT !.passo = "faturando", !.cliente = NULL]
<1>1. instancia[i] \in InstanciaRow /\ Aberta(i)
  BY DEF Cobrar, Tipo, TypeOK, Aberta
<1>2. v \in InstanciaRow /\ v.passo = "faturando"
  BY <1>1 DEF InstanciaRow
<1>3. instancia' = [instancia EXCEPT ![i] = v]
  BY DEF Cobrar, Tipo, TypeOK
<1> HIDE DEF v
<1>4. /\ trava' \in Instancias \cup {NULL} /\ instancia' \in [Instancias -> InstanciaRow]
      /\ TravaUnica' /\ RodadaCoerente'
  BY <1>1, <1>2, <1>3, TipoSeguir DEF Cobrar
<1>5. instancia[i].cliente \in Clientes /\ quinzena > 1
  BY DEF Cobrar, Tipo, RodadaCoerente
<1>6. quinzena - 1 \in Quinzenas
  BY <1>5, ChaveTipo DEF Tipo
<1>7. cobrancas' \subseteq Cobrancas
  BY <1>5, <1>6 DEF Cobrar, Tipo, TypeOK, Cobrancas
<1> QED BY <1>4, <1>7 DEF Tipo, TypeOK, Cobrar

(* What a COMMIT writes is keyed by the fortnight that is over. *)
LEMMA TipoConfirmar ==
  ASSUME Tipo, NEW i \in Instancias, Confirmar(i) PROVE Tipo'
<1> DEFINE dono(l) == CHOOSE c \in instancia[i].inseridos : l \in LivesDe(i, c)
           minhas == UNION {LivesDe(i, c) : c \in instancia[i].inseridos}
<1>1. instancia[i].inseridos \subseteq Clientes /\ quinzena > 1
  BY DEF Confirmar, Tipo, TypeOK, InstanciaRow, RodadaCoerente
<1>2. \A c : LivesDe(i, c) \subseteq Lives
  BY DEF LivesDe, Tipo, TypeOK, InstanciaRow, LinhaLida
<1>3. lives' \in [Lives -> LiveRow]
  <2>1. ASSUME NEW l \in minhas PROVE Chave(dono(l)) \in Chaves
    <3>1. \E c \in instancia[i].inseridos : l \in LivesDe(i, c)
      BY <2>1
    <3>2. dono(l) \in instancia[i].inseridos
      BY <3>1
    <3> QED BY <1>1, <3>2, ChaveTipo DEF Tipo
  <2>2. lives' = [l \in Lives |-> IF l \in minhas /\ lives[l].status = "encerrada"
                                 THEN [lives[l] EXCEPT !.boleto = Chave(dono(l))] ELSE lives[l]]
    BY DEF Confirmar
  <2>3. lives \in [Lives -> LiveRow]
    BY DEF Tipo, TypeOK
  <2> HIDE DEF minhas, dono
  <2>4. ASSUME NEW l \in Lives PROVE lives'[l] \in LiveRow
    <3>1. CASE l \in minhas /\ lives[l].status = "encerrada"
      BY <3>1, <2>1, <2>2, <2>3 DEF LiveRow
    <3>2. CASE ~ (l \in minhas /\ lives[l].status = "encerrada")
      BY <3>2, <2>2, <2>3
    <3> QED BY <3>1, <3>2
  <2> QED BY <2>2, <2>4
<1>4. boletos' \in [Chaves -> BoletoRow]
  <2>1. ASSUME NEW k \in Chaves PROVE boletos'[k] \in BoletoRow
    <3>1. LivesDe(i, k[1]) \subseteq Lives
      BY <1>2
    <3> QED BY <3>1 DEF Confirmar, Tipo, TypeOK, BoletoRow
  <2> QED BY <2>1 DEF Confirmar
<1>5. /\ trava' \in Instancias \cup {NULL} /\ instancia' \in [Instancias -> InstanciaRow]
      /\ TravaUnica' /\ RodadaCoerente'
  BY TipoParar DEF Confirmar
<1>6. desfechos' \in [Instancias \X Quinzenas -> Desfecho]
  BY EncerraTipo DEF Confirmar, Tipo, Desfecho
<1> QED BY <1>3, <1>4, <1>5, <1>6 DEF Confirmar, Tipo, TypeOK

LEMMA TipoFalha ==
  ASSUME Tipo, NEW i \in Instancias, Falha(i) PROVE Tipo'
<1>1. CASE Desfazer(i) /\ presas' \subseteq Instancias
  <2>1. /\ trava' \in Instancias \cup {NULL} /\ instancia' \in [Instancias -> InstanciaRow]
        /\ TravaUnica' /\ RodadaCoerente'
    BY <1>1, TipoParar DEF Desfazer
  <2>2. desfechos' \in [Instancias \X Quinzenas -> Desfecho]
    BY <1>1, EncerraTipo DEF Desfazer, Tipo, Desfecho
  <2> QED BY <1>1, <2>1, <2>2 DEF Tipo, TypeOK, Desfazer
<1>2. CASE Prender(i) /\ instancia[i].passo = "espera"
  <2>1. instancia' \in [Instancias -> InstanciaRow] /\ TravaUnica' /\ RodadaCoerente'
    BY <1>2, TipoSair DEF Prender
  <2>2. desfechos' \in [Instancias \X Quinzenas -> Desfecho]
    BY <1>2, EncerraTipo DEF Prender, Tipo, Desfecho
  <2> QED BY <1>2, <2>1, <2>2 DEF Prender, Tipo, TypeOK
<1>3. CASE (Prender(i) /\ instancia[i].passo = "pronto") \/ Reiniciar(i)
  BY <1>3 DEF Prender, Reiniciar, Tipo, TypeOK, TravaUnica, Aberta, RodadaCoerente
<1>4. Falhar(i) \/ Cair(i) => Desfazer(i) /\ presas' \subseteq Instancias
  BY DEF Falhar, Cair, Tipo, TypeOK
<1> QED BY <1>1, <1>2, <1>3, <1>4 DEF Falha, Prender

(* The handlers of lives write one row of lives and nothing else. *)
LEMMA TipoLive ==
  ASSUME Tipo, NEW l \in Lives, LiveStep(l) PROVE Tipo'
<1>1. lives' \in [Lives -> LiveRow]
  <2>1. CASE LancarLive(l)
    <3>1. PICK c \in Clientes \cup {NULL}, q \in 1..quinzena, v \in BOOLEAN :
            lives' = [lives EXCEPT ![l] = [lives[l] EXCEPT !.status = "encerrada", !.cliente_id = c,
                                                          !.quinzena = q, !.comissao = v,
                                                          !.atrasada = q < quinzena]]
      BY <2>1 DEF LancarLive
    <3>2. q \in Quinzenas /\ lives[l] \in LiveRow
      BY ConstantesAssumption DEF Tipo, TypeOK, Quinzenas
    <3> DEFINE a == q < quinzena
    <3>3. a \in BOOLEAN
      OBVIOUS
    <3> HIDE DEF a
    <3>4. [lives[l] EXCEPT !.status = "encerrada", !.cliente_id = c,
                           !.quinzena = q, !.comissao = v, !.atrasada = a] \in LiveRow
      BY <3>2, <3>3 DEF LiveRow
    <3> QED BY <3>1, <3>4 DEF Tipo, TypeOK, a
  <2>2. CASE EditarLive(l)
    <3>1. PICK c \in Clientes \cup {lives[l].cliente_id}, q \in 1..quinzena, v \in BOOLEAN :
            lives' = [lives EXCEPT ![l] = [lives[l] EXCEPT !.cliente_id = c, !.quinzena = q,
                                                          !.comissao = v, !.atrasada = q < quinzena]]
      BY <2>2 DEF EditarLive
    <3>2. q \in Quinzenas /\ lives[l] \in LiveRow
      BY ConstantesAssumption DEF Tipo, TypeOK, Quinzenas
    <3>3. c \in Clientes \cup {NULL}
      BY <3>2 DEF LiveRow
    <3> DEFINE a == q < quinzena
    <3>4. a \in BOOLEAN
      OBVIOUS
    <3> HIDE DEF a
    <3>5. [lives[l] EXCEPT !.cliente_id = c, !.quinzena = q, !.comissao = v, !.atrasada = a] \in LiveRow
      BY <3>2, <3>3, <3>4 DEF LiveRow
    <3> QED BY <3>1, <3>5 DEF Tipo, TypeOK, a
  <2>3. CASE ExcluirLive(l)
    BY <2>3, ZenonT(60) DEF ExcluirLive, Tipo, TypeOK, LiveRow
  <2> QED BY <2>1, <2>2, <2>3 DEF LiveStep
<1>2. UNCHANGED <<boletos, trava, instancia, quinzena, cobrancas, desfechos, presas>>
  BY DEF LiveStep, LancarLive, EditarLive, ExcluirLive
<1> QED BY <1>1, <1>2 DEF Tipo, TypeOK, TravaUnica, Aberta, RodadaCoerente

LEMMA TipoQuinzena == ASSUME Tipo, PassarQuinzena PROVE Tipo'
<1>1. quinzena' \in Quinzenas /\ quinzena' > 1
  BY ConstantesAssumption DEF PassarQuinzena, Tipo, TypeOK, Quinzenas
<1>2. instancia' \in [Instancias -> InstanciaRow]
  BY ParadaTipo DEF PassarQuinzena
<1>3. TravaUnica'
  BY DEF PassarQuinzena, Tipo, TypeOK, TravaUnica, Aberta, Parada
<1>4. RodadaCoerente'
  BY <1>1 DEF PassarQuinzena, RodadaCoerente, Parada
<1> QED BY <1>1, <1>2, <1>3, <1>4 DEF PassarQuinzena, Tipo, TypeOK

LEMMA TipoNext == Tipo /\ [Next]_vars => Tipo'
<1> SUFFICES ASSUME Tipo, [Next]_vars PROVE Tipo'
  OBVIOUS
<1>1. ASSUME NEW i \in Instancias, Rodada(i) \/ Falha(i) PROVE Tipo'
  BY <1>1, TipoDisparar, TipoLerLives, TipoFaturar, TipoCobrar, TipoConfirmar, TipoFalha DEF Rodada
<1>2. ASSUME NEW l \in Lives, LiveStep(l) PROVE Tipo'
  BY <1>2, TipoLive
<1>3. CASE UNCHANGED vars
  BY <1>3 DEF vars, Tipo, TypeOK, TravaUnica, Aberta, RodadaCoerente
<1> QED BY <1>1, <1>2, <1>3, TipoQuinzena DEF Next

(* Every reachable state of the billing is well typed: a round never writes a boleto or *)
(* an order for a fortnight or a client that does not exist.                            *)
THEOREM TypeCorrect == Spec => []TypeOK
<1>1. Spec => []Tipo
  BY TipoInit, TipoNext, PTL DEF Spec
<1>2. Tipo => TypeOK
  BY DEF Tipo
<1> QED BY <1>1, <1>2, PTL

-----------------------------------------------------------------------------
(* No live in two invoices. *)

(* What the invoices are made of and what the rounds have read stay; a live keeps its   *)
(* mark or is deleted, and does not come back.                                          *)
Preserva ==
  /\ \A k \in Chaves : boletos'[k].lives = boletos[k].lives
  /\ \A i \in Instancias : instancia'[i].lidas \in {instancia[i].lidas, {}}
  /\ \A l \in Lives :
       /\ lives[l].status # "ausente" => lives'[l].status # "ausente"
       /\ \/ lives'[l].status = "excluida"
          \/ lives'[l].boleto = lives[l].boleto /\ lives[l].status # "excluida"
          \/ lives'[l] = lives[l]

LEMMA PreservaFaturamento == ASSUME Tipo, Faturamento, Preserva PROVE Faturamento'
<1>1. \A i \in Instancias : instancia[i].lidas \subseteq LinhaLida
  BY DEF Tipo, TypeOK, InstanciaRow
<1>2. LidasUnicas'
  BY DEF Faturamento, Preserva, LidasUnicas
<1>3. LidasExistem'
  BY <1>1 DEF Faturamento, Preserva, LidasExistem, LinhaLida
<1>4. LidasForaDosBoletos'
  BY DEF Faturamento, Preserva, LidasForaDosBoletos
<1>5. MarcaCoerente'
  <2>1. \A k \in Chaves : boletos[k].lives \subseteq Lives
    BY DEF Tipo, TypeOK, BoletoRow
  <2> QED BY <2>1 DEF Faturamento, Preserva, MarcaCoerente
<1>6. LiveEmUmBoleto'
  BY DEF Faturamento, Preserva, LiveEmUmBoleto
<1> QED BY <1>2, <1>3, <1>4, <1>5, <1>6 DEF Faturamento

(* Handlers of lives, payments, failures and the clock. *)
LEMMA PreservaLive == ASSUME Tipo, NEW l \in Lives, LiveStep(l) PROVE Preserva
<1>1. CASE LancarLive(l)
  <2>1. PICK c \in Clientes \cup {NULL}, q \in 1..quinzena, v \in BOOLEAN :
          lives' = [lives EXCEPT ![l] = [lives[l] EXCEPT !.status = "encerrada", !.cliente_id = c,
                                                        !.quinzena = q, !.comissao = v,
                                                        !.atrasada = q < quinzena]]
    BY <1>1 DEF LancarLive
  <2>2. lives'[l] = [lives[l] EXCEPT !.status = "encerrada", !.cliente_id = c, !.quinzena = q,
                                     !.comissao = v, !.atrasada = q < quinzena] /\ lives[l] \in LiveRow
    BY <2>1 DEF Tipo, TypeOK
  <2>3. lives'[l].status = "encerrada" /\ lives'[l].boleto = lives[l].boleto
    BY <2>2 DEF LiveRow
  <2>4. \A m \in Lives : m # l => lives'[m] = lives[m]
    BY <2>1 DEF Tipo, TypeOK
  <2> QED BY <1>1, <2>3, <2>4 DEF LancarLive, Preserva
<1>2. CASE EditarLive(l)
  <2>1. PICK c \in Clientes \cup {lives[l].cliente_id}, q \in 1..quinzena, v \in BOOLEAN :
          lives' = [lives EXCEPT ![l] = [lives[l] EXCEPT !.cliente_id = c, !.quinzena = q,
                                                        !.comissao = v, !.atrasada = q < quinzena]]
    BY <1>2 DEF EditarLive
  <2>2. lives'[l] = [lives[l] EXCEPT !.cliente_id = c, !.quinzena = q, !.comissao = v,
                                     !.atrasada = q < quinzena]
          /\ lives[l] \in LiveRow
    BY <2>1 DEF Tipo, TypeOK
  <2>3. lives'[l].status = "encerrada" /\ lives'[l].boleto = lives[l].boleto
    BY <1>2, <2>2 DEF LiveRow, EditarLive
  <2>4. \A m \in Lives : m # l => lives'[m] = lives[m]
    BY <2>1 DEF Tipo, TypeOK
  <2> QED BY <1>2, <2>3, <2>4 DEF EditarLive, Preserva
<1>3. CASE ExcluirLive(l)
  BY <1>3 DEF ExcluirLive, Preserva, Tipo, TypeOK, LiveRow
<1> QED BY <1>1, <1>2, <1>3 DEF LiveStep

LEMMA PreservaParar == ASSUME Tipo, NEW i \in Instancias, Desfazer(i) PROVE Preserva
  BY DEF Desfazer, Preserva, Tipo, TypeOK, Parada

LEMMA PreservaFalha == ASSUME Tipo, NEW i \in Instancias, Falha(i) PROVE Preserva
<1>1. CASE Falhar(i) \/ Cair(i)
  BY <1>1, PreservaParar DEF Falhar, Cair
<1>2. CASE Vai(i, "pronto") /\ UNCHANGED <<lives, boletos>>
  BY <1>2 DEF Vai, Preserva, Tipo, TypeOK, InstanciaRow
<1>3. CASE UNCHANGED <<lives, boletos, instancia>>
  BY <1>3 DEF Preserva
<1> QED BY <1>1, <1>2, <1>3 DEF Falha, Prender, Reiniciar

LEMMA PreservaQuinzena == ASSUME Tipo, PassarQuinzena PROVE Preserva
  BY DEF PassarQuinzena, Preserva, Parada

LEMMA PreservaRodada ==
  ASSUME Tipo, NEW i \in Instancias, Disparar(i) \/ FaturarCliente(i) \/ Cobrar(i)
  PROVE  Preserva
<1>1. CASE Disparar(i)
  <2>1. /\ \E p \in {"abriu", "pronto"} : instancia' = [instancia EXCEPT ![i].passo = p]
        /\ UNCHANGED <<lives, boletos>>
    BY <1>1 DEF Disparar, TentarTrava, Vai
  <2> QED BY <2>1 DEF Preserva, Tipo, TypeOK, InstanciaRow
<1>2. CASE FaturarCliente(i)
  <2>1. PICK c \in instancia[i].pendentes :
          \/ PularCliente(i, c) \/ InserirBoleto(i, c)
          \/ (Devido(i, c) /\ c = NULL /\ Desfazer(i) /\ UNCHANGED presas)
    BY <1>2 DEF FaturarCliente
  <2>2. CASE PularCliente(i, c)
    BY <2>2 DEF PularCliente, Preserva, Tipo, TypeOK, InstanciaRow
  <2>3. CASE InserirBoleto(i, c)
    BY <2>3 DEF InserirBoleto, Preserva, Tipo, TypeOK, InstanciaRow
  <2>4. CASE Desfazer(i)
    BY <2>4, PreservaParar
  <2> QED BY <2>1, <2>2, <2>3, <2>4
<1>3. CASE Cobrar(i)
  BY <1>3 DEF Cobrar, Preserva, Tipo, TypeOK, InstanciaRow
<1> QED BY <1>1, <1>2, <1>3

(* The SELECT keeps out what is in an invoice. *)
LEMMA FaturamentoLer ==
  ASSUME Tipo, Faturamento, NEW i \in Instancias, LerLives(i) PROVE Faturamento'
<1> DEFINE lidas == {[id |-> l, cliente_id |-> lives[l].cliente_id, comissao |-> lives[l].comissao] :
                       l \in Faturaveis}
<1>1. instancia'[i].lidas = lidas /\ \A j \in Instancias : j # i => instancia'[j] = instancia[j]
  BY DEF LerLives, Tipo, TypeOK, InstanciaRow
<1>2. lives' = lives /\ boletos' = boletos
  BY DEF LerLives
<1>3. \A r1, r2 \in lidas : r1.id = r2.id => r1 = r2
  OBVIOUS
<1>4. \A r \in lidas : r.id \in Faturaveis
  OBVIOUS
<1>5. \A l \in Faturaveis : lives[l].status = "encerrada" /\ \A k \in Chaves : l \notin boletos[k].lives
  BY ConstantesAssumption DEF Faturaveis, Faturamento, MarcaCoerente, Chaves, Quinzenas
<1> HIDE DEF lidas
<1>6. LidasUnicas'
  BY <1>1, <1>3 DEF Faturamento, LidasUnicas
<1>7. LidasExistem'
  BY <1>1, <1>2, <1>4, <1>5 DEF Faturamento, LidasExistem
<1>8. LidasForaDosBoletos'
  BY <1>1, <1>2, <1>4, <1>5 DEF Faturamento, LidasForaDosBoletos
<1>9. MarcaCoerente' /\ LiveEmUmBoleto'
  BY <1>2 DEF Faturamento, MarcaCoerente, LiveEmUmBoleto
<1> QED BY <1>6, <1>7, <1>8, <1>9 DEF Faturamento

(* The COMMIT puts rows no invoice has into invoices of different clients. *)
LEMMA FaturamentoConfirmar ==
  ASSUME Tipo, Faturamento, NEW i \in Instancias, Confirmar(i) PROVE Faturamento'
<1> DEFINE dono(l) == CHOOSE c \in instancia[i].inseridos : l \in LivesDe(i, c)
           minhas == UNION {LivesDe(i, c) : c \in instancia[i].inseridos}
           chaves == {Chave(c) : c \in instancia[i].inseridos}
<1>1. lives' = [l \in Lives |-> IF l \in minhas /\ lives[l].status = "encerrada"
                               THEN [lives[l] EXCEPT !.boleto = Chave(dono(l))] ELSE lives[l]]
  BY DEF Confirmar
<1>2. /\ \A k \in Chaves : k \in chaves => boletos'[k].lives = LivesDe(i, k[1])
      /\ \A k \in Chaves : k \notin chaves => boletos'[k] = boletos[k]
  BY DEF Confirmar
<1>3. \A j \in Instancias : instancia'[j].lidas = {}
  <2>1. \A j \in Instancias : j # i => instancia[j].lidas = {}
    <3>1. Aberta(i)
      BY DEF Confirmar, Aberta
    <3>2. \A j \in Instancias : j # i => ~ Aberta(j)
      BY <3>1 DEF Tipo, TravaUnica
    <3> QED BY <3>2 DEF Tipo, TypeOK, InstanciaRow, RodadaCoerente, Aberta
  <2> QED BY <2>1 DEF Confirmar, Tipo, TypeOK, Parada
<1>4. \A c1, c2 : \A l \in LivesDe(i, c1) \cap LivesDe(i, c2) : c1 = c2
  BY DEF LivesDe, Faturamento, LidasUnicas
<1>5. \A c : \A l \in LivesDe(i, c) :
        /\ l \in Lives /\ lives[l].status # "ausente"
        /\ \A k \in Chaves : l \notin boletos[k].lives
  BY DEF LivesDe, Faturamento, LidasExistem, LidasForaDosBoletos, Tipo, TypeOK, InstanciaRow, LinhaLida
<1>6. \A k \in chaves : k[1] \in instancia[i].inseridos /\ k = Chave(k[1])
  BY DEF Chave
<1>7. \A l \in minhas : \E c \in instancia[i].inseridos : l \in LivesDe(i, c)
  OBVIOUS
<1>8. MarcaCoerente'
  <2>1. ASSUME NEW k \in Chaves, k \in chaves, NEW l \in LivesDe(i, k[1])
        PROVE  lives'[l].boleto = k \/ lives'[l].status = "excluida"
    <3>1. l \in minhas /\ l \in Lives /\ lives[l] \in LiveRow
      BY <1>5, <1>6, <2>1 DEF Tipo, TypeOK
    <3>2. dono(l) = k[1]
      <4>1. dono(l) \in instancia[i].inseridos /\ l \in LivesDe(i, dono(l))
        BY <1>6, <2>1
      <4> QED BY <1>4, <2>1, <4>1
    <3> HIDE DEF minhas, dono, chaves
    <3>3. CASE lives[l].status = "encerrada"
      <4>1. lives'[l] = [lives[l] EXCEPT !.boleto = Chave(dono(l))]
        BY <1>1, <3>1, <3>3
      <4> QED BY <1>6, <2>1, <3>1, <3>2, <4>1 DEF LiveRow
    <3>4. CASE lives[l].status # "encerrada"
      <4>1. lives'[l] = lives[l]
        BY <1>1, <3>1, <3>4
      <4> QED BY <1>5, <3>1, <3>4, <4>1 DEF LiveRow
    <3> QED BY <3>3, <3>4
  <2>2. ASSUME NEW k \in Chaves, k \notin chaves, NEW l \in boletos[k].lives
        PROVE  lives'[l].boleto = k \/ lives'[l].status = "excluida"
    <3>1. l \notin minhas
      BY <1>5, <1>7
    <3>2. l \in Lives
      BY DEF Tipo, TypeOK, BoletoRow
    <3> HIDE DEF minhas, dono
    <3>3. lives'[l] = lives[l]
      BY <1>1, <3>1, <3>2
    <3> QED BY <3>3 DEF Faturamento, MarcaCoerente
  <2> HIDE DEF chaves
  <2> QED BY <1>2, <2>1, <2>2 DEF MarcaCoerente
<1>9. LiveEmUmBoleto'
  <2> SUFFICES ASSUME NEW k1 \in Chaves, NEW k2 \in Chaves, k1 # k2
               PROVE  boletos'[k1].lives \cap boletos'[k2].lives = {}
    BY DEF LiveEmUmBoleto
  <2> HIDE DEF chaves, minhas
  <2>1. CASE k1 \in chaves /\ k2 \in chaves
    BY <1>2, <1>4, <1>6, <2>1
  <2>2. CASE k1 \in chaves /\ k2 \notin chaves
    BY <1>2, <1>5, <2>2
  <2>3. CASE k1 \notin chaves /\ k2 \in chaves
    BY <1>2, <1>5, <2>3
  <2>4. CASE k1 \notin chaves /\ k2 \notin chaves
    BY <1>2, <2>4 DEF Faturamento, LiveEmUmBoleto
  <2> QED BY <2>1, <2>2, <2>3, <2>4
<1>10. LidasUnicas' /\ LidasExistem' /\ LidasForaDosBoletos'
  BY <1>3 DEF LidasUnicas, LidasExistem, LidasForaDosBoletos
<1> QED BY <1>8, <1>9, <1>10 DEF Faturamento

LEMMA FaturamentoInit == Init => Faturamento
  BY DEF Init, Faturamento, LidasUnicas, LidasExistem, LidasForaDosBoletos, MarcaCoerente,
         LiveEmUmBoleto, Parada

LEMMA FaturamentoNext == Tipo /\ Faturamento /\ [Next]_vars => Faturamento'
<1> SUFFICES ASSUME Tipo, Faturamento, [Next]_vars PROVE Faturamento'
  OBVIOUS
<1>1. ASSUME NEW i \in Instancias, Rodada(i) PROVE Faturamento'
  BY <1>1, PreservaRodada, PreservaFaturamento, FaturamentoLer, FaturamentoConfirmar DEF Rodada
<1>2. ASSUME NEW i \in Instancias, Falha(i) PROVE Faturamento'
  BY <1>2, PreservaFalha, PreservaFaturamento
<1>3. ASSUME NEW l \in Lives, LiveStep(l) PROVE Faturamento'
  BY <1>3, PreservaLive, PreservaFaturamento
<1>4. CASE UNCHANGED vars
  BY <1>4 DEF vars, Faturamento, LidasUnicas, LidasExistem, LidasForaDosBoletos, MarcaCoerente,
              LiveEmUmBoleto
<1> QED BY <1>1, <1>2, <1>3, <1>4, PreservaQuinzena, PreservaFaturamento DEF Next

(* Whatever is edited, deleted, entered late or rolled back, and however many instances *)
(* fire, no live is a part of two invoices.                                             *)
THEOREM LiveEmUmBoletoCorrect == Spec => []LiveEmUmBoleto
<1>1. Spec => [](Tipo /\ Faturamento)
  BY TipoInit, TipoNext, FaturamentoInit, FaturamentoNext, PTL DEF Spec
<1>2. Faturamento => LiveEmUmBoleto
  BY DEF Faturamento
<1> QED BY <1>1, <1>2, PTL

-----------------------------------------------------------------------------
(* How the rounds end, for the two histories below. *)

(* A round that has not ended has no end recorded, nor has any of a day to come. *)
DesfechosEmDia ==
  \A i \in Instancias :
    /\ instancia[i].passo # "pronto" => desfechos[<<i, quinzena - 1>>] = "nenhum"
    /\ \A q \in Quinzenas : q >= quinzena => desfechos[<<i, q>>] = "nenhum"

(* The round of an instance ends; nobody else moves. *)
Sai(i, d) ==
  /\ Encerra(i, d) /\ quinzena' = quinzena
  /\ instancia[i].passo # "pronto" /\ instancia'[i].passo = "pronto"
  /\ \A j \in Instancias \ {i} : instancia'[j] = instancia[j]

(* A round ends, or is skipped, without having written anything. *)
Perde(i) ==
  /\ Sai(i, "perdida") /\ UNCHANGED <<lives, boletos, cobrancas>>
  /\ instancia'[i].inseridos = {}
  /\ trava' = IF trava = i THEN NULL ELSE trava

(* No round ends. *)
Anda ==
  /\ UNCHANGED <<quinzena, desfechos>>
  /\ \A i \in Instancias : instancia'[i].passo # "pronto" => instancia[i].passo # "pronto"

LEMMA Encerrado ==
  ASSUME Tipo, NEW i \in Instancias, NEW d \in Desfecho, Encerra(i, d), quinzena > 1
  PROVE  /\ desfechos'[<<i, quinzena - 1>>] = d
         /\ \A j \in Instancias, q \in Quinzenas :
              ~(j = i /\ q = quinzena - 1) => desfechos'[<<j, q>>] = desfechos[<<j, q>>]
<1>1. quinzena - 1 \in Quinzenas
  BY ConstantesAssumption DEF Tipo, TypeOK, Quinzenas
<1> QED BY <1>1 DEF Encerra, Tipo, TypeOK

LEMMA PerdeDesfazer == ASSUME Tipo, NEW i \in Instancias, Desfazer(i), instancia[i].passo # "pronto" PROVE Perde(i)
  BY DEF Desfazer, Perde, Sai, LiberarTrava, Tipo, TypeOK, Parada

(* Disparar and Prender give a round up only where it has not begun. *)
LEMMA PerdeEspera ==
  ASSUME Tipo, NEW i \in Instancias, instancia[i].passo = "espera", Vai(i, "pronto"), Encerra(i, "perdida"),
         UNCHANGED <<lives, boletos, trava, quinzena, cobrancas>>
  PROVE  Perde(i)
<1>1. instancia' = [instancia EXCEPT ![i].passo = "pronto"]
  BY DEF Vai
<1>2. trava # i /\ instancia[i].inseridos = {}
  BY DEF Tipo, TravaUnica, Aberta, RodadaCoerente
<1> QED BY <1>1, <1>2 DEF Perde, Sai, Tipo, TypeOK, RodadaCoerente, InstanciaRow

LEMMA DesfechosSai ==
  ASSUME Tipo, DesfechosEmDia, NEW i \in Instancias, NEW d \in Desfecho, Sai(i, d)
  PROVE  DesfechosEmDia'
<1>1. quinzena > 1 /\ quinzena \in Nat
  BY ConstantesAssumption DEF Sai, Tipo, TypeOK, RodadaCoerente, Quinzenas
<1>2. \A j \in Instancias, q \in Quinzenas :
        ~(j = i /\ q = quinzena - 1) => desfechos'[<<j, q>>] = desfechos[<<j, q>>]
  BY <1>1, Encerrado DEF Sai
<1>3. quinzena - 1 \in Quinzenas /\ \A q \in Quinzenas : q >= quinzena => q # quinzena - 1
  BY <1>1, ConstantesAssumption DEF Tipo, TypeOK, Quinzenas
<1> QED BY <1>2, <1>3 DEF Sai, DesfechosEmDia

LEMMA DesfechosPasso ==
  ASSUME DesfechosEmDia, Anda PROVE DesfechosEmDia'
  BY DEF DesfechosEmDia, Anda

LEMMA DesfechosQuinzena ==
  ASSUME Tipo, DesfechosEmDia, PassarQuinzena PROVE DesfechosEmDia'
<1>1. quinzena \in Quinzenas /\ quinzena' = quinzena + 1 /\ quinzena \in Nat
  BY ConstantesAssumption DEF PassarQuinzena, Tipo, TypeOK, Quinzenas
<1>2. quinzena' - 1 = quinzena /\ \A q \in Quinzenas : q >= quinzena' => q >= quinzena
  BY <1>1 DEF Quinzenas
<1>3. \A i \in Instancias, q \in Quinzenas : q >= quinzena => desfechos'[<<i, q>>] = "nenhum"
  BY DEF PassarQuinzena, DesfechosEmDia
<1>4. \A i \in Instancias : desfechos'[<<i, quinzena' - 1>>] = "nenhum"
  <2> HIDE DEF DesfechosEmDia
  <2>1. quinzena >= quinzena
    BY <1>1
  <2> QED BY <1>1, <1>2, <1>3, <2>1
<1>5. \A i \in Instancias, q \in Quinzenas : q >= quinzena' => desfechos'[<<i, q>>] = "nenhum"
  BY <1>2, <1>3
<1> QED BY <1>4, <1>5 DEF DesfechosEmDia

(* Every step of an instance is of one of these kinds. *)
LEMMA PassosDaRodada ==
  ASSUME Tipo, NEW i \in Instancias, Rodada(i) \/ Falha(i)
  PROVE  Perde(i) \/ Confirmar(i) \/ Anda
<1>1. CASE Disparar(i)
  <2>1. CASE i \in presas
    BY <1>1, <2>1, PerdeEspera DEF Disparar
  <2>2. CASE i \notin presas
    <3>1. \E p \in {"abriu", "pronto"} : instancia' = [instancia EXCEPT ![i].passo = p]
      BY <1>1, <2>2 DEF Disparar, TentarTrava, Vai
    <3> QED BY <1>1, <2>2, <3>1 DEF Disparar, Anda, Tipo, TypeOK, InstanciaRow
  <2> QED BY <2>1, <2>2
<1>2. CASE LerLives(i) \/ Cobrar(i)
  BY <1>2 DEF LerLives, Cobrar, Anda, Tipo, TypeOK, InstanciaRow
<1>3. CASE FaturarCliente(i)
  <2>1. PICK c \in instancia[i].pendentes :
          PularCliente(i, c) \/ InserirBoleto(i, c) \/ Desfazer(i)
    BY <1>3 DEF FaturarCliente
  <2>2. instancia[i].passo = "faturando"
    BY <1>3 DEF FaturarCliente
  <2>3. CASE PularCliente(i, c) \/ InserirBoleto(i, c)
    BY <2>2, <2>3 DEF PularCliente, InserirBoleto, Anda, Tipo, TypeOK, InstanciaRow
  <2> QED BY <2>1, <2>2, <2>3, PerdeDesfazer
<1>4. CASE Prender(i)
  <2>1. CASE instancia[i].passo = "espera"
    BY <1>4, <2>1, PerdeEspera DEF Prender
  <2>2. CASE instancia[i].passo # "espera"
    BY <1>4, <2>2 DEF Prender, Anda
  <2> QED BY <2>1, <2>2
<1>5. CASE Falhar(i) \/ Cair(i)
  BY <1>5, PerdeDesfazer DEF Falhar, Cair
<1>6. CASE Reiniciar(i)
  BY <1>6 DEF Reiniciar, Anda
<1> QED BY <1>1, <1>2, <1>3, <1>4, <1>5, <1>6 DEF Rodada, Falha

LEMMA ConfirmarSai == ASSUME Tipo, NEW i \in Instancias, Confirmar(i) PROVE Sai(i, "gravada")
  BY DEF Confirmar, Sai, Tipo, TypeOK, Parada

LEMMA LiveAnda == ASSUME NEW l \in Lives, LiveStep(l) PROVE Anda
  BY DEF LiveStep, LancarLive, EditarLive, ExcluirLive, Anda

LEMMA DesfechosNext == Tipo /\ DesfechosEmDia /\ [Next]_vars => DesfechosEmDia'
<1> SUFFICES ASSUME Tipo, DesfechosEmDia, [Next]_vars PROVE DesfechosEmDia'
  OBVIOUS
<1>1. ASSUME NEW i \in Instancias, Rodada(i) \/ Falha(i) PROVE DesfechosEmDia'
  <2>1. CASE Perde(i)
    BY <2>1, DesfechosSai DEF Perde, Desfecho
  <2>2. CASE Confirmar(i)
    BY <2>2, ConfirmarSai, DesfechosSai DEF Desfecho
  <2> QED BY <1>1, <2>1, <2>2, PassosDaRodada, DesfechosPasso
<1>2. CASE UNCHANGED vars
  BY <1>2 DEF vars, DesfechosEmDia
<1> QED BY <1>1, <1>2, LiveAnda, DesfechosPasso, DesfechosQuinzena DEF Next

LEMMA DesfechosInit == Init => DesfechosEmDia
  BY DEF Init, DesfechosEmDia, Parada

-----------------------------------------------------------------------------
(* One charge per client and fortnight, but for rounds rolled back. *)

(* What a transaction has inserted and not committed finds its key free. *)
InseridosLivres ==
  \A i \in Instancias :
    /\ instancia[i].passo = "cobrando" => instancia[i].cliente \in instancia[i].inseridos
    /\ \A c \in instancia[i].inseridos : boletos[Chave(c)].status = "ausente"

Gravada(o) == /\ boletos[<<o[1], o[2]>>].status # "ausente"
              /\ boletos[<<o[1], o[2]>>].autor = o[3]

EmAberto(o) == Aberta(o[3]) /\ o[1] \in instancia[o[3]].inseridos /\ o[2] = quinzena - 1

Perdida(o) == desfechos[<<o[3], o[2]>>] = "perdida"

(* An order belongs to a boleto that is there, to one that is about to be, or to a round *)
(* that was rolled back.                                                                 *)
CobrancaRegistrada == \A o \in cobrancas : Gravada(o) \/ EmAberto(o) \/ Perdida(o)

Cobranca == InseridosLivres /\ CobrancaRegistrada

LEMMA CobrancaImplica == Tipo /\ Cobranca => CobrancaUnica
<1> SUFFICES ASSUME Tipo, Cobranca, NEW o1 \in cobrancas, NEW o2 \in cobrancas,
                    o1[1] = o2[1], o1[2] = o2[2], ~Perdida(o1), ~Perdida(o2)
             PROVE  o1 = o2
  BY DEF CobrancaUnica, Perdida
<1>1. o1 \in Cobrancas /\ o2 \in Cobrancas
  BY DEF Tipo, TypeOK
<1>2. ASSUME NEW a \in Cobrancas, NEW b \in Cobrancas, Gravada(a), EmAberto(b),
             a[1] = b[1], a[2] = b[2]
      PROVE  FALSE
  <2>1. <<a[1], a[2]>> = Chave(b[1])
    BY <1>2 DEF EmAberto, Chave
  <2>2. boletos[Chave(b[1])].status = "ausente"
    BY <1>2 DEF EmAberto, Cobranca, InseridosLivres, Cobrancas
  <2> QED BY <1>2, <2>1, <2>2 DEF Gravada
<1>3. o1[3] = o2[3]
  <2>1. CASE Gravada(o1) /\ Gravada(o2)
    BY <2>1 DEF Gravada
  <2>2. CASE EmAberto(o1) /\ EmAberto(o2)
    BY <1>1, <2>2 DEF EmAberto, Tipo, TravaUnica, Cobrancas
  <2> QED BY <1>1, <1>2, <2>1, <2>2 DEF Cobranca, CobrancaRegistrada
<1> QED BY <1>1, <1>3 DEF Cobrancas

(* A step that ends no round, adds no order and takes no key. *)
Mantem ==
  /\ cobrancas' = cobrancas /\ quinzena' = quinzena /\ desfechos' = desfechos
  /\ boletos' = boletos
  /\ \A i \in Instancias : /\ instancia'[i].inseridos = instancia[i].inseridos
                           /\ instancia'[i].passo = "cobrando" =>
                                instancia[i].passo = "cobrando" /\ instancia'[i].cliente = instancia[i].cliente
                           /\ Aberta(i) => Aberta(i)'

LEMMA MantemCobranca == ASSUME Tipo, Cobranca, Mantem PROVE Cobranca'
<1>1. InseridosLivres'
  BY DEF Cobranca, InseridosLivres, Mantem, Chave
<1>2. \A o \in cobrancas : o[3] \in Instancias
  BY DEF Tipo, TypeOK, Cobrancas
<1>3. CobrancaRegistrada'
  BY <1>2 DEF Cobranca, CobrancaRegistrada, Gravada, EmAberto, Perdida, Mantem
<1> QED BY <1>1, <1>3 DEF Cobranca

(* A round that is lost takes its boletos with it and leaves its orders. *)
LEMMA CobrancaPerde ==
  ASSUME Tipo, Cobranca, NEW i \in Instancias, Perde(i) PROVE Cobranca'
<1>1. InseridosLivres'
  BY DEF Perde, Sai, Cobranca, InseridosLivres, Chave
<1>2. ASSUME NEW o \in cobrancas PROVE (Gravada(o) \/ EmAberto(o) \/ Perdida(o))'
  <2>1. o[3] \in Instancias /\ o[2] \in Quinzenas /\ quinzena > 1
    BY DEF Tipo, TypeOK, Cobrancas, Perde, Sai, RodadaCoerente
  <2>2. desfechos'[<<o[3], o[2]>>] \in {desfechos[<<o[3], o[2]>>], "perdida"}
    BY <2>1, Encerrado DEF Perde, Sai, Desfecho
  <2>3. CASE Gravada(o)
    BY <2>3 DEF Gravada, Perde
  <2>4. CASE EmAberto(o) /\ o[3] = i
    <3>1. desfechos'[<<i, quinzena - 1>>] = "perdida"
      BY <2>1, Encerrado DEF Perde, Sai, Desfecho
    <3> QED BY <2>4, <3>1 DEF EmAberto, Perdida
  <2>5. CASE EmAberto(o) /\ o[3] # i
    BY <2>1, <2>5 DEF EmAberto, Aberta, Perde, Sai
  <2>6. CASE Perdida(o)
    BY <2>2, <2>6 DEF Perdida
  <2> QED BY <2>3, <2>4, <2>5, <2>6 DEF Cobranca, CobrancaRegistrada
<1> QED BY <1>1, <1>2 DEF Cobranca, CobrancaRegistrada, Perde

LEMMA MantemLive == ASSUME NEW l \in Lives, LiveStep(l) PROVE Mantem
  BY DEF LiveStep, LancarLive, EditarLive, ExcluirLive, Mantem, Aberta

LEMMA CobrancaDisparar ==
  ASSUME Tipo, Cobranca, NEW i \in Instancias, Disparar(i) PROVE Cobranca'
<1>1. CASE i \in presas
  BY <1>1, PerdeEspera, CobrancaPerde DEF Disparar
<1>2. CASE i \notin presas
  <2>1. \E p \in {"abriu", "pronto"} : instancia' = [instancia EXCEPT ![i].passo = p]
    BY <1>2 DEF Disparar, TentarTrava, Vai
  <2>2. Mantem
    BY <1>2, <2>1 DEF Disparar, Mantem, Aberta, Tipo, TypeOK, InstanciaRow
  <2> QED BY <2>2, MantemCobranca
<1> QED BY <1>1, <1>2

LEMMA CobrancaFaturar ==
  ASSUME Tipo, Cobranca, NEW i \in Instancias, FaturarCliente(i) PROVE Cobranca'
<1>1. PICK c \in instancia[i].pendentes : PularCliente(i, c) \/ InserirBoleto(i, c) \/ Desfazer(i)
  BY DEF FaturarCliente
<1>2. instancia[i].passo = "faturando"
  BY DEF FaturarCliente
<1>3. CASE PularCliente(i, c)
  <2>1. Mantem
    BY <1>3 DEF PularCliente, Mantem, Aberta, Tipo, TypeOK, InstanciaRow
  <2> QED BY <2>1, MantemCobranca
<1>4. CASE InserirBoleto(i, c)
  <2>1. instancia' = [instancia EXCEPT ![i] = [instancia[i] EXCEPT !.passo = "cobrando",
                        !.cliente = c, !.pendentes = instancia[i].pendentes \ {c},
                        !.inseridos = instancia[i].inseridos \cup {c}]]
    BY <1>4 DEF InserirBoleto
  <2>2. /\ instancia'[i].passo = "cobrando" /\ instancia'[i].cliente = c
        /\ instancia'[i].inseridos = instancia[i].inseridos \cup {c}
        /\ \A j \in Instancias : j # i => instancia'[j] = instancia[j]
    BY <2>1 DEF Tipo, TypeOK, InstanciaRow
  <2>3. UNCHANGED <<boletos, quinzena, cobrancas, desfechos>> /\ boletos[Chave(c)].status = "ausente"
    BY <1>4 DEF InserirBoleto, JaFaturado
  <2>4. InseridosLivres'
    BY <2>2, <2>3 DEF Cobranca, InseridosLivres, Chave
  <2>5. CobrancaRegistrada'
    <3>1. \A o \in cobrancas : o[3] \in Instancias
      BY DEF Tipo, TypeOK, Cobrancas
    <3>2. \A j \in Instancias : /\ Aberta(j) => Aberta(j)'
                               /\ instancia[j].inseridos \subseteq instancia'[j].inseridos
      BY <2>2 DEF Aberta
    <3> QED BY <2>3, <3>1, <3>2 DEF Cobranca, CobrancaRegistrada, Gravada, EmAberto, Perdida
  <2> QED BY <2>4, <2>5 DEF Cobranca
<1>5. CASE Desfazer(i)
  BY <1>2, <1>5, PerdeDesfazer, CobrancaPerde
<1> QED BY <1>1, <1>3, <1>4, <1>5

LEMMA CobrancaCobrar ==
  ASSUME Tipo, Cobranca, NEW i \in Instancias, Cobrar(i) PROVE Cobranca'
<1>1. instancia' = [instancia EXCEPT ![i] = [instancia[i] EXCEPT !.passo = "faturando", !.cliente = NULL]]
  BY DEF Cobrar
<1>2. /\ instancia'[i].passo = "faturando" /\ instancia'[i].inseridos = instancia[i].inseridos
      /\ \A j \in Instancias : j # i => instancia'[j] = instancia[j]
  BY <1>1 DEF Tipo, TypeOK, InstanciaRow
<1>3. UNCHANGED <<boletos, quinzena, desfechos>>
  BY DEF Cobrar
<1>4. InseridosLivres'
  BY <1>2, <1>3 DEF Cobranca, InseridosLivres, Chave
<1>5. CobrancaRegistrada'
  <2>1. PICK nova : /\ nova = <<instancia[i].cliente, quinzena - 1, i>>
                    /\ cobrancas' \subseteq cobrancas \cup {nova}
    BY DEF Cobrar
  <2>2. EmAberto(nova)'
    <3>1. instancia[i].cliente \in instancia[i].inseridos
      BY DEF Cobrar, Cobranca, InseridosLivres
    <3>2. nova[1] = instancia[i].cliente /\ nova[2] = quinzena - 1 /\ nova[3] = i
      BY <2>1
    <3> QED BY <1>2, <1>3, <3>1, <3>2 DEF EmAberto, Aberta
  <2>3. \A j \in Instancias : /\ Aberta(j) => Aberta(j)'
                             /\ instancia[j].inseridos \subseteq instancia'[j].inseridos
    BY <1>2 DEF Aberta
  <2>4. ASSUME NEW o \in cobrancas PROVE (Gravada(o) \/ EmAberto(o) \/ Perdida(o))'
    <3>1. o[3] \in Instancias
      BY DEF Tipo, TypeOK, Cobrancas
    <3> QED BY <1>3, <2>3, <3>1 DEF Cobranca, CobrancaRegistrada, Gravada, EmAberto, Perdida
  <2> QED BY <2>1, <2>2, <2>4 DEF CobrancaRegistrada
<1> QED BY <1>4, <1>5 DEF Cobranca

(* The COMMIT turns what was about to be into what is there. *)
LEMMA CobrancaConfirmar ==
  ASSUME Tipo, DesfechosEmDia, Cobranca, NEW i \in Instancias, Confirmar(i) PROVE Cobranca'
<1> DEFINE chaves == {Chave(c) : c \in instancia[i].inseridos}
<1>1. /\ \A k \in Chaves : k \in chaves => boletos'[k].status = "pendente" /\ boletos'[k].autor = i
      /\ \A k \in Chaves : k \notin chaves => boletos'[k] = boletos[k]
      /\ quinzena' = quinzena /\ cobrancas' = cobrancas
  BY DEF Confirmar
<1>2. /\ instancia'[i] = Parada("pronto")
      /\ \A j \in Instancias : j # i => instancia'[j] = instancia[j] /\ ~ Aberta(j)
  <2>1. Aberta(i)
    BY DEF Confirmar, Aberta
  <2> QED BY <2>1 DEF Confirmar, Tipo, TypeOK, TravaUnica
<1>3. \A j \in Instancias : instancia'[j].inseridos = {} /\ instancia'[j].passo # "cobrando"
  <2>1. \A j \in Instancias : ~ Aberta(j) => instancia[j].inseridos = {} /\ instancia[j].passo # "cobrando"
    BY DEF Tipo, TypeOK, InstanciaRow, RodadaCoerente, Aberta
  <2> QED BY <1>2, <2>1 DEF Parada
<1>4. InseridosLivres'
  BY <1>3 DEF InseridosLivres
<1>5. CobrancaRegistrada'
  <2> SUFFICES ASSUME NEW o \in cobrancas PROVE Gravada(o)' \/ Perdida(o)'
    BY <1>1 DEF CobrancaRegistrada
  <2>1. o \in Cobrancas /\ <<o[1], o[2]>> \in Chaves
    BY DEF Tipo, TypeOK, Cobrancas, Chaves
  <2>2. CASE Gravada(o)
    <3>1. <<o[1], o[2]>> \notin chaves
      BY <2>2 DEF Gravada, Cobranca, InseridosLivres
    <3> HIDE DEF chaves
    <3> QED BY <1>1, <2>1, <2>2, <3>1 DEF Gravada
  <2>3. CASE EmAberto(o)
    <3>1. o[3] = i
      BY <1>2, <2>1, <2>3 DEF EmAberto, Cobrancas
    <3>2. <<o[1], o[2]>> \in chaves
      BY <2>3, <3>1 DEF EmAberto, Chave
    <3> HIDE DEF chaves
    <3> QED BY <1>1, <2>1, <3>1, <3>2 DEF Gravada
  <2>4. CASE Perdida(o)
    <3>1. o[3] \in Instancias /\ o[2] \in Quinzenas /\ quinzena > 1
      BY <2>1 DEF Cobrancas, Confirmar, Tipo, RodadaCoerente
    <3>2. ~(o[3] = i /\ o[2] = quinzena - 1)
      BY <2>4 DEF Perdida, DesfechosEmDia, Confirmar
    <3> QED BY <2>4, <3>1, <3>2, Encerrado DEF Perdida, Confirmar, Desfecho
  <2> QED BY <2>2, <2>3, <2>4 DEF Cobranca, CobrancaRegistrada
<1> QED BY <1>4, <1>5 DEF Cobranca

LEMMA CobrancaQuinzena ==
  ASSUME Tipo, Cobranca, PassarQuinzena PROVE Cobranca'
<1>1. \A j \in Instancias : instancia'[j] = Parada("espera") /\ ~ Aberta(j)
  BY DEF PassarQuinzena, Aberta
<1>2. InseridosLivres'
  BY <1>1 DEF InseridosLivres, Parada
<1>3. \A o \in cobrancas : Gravada(o) \/ Perdida(o)
  BY <1>1 DEF Cobranca, CobrancaRegistrada, EmAberto, Tipo, TypeOK, Cobrancas
<1> QED BY <1>2, <1>3 DEF PassarQuinzena, Cobranca, CobrancaRegistrada, Gravada, Perdida

LEMMA CobrancaInit == Init => Cobranca
  BY DEF Init, Cobranca, InseridosLivres, CobrancaRegistrada, Parada

LEMMA CobrancaNext == Tipo /\ DesfechosEmDia /\ Cobranca /\ [Next]_vars => Cobranca'
<1> SUFFICES ASSUME Tipo, DesfechosEmDia, Cobranca, [Next]_vars PROVE Cobranca'
  OBVIOUS
<1>1. ASSUME NEW i \in Instancias, LerLives(i) PROVE Cobranca'
  <2>1. Mantem
    BY <1>1 DEF LerLives, Mantem, Aberta, Tipo, TypeOK, InstanciaRow
  <2> QED BY <2>1, MantemCobranca
<1>2. ASSUME NEW i \in Instancias, Falha(i) PROVE Cobranca'
  <2>1. CASE Falhar(i) \/ Cair(i)
    BY <2>1, PerdeDesfazer, CobrancaPerde DEF Falhar, Cair
  <2>2. CASE Prender(i) /\ instancia[i].passo = "espera"
    BY <2>2, PerdeEspera, CobrancaPerde DEF Prender
  <2>3. CASE UNCHANGED <<boletos, instancia, quinzena, cobrancas, desfechos>>
    BY <2>3, MantemCobranca DEF Mantem, Aberta
  <2> QED BY <1>2, <2>1, <2>2, <2>3 DEF Falha, Prender, Reiniciar
<1>3. ASSUME NEW i \in Instancias, Rodada(i) PROVE Cobranca'
  BY <1>1, <1>3, CobrancaDisparar, CobrancaFaturar, CobrancaCobrar, CobrancaConfirmar DEF Rodada
<1>4. ASSUME NEW l \in Lives, LiveStep(l) PROVE Cobranca'
  BY <1>4, MantemLive, MantemCobranca
<1>5. CASE UNCHANGED vars
  BY <1>5, MantemCobranca DEF vars, Mantem, Aberta
<1> QED BY <1>2, <1>3, <1>4, <1>5, CobrancaQuinzena DEF Next

(* However many instances fire, and whatever is edited, deleted, refused by the gateway, *)
(* entered late or rolled back, a client has two orders for one fortnight only if one of *)
(* them is of a round that was rolled back: the lock and the idempotency key suffice for *)
(* every other interleaving.                                                             *)
THEOREM CobrancaUnicaCorrect == Spec => []CobrancaUnica
<1>1. Spec => [](Tipo /\ DesfechosEmDia /\ Cobranca)
  BY TipoInit, TipoNext, DesfechosInit, DesfechosNext, CobrancaInit, CobrancaNext, PTL DEF Spec
<1> QED BY <1>1, CobrancaImplica, PTL

-----------------------------------------------------------------------------
(* Every live in time for its fortnight is billed, unless that day's rounds were lost. *)

(* A live of a fortnight that is over which its rounds should have billed. *)
Pendente(l) ==
  PorFaturar(l) /\ lives[l].boleto = NULL /\ ~ lives[l].atrasada /\ lives[l].quinzena < quinzena

(* The transaction of i has read the live as it is, and has not passed its client over. *)
Lida(i, l) ==
  \E r \in instancia[i].lidas :
    /\ r.id = l /\ r.cliente_id = lives[l].cliente_id /\ r.comissao
    /\ r.cliente_id \in instancia[i].pendentes \cup instancia[i].inseridos

SemGravada(q) == \A i \in Instancias : desfechos[<<i, q>>] # "gravada"

ChavesGravadas == \A k \in Chaves : boletos[k].status # "ausente" => ~ SemGravada(k[2])

Antigas ==
  \A l \in Lives : Pendente(l) /\ lives[l].quinzena < quinzena - 1 => RodadasPerdidas(lives[l].quinzena)

DaVez ==
  \A l \in Lives : Pendente(l) /\ lives[l].quinzena = quinzena - 1 =>
    /\ SemGravada(quinzena - 1)
    /\ \A i \in Instancias : instancia[i].passo \in {"faturando", "cobrando"} => Lida(i, l)

(* Somebody is still to try today, or has: an instance leaves only to the one with the lock. *)
Alguem ==
  quinzena > 1 => \E i \in Instancias : \/ instancia[i].passo # "pronto"
                                        \/ desfechos[<<i, quinzena - 1>>] \in {"gravada", "perdida"}

Faturadas == ChavesGravadas /\ Antigas /\ DaVez /\ Alguem

LEMMA RodadasDoDiaPerdidas ==
  ASSUME Faturadas, quinzena > 1, \A i \in Instancias : instancia[i].passo = "pronto",
         NEW l \in Lives, Pendente(l), lives[l].quinzena = quinzena - 1
  PROVE  RodadasPerdidas(quinzena - 1)
  BY DEF Faturadas, DaVez, Alguem, SemGravada, RodadasPerdidas

LEMMA FaturadasImplica == Tipo /\ Faturadas => LiveFaturada
<1> SUFFICES ASSUME Tipo, Faturadas, NEW l \in Lives, PorFaturar(l), RodadasPassadas(lives[l].quinzena),
                    lives[l].boleto = NULL, ~ lives[l].atrasada
             PROVE  RodadasPerdidas(lives[l].quinzena)
  BY DEF LiveFaturada
<1>1. quinzena \in Nat /\ lives[l].quinzena \in Nat /\ lives[l].quinzena >= 1
  BY ConstantesAssumption DEF Tipo, TypeOK, LiveRow, Quinzenas
<1>2. Pendente(l)
  BY <1>1 DEF Pendente, RodadasPassadas
<1>3. CASE lives[l].quinzena < quinzena - 1
  BY <1>2, <1>3 DEF Faturadas, Antigas
<1>4. CASE lives[l].quinzena = quinzena - 1 /\ \A i \in Instancias : instancia[i].passo = "pronto"
  BY <1>1, <1>2, <1>4, RodadasDoDiaPerdidas
<1> QED BY <1>1, <1>3, <1>4 DEF RodadasPassadas

(* A step after which somebody still has a round to run, if anybody had. *)
Segue ==
  (\E i \in Instancias : instancia[i].passo # "pronto") =>
    \E i \in Instancias : instancia'[i].passo # "pronto"

(* A step after which every open transaction has read the lives it should bill. *)
LeTodas ==
  \A i \in Instancias, l \in Lives :
    Pendente(l) /\ Pendente(l)' /\ lives[l].quinzena = quinzena - 1
      /\ instancia'[i].passo \in {"faturando", "cobrando"} => Lida(i, l)'

(* A step that writes no live that is waiting. *)
NaoMexe == \A l \in Lives : Pendente(l)' => Pendente(l) /\ lives'[l] = lives[l]

LEMMA FaturadasAnda ==
  ASSUME Faturadas, UNCHANGED <<boletos, quinzena, desfechos>>, NaoMexe, LeTodas, Segue
  PROVE  Faturadas'
<1>1. ChavesGravadas' /\ Alguem'
  BY DEF Faturadas, ChavesGravadas, SemGravada, Alguem, Segue
<1>2. Antigas'
  BY DEF Faturadas, Antigas, RodadasPerdidas, NaoMexe
<1>3. DaVez'
  BY DEF Faturadas, DaVez, SemGravada, NaoMexe, LeTodas
<1> QED BY <1>1, <1>2, <1>3 DEF Faturadas

LEMMA FaturadasLive ==
  ASSUME Tipo, Faturadas, NEW m \in Lives, LiveStep(m) PROVE Faturadas'
<1>1. UNCHANGED <<boletos, quinzena, desfechos, instancia>>
  BY DEF LiveStep, LancarLive, EditarLive, ExcluirLive
<1>2. \A l \in Lives : l # m => lives'[l] = lives[l]
  BY DEF LiveStep, LancarLive, EditarLive, ExcluirLive, Tipo, TypeOK
<1>3. ~ Pendente(m)'
  <2>1. CASE ExcluirLive(m)
    BY <2>1 DEF ExcluirLive, Tipo, TypeOK, LiveRow, Pendente, PorFaturar
  <2>2. CASE LancarLive(m) \/ EditarLive(m)
    <3>1. PICK q \in 1..quinzena :
            lives'[m].quinzena = q /\ lives'[m].atrasada = (q < quinzena)
      BY <2>2 DEF LancarLive, EditarLive, Tipo, TypeOK, LiveRow
    <3>2. quinzena \in Nat
      BY ConstantesAssumption DEF Tipo, TypeOK, Quinzenas
    <3> QED BY <1>1, <3>1, <3>2 DEF Pendente
  <2> QED BY <2>1, <2>2 DEF LiveStep
<1>4. NaoMexe
  BY <1>1, <1>2, <1>3 DEF NaoMexe, Pendente, PorFaturar
<1>5. LeTodas /\ Segue
  BY <1>1, <1>4 DEF LeTodas, Segue, NaoMexe, Faturadas, DaVez, Lida
<1> QED BY <1>1, <1>4, <1>5, FaturadasAnda

(* What the rounds do to the rows of their instances, the lives being left alone. *)
LEMMA FaturadasLinhas ==
  ASSUME Faturadas, UNCHANGED <<lives, boletos, quinzena, desfechos>>, LeTodas, Segue
  PROVE  Faturadas'
<1>1. NaoMexe
  BY DEF NaoMexe, Pendente, PorFaturar
<1> QED BY <1>1, FaturadasAnda

LEMMA FaturadasPerde ==
  ASSUME Tipo, DesfechosEmDia, Faturadas, NEW i \in Instancias, Perde(i) PROVE Faturadas'
<1>1. quinzena > 1 /\ quinzena - 1 \in Quinzenas /\ quinzena \in Nat
  BY ConstantesAssumption DEF Perde, Sai, Tipo, TypeOK, RodadaCoerente, Quinzenas
<1>2. /\ desfechos'[<<i, quinzena - 1>>] = "perdida" /\ desfechos[<<i, quinzena - 1>>] = "nenhum"
      /\ \A j \in Instancias, q \in Quinzenas :
           ~(j = i /\ q = quinzena - 1) => desfechos'[<<j, q>>] = desfechos[<<j, q>>]
  BY <1>1, Encerrado DEF Perde, Sai, DesfechosEmDia, Desfecho
<1>3. \A q \in Quinzenas : SemGravada(q) <=> SemGravada(q)'
  BY <1>2 DEF SemGravada
<1>4. \A q \in Quinzenas : RodadasPerdidas(q) => RodadasPerdidas(q)'
  BY <1>2 DEF RodadasPerdidas
<1>5. \A l \in Lives : (Pendente(l)' <=> Pendente(l)) /\ lives[l].quinzena \in Quinzenas
  BY DEF Perde, Sai, Pendente, PorFaturar, Tipo, TypeOK, LiveRow
<1>6. ChavesGravadas'
  BY <1>3 DEF Faturadas, ChavesGravadas, Perde, Chaves
<1>7. Antigas'
  BY <1>4, <1>5 DEF Faturadas, Antigas, Perde, Sai
<1>8. DaVez'
  <2> SUFFICES ASSUME NEW l \in Lives, Pendente(l), lives[l].quinzena = quinzena - 1
               PROVE  /\ SemGravada(quinzena - 1)'
                      /\ \A j \in Instancias : instancia'[j].passo \in {"faturando", "cobrando"} => Lida(j, l)'
    BY <1>5 DEF DaVez, Perde, Sai
  <2>1. SemGravada(quinzena - 1)'
    BY <1>1, <1>3 DEF Faturadas, DaVez, Perde, Sai, SemGravada
  <2>2. \A j \in Instancias : instancia'[j].passo \in {"faturando", "cobrando"} =>
          j # i /\ instancia'[j] = instancia[j]
    BY DEF Perde, Sai
  <2>3. \A j \in Instancias : instancia'[j].passo \in {"faturando", "cobrando"} => Lida(j, l)
    BY <2>2 DEF Faturadas, DaVez
  <2> QED BY <2>1, <2>2, <2>3 DEF Lida, Perde
<1>9. Alguem'
  BY <1>2 DEF Alguem, Perde, Sai
<1> QED BY <1>6, <1>7, <1>8, <1>9 DEF Faturadas

LEMMA FaturadasDisparar ==
  ASSUME Tipo, DesfechosEmDia, Faturadas, NEW i \in Instancias, Disparar(i) PROVE Faturadas'
<1>1. CASE i \in presas
  BY <1>1, PerdeEspera, FaturadasPerde DEF Disparar
<1>2. CASE i \notin presas
  <2>1. PICK p \in {"abriu", "pronto"} :
          /\ instancia' = [instancia EXCEPT ![i].passo = p]
          /\ p = "pronto" => trava # NULL
    BY <1>2 DEF Disparar, TentarTrava, Vai
  <2>2. UNCHANGED <<lives, boletos, quinzena, desfechos>> /\ instancia[i].passo = "espera"
    BY <1>2 DEF Disparar
  <2>3. /\ instancia'[i].passo = p
        /\ \A j \in Instancias : j # i => instancia'[j] = instancia[j]
    BY <2>1 DEF Tipo, TypeOK, InstanciaRow
  <2>4. \A j \in Instancias, l \in Lives : j # i => (Lida(j, l) <=> Lida(j, l)')
    BY <2>2, <2>3 DEF Lida
  <2>5. LeTodas
    BY <2>3, <2>4 DEF LeTodas, Faturadas, DaVez
  <2>6. \E j \in Instancias : instancia'[j].passo # "pronto"
    <3>1. CASE p = "abriu"
      BY <2>3, <3>1
    <3>2. CASE p = "pronto"
      <4>1. trava \in Instancias
        BY <2>1, <3>2 DEF Tipo, TypeOK
      <4>2. Aberta(trava)
        BY <4>1 DEF Tipo, TravaUnica
      <4>3. trava # i
        BY <2>2, <4>2 DEF Aberta
      <4> QED BY <2>3, <4>1, <4>2, <4>3 DEF Aberta
    <3> QED BY <3>1, <3>2
  <2> QED BY <2>2, <2>5, <2>6, FaturadasLinhas DEF Segue
<1> QED BY <1>1, <1>2

LEMMA FaturadasLer ==
  ASSUME Tipo, Faturadas, NEW i \in Instancias, LerLives(i) PROVE Faturadas'
<1> DEFINE linha(l) == [id |-> l, cliente_id |-> lives[l].cliente_id, comissao |-> lives[l].comissao]
           lidas == {linha(l) : l \in Faturaveis}
<1>1. /\ instancia'[i].passo = "faturando" /\ instancia'[i].lidas = lidas
      /\ {r.cliente_id : r \in lidas} \subseteq instancia'[i].pendentes
      /\ \A j \in Instancias : j # i => instancia'[j] = instancia[j]
      /\ UNCHANGED <<lives, boletos, quinzena, desfechos>>
  BY DEF LerLives, Tipo, TypeOK, InstanciaRow
<1>2. ASSUME NEW l \in Lives, Pendente(l), lives[l].quinzena = quinzena - 1 PROVE Lida(i, l)'
  <2>1. l \in Faturaveis /\ lives[l].comissao
    BY <1>2 DEF Pendente, PorFaturar, Faturaveis
  <2>2. linha(l) \in lidas
    BY <2>1
  <2>3. linha(l).id = l /\ linha(l).cliente_id = lives[l].cliente_id /\ linha(l).comissao
    BY <2>1
  <2>4. linha(l).cliente_id \in instancia'[i].pendentes
    BY <1>1, <2>2
  <2> HIDE DEF linha, lidas
  <2> QED BY <1>1, <2>2, <2>3, <2>4 DEF Lida
<1>3. LeTodas
  <2>1. \A j \in Instancias, l \in Lives : j # i => (Lida(j, l) <=> Lida(j, l)')
    BY <1>1 DEF Lida
  <2> QED BY <1>1, <1>2, <2>1 DEF LeTodas, Faturadas, DaVez
<1>4. Segue
  BY <1>1 DEF Segue
<1> QED BY <1>1, <1>3, <1>4, FaturadasLinhas

(* The key of a client still to be billed is free, so that his INSERT is not skipped. *)
LEMMA FaturadasFaturar ==
  ASSUME Tipo, DesfechosEmDia, Faturadas, NEW i \in Instancias, FaturarCliente(i) PROVE Faturadas'
<1>1. PICK c \in instancia[i].pendentes : PularCliente(i, c) \/ InserirBoleto(i, c) \/ Desfazer(i)
  BY DEF FaturarCliente
<1>2. instancia[i].passo = "faturando"
  BY DEF FaturarCliente
<1>3. CASE Desfazer(i)
  BY <1>2, <1>3, PerdeDesfazer, FaturadasPerde
<1>4. CASE PularCliente(i, c) \/ InserirBoleto(i, c)
  <2>1. /\ instancia'[i].passo # "pronto" /\ instancia'[i].lidas = instancia[i].lidas
        /\ instancia'[i].pendentes = instancia[i].pendentes \ {c}
        /\ instancia[i].inseridos \subseteq instancia'[i].inseridos
        /\ InserirBoleto(i, c) => c \in instancia'[i].inseridos
        /\ \A j \in Instancias : j # i => instancia'[j] = instancia[j]
        /\ UNCHANGED <<lives, boletos, quinzena, desfechos>>
    <3>1. CASE PularCliente(i, c)
      <4>1. ~ InserirBoleto(i, c)
        BY <3>1 DEF PularCliente, InserirBoleto
      <4> QED BY <1>2, <3>1, <4>1 DEF PularCliente, Tipo, TypeOK, InstanciaRow
    <3>2. CASE InserirBoleto(i, c)
      <4>1. UNCHANGED <<lives, boletos, quinzena, desfechos>>
        BY <3>2 DEF InserirBoleto
      <4>2. instancia' = [instancia EXCEPT ![i] = [instancia[i] EXCEPT !.passo = "cobrando",
                            !.cliente = c, !.pendentes = instancia[i].pendentes \ {c},
                            !.inseridos = instancia[i].inseridos \cup {c}]]
        BY <3>2 DEF InserirBoleto
      <4> QED BY <4>1, <4>2 DEF Tipo, TypeOK, InstanciaRow
    <3> QED BY <1>4, <3>1, <3>2
  <2>2. ASSUME NEW l \in Lives, Pendente(l), lives[l].quinzena = quinzena - 1 PROVE Lida(i, l)'
    <3>1. PICK r \in instancia[i].lidas :
            /\ r.id = l /\ r.cliente_id = lives[l].cliente_id /\ r.comissao
            /\ r.cliente_id \in instancia[i].pendentes \cup instancia[i].inseridos
      BY <1>2, <2>2 DEF Faturadas, DaVez, Lida
    <3>2. CASE PularCliente(i, c) /\ r.cliente_id = c
      <4>1. Devido(i, c) /\ c \in Clientes /\ quinzena > 1
        BY <1>2, <2>2, <3>1, <3>2 DEF Devido, Pendente, PorFaturar, Tipo, TypeOK, LiveRow, RodadaCoerente
      <4>2. Chave(c) \in Chaves /\ boletos[Chave(c)].status # "ausente"
        BY <3>2, <4>1, ChaveTipo DEF PularCliente, JaFaturado, Tipo
      <4>3. ~ SemGravada(quinzena - 1)
        BY <4>2 DEF Faturadas, ChavesGravadas, Chave
      <4> QED BY <2>2, <4>3 DEF Faturadas, DaVez
    <3>3. CASE InserirBoleto(i, c) \/ r.cliente_id # c
      <4>1. r.cliente_id \in instancia'[i].pendentes \cup instancia'[i].inseridos
        BY <2>1, <3>1, <3>3
      <4> QED BY <2>1, <3>1, <4>1 DEF Lida
    <3> QED BY <1>4, <3>2, <3>3
  <2>3. LeTodas
    <3>1. \A j \in Instancias, l \in Lives : j # i => (Lida(j, l) <=> Lida(j, l)')
      BY <2>1 DEF Lida
    <3> QED BY <2>1, <2>2, <3>1 DEF LeTodas, Faturadas, DaVez
  <2>4. Segue
    BY <2>1 DEF Segue
  <2> QED BY <2>1, <2>3, <2>4, FaturadasLinhas
<1> QED BY <1>1, <1>3, <1>4

LEMMA FaturadasCobrar ==
  ASSUME Tipo, Faturadas, NEW i \in Instancias, Cobrar(i) PROVE Faturadas'
<1>1. /\ instancia'[i].passo = "faturando" /\ instancia'[i].lidas = instancia[i].lidas
      /\ instancia'[i].pendentes = instancia[i].pendentes /\ instancia'[i].inseridos = instancia[i].inseridos
      /\ \A j \in Instancias : j # i => instancia'[j] = instancia[j]
      /\ UNCHANGED <<lives, boletos, quinzena, desfechos>> /\ instancia[i].passo = "cobrando"
  BY DEF Cobrar, Tipo, TypeOK, InstanciaRow
<1>2. \A j \in Instancias, l \in Lives : Lida(j, l) => Lida(j, l)'
  BY <1>1 DEF Lida
<1>3. \A j \in Instancias : instancia'[j].passo \in {"faturando", "cobrando"} =>
        instancia[j].passo \in {"faturando", "cobrando"}
  BY <1>1
<1>4. LeTodas
  BY <1>2, <1>3 DEF LeTodas, Faturadas, DaVez
<1>5. Segue
  BY <1>1 DEF Segue
<1> QED BY <1>1, <1>4, <1>5, FaturadasLinhas

(* The COMMIT marks every live that was waiting for it. *)
LEMMA FaturadasConfirmar ==
  ASSUME Tipo, DesfechosEmDia, Faturadas, NEW i \in Instancias, Confirmar(i) PROVE Faturadas'
<1> DEFINE chaves == {Chave(c) : c \in instancia[i].inseridos}
           dono(l) == CHOOSE c \in instancia[i].inseridos : l \in LivesDe(i, c)
           minhas == UNION {LivesDe(i, c) : c \in instancia[i].inseridos}
<1>1. /\ quinzena > 1 /\ quinzena - 1 \in Quinzenas /\ quinzena \in Nat /\ quinzena' = quinzena
      /\ instancia[i].inseridos \subseteq Clientes
  BY ConstantesAssumption DEF Confirmar, Tipo, TypeOK, RodadaCoerente, Quinzenas, InstanciaRow
<1>2. /\ desfechos'[<<i, quinzena - 1>>] = "gravada" /\ desfechos[<<i, quinzena - 1>>] = "nenhum"
      /\ \A j \in Instancias, q \in Quinzenas :
           ~(j = i /\ q = quinzena - 1) => desfechos'[<<j, q>>] = desfechos[<<j, q>>]
  BY <1>1, Encerrado DEF Confirmar, DesfechosEmDia, Desfecho
<1>3. lives' = [l \in Lives |-> IF l \in minhas /\ lives[l].status = "encerrada"
                               THEN [lives[l] EXCEPT !.boleto = Chave(dono(l))] ELSE lives[l]]
  BY DEF Confirmar
<1>4. ASSUME NEW l \in Lives, Pendente(l)' PROVE Pendente(l) /\ lives'[l] = lives[l] /\ l \notin minhas
  <2>1. CASE l \in minhas /\ lives[l].status = "encerrada"
    <3>1. \E c \in instancia[i].inseridos : l \in LivesDe(i, c)
      BY <2>1
    <3>2. dono(l) \in Clientes
      BY <1>1, <3>1
    <3>3. Chave(dono(l)) # NULL
      BY <1>1, <3>2, ChaveTipo, ConstantesAssumption DEF Tipo, Chaves, Quinzenas
    <3> HIDE DEF minhas, dono
    <3>4. lives'[l].boleto = Chave(dono(l))
      BY <1>3, <2>1 DEF Tipo, TypeOK, LiveRow
    <3> QED BY <1>4, <3>3, <3>4 DEF Pendente
  <2>2. CASE ~ (l \in minhas /\ lives[l].status = "encerrada")
    <3> HIDE DEF minhas, dono
    <3>1. lives'[l] = lives[l]
      BY <1>3, <2>2
    <3> QED BY <1>1, <1>4, <2>2, <3>1 DEF Pendente, PorFaturar
  <2> QED BY <2>1, <2>2
<1>5. ASSUME NEW l \in Lives, Pendente(l)' PROVE lives[l].quinzena # quinzena - 1
  <2> SUFFICES ASSUME lives[l].quinzena = quinzena - 1 PROVE FALSE
    OBVIOUS
  <2>1. PICK r \in instancia[i].lidas :
          r.id = l /\ r.cliente_id \in instancia[i].pendentes \cup instancia[i].inseridos
    BY <1>4, <1>5 DEF Faturadas, DaVez, Lida, Confirmar
  <2>2. r.cliente_id \in instancia[i].inseridos
    BY <2>1 DEF Confirmar
  <2>3. l \in LivesDe(i, r.cliente_id)
    BY <2>1 DEF LivesDe
  <2> QED BY <1>4, <1>5, <2>2, <2>3
<1> HIDE DEF minhas, dono
<1>6. ChavesGravadas'
  <2> SUFFICES ASSUME NEW k \in Chaves, boletos'[k].status # "ausente" PROVE ~ SemGravada(k[2])'
    BY DEF ChavesGravadas
  <2>1. CASE k \in chaves
    <3>1. k[2] = quinzena - 1
      BY <2>1 DEF Chave
    <3> HIDE DEF chaves
    <3> QED BY <1>2, <3>1 DEF SemGravada
  <2>2. CASE k \notin chaves
    <3>1. boletos'[k] = boletos[k]
      BY <2>2 DEF Confirmar
    <3>2. PICK j \in Instancias : desfechos[<<j, k[2]>>] = "gravada"
      BY <3>1 DEF Faturadas, ChavesGravadas, SemGravada
    <3>3. k[2] \in Quinzenas
      BY DEF Chaves
    <3> HIDE DEF chaves
    <3> QED BY <1>2, <3>2, <3>3 DEF SemGravada
  <2> QED BY <2>1, <2>2
<1>7. Antigas'
  <2> SUFFICES ASSUME NEW l \in Lives, Pendente(l)', lives'[l].quinzena < quinzena - 1
               PROVE  RodadasPerdidas(lives[l].quinzena)'
    BY <1>1 DEF Antigas, RodadasPerdidas
  <2>1. RodadasPerdidas(lives[l].quinzena) /\ lives[l].quinzena \in Quinzenas
    BY <1>4 DEF Faturadas, Antigas, Tipo, TypeOK, LiveRow
  <2>2. lives'[l].quinzena = lives[l].quinzena /\ lives[l].quinzena # quinzena - 1
    BY <1>4, <1>5
  <2> QED BY <1>2, <2>1, <2>2 DEF RodadasPerdidas
<1>8. DaVez'
  BY <1>1, <1>4, <1>5 DEF DaVez
<1>9. Alguem'
  BY <1>1, <1>2 DEF Alguem
<1> QED BY <1>6, <1>7, <1>8, <1>9 DEF Faturadas

LEMMA FaturadasQuinzena ==
  ASSUME Tipo, DesfechosEmDia, Faturadas, PassarQuinzena PROVE Faturadas'
<1>1. /\ quinzena' = quinzena + 1 /\ quinzena \in Quinzenas /\ quinzena \in Nat /\ quinzena >= 1
      /\ UNCHANGED <<lives, boletos, desfechos>>
      /\ \A j \in Instancias : instancia'[j] = Parada("espera") /\ instancia[j].passo = "pronto"
  BY ConstantesAssumption DEF PassarQuinzena, Tipo, TypeOK, Quinzenas
<1>2. ChavesGravadas'
  BY <1>1 DEF Faturadas, ChavesGravadas, SemGravada
<1>3. Alguem'
  BY <1>1, ConstantesAssumption DEF Alguem, Parada
<1>4. \A l \in Lives : lives[l].quinzena \in Nat /\ lives[l].quinzena >= 1
  BY ConstantesAssumption DEF Tipo, TypeOK, LiveRow, Quinzenas
<1>5. Antigas'
  <2> SUFFICES ASSUME NEW l \in Lives, Pendente(l)', lives[l].quinzena < quinzena
               PROVE  RodadasPerdidas(lives[l].quinzena)
    BY <1>1 DEF Antigas, RodadasPerdidas
  <2>1. Pendente(l)
    BY <1>1 DEF Pendente, PorFaturar
  <2>2. CASE lives[l].quinzena = quinzena - 1
    BY <1>1, <1>4, <2>1, <2>2, RodadasDoDiaPerdidas
  <2>3. CASE lives[l].quinzena < quinzena - 1
    BY <2>1, <2>3 DEF Faturadas, Antigas
  <2> QED BY <1>1, <1>4, <2>2, <2>3
<1>6. DaVez'
  <2>1. \A j \in Instancias : desfechos[<<j, quinzena>>] = "nenhum"
    <3>1. \A j \in Instancias, q \in Quinzenas : q >= quinzena => desfechos[<<j, q>>] = "nenhum"
      BY DEF DesfechosEmDia
    <3>2. quinzena >= quinzena
      BY <1>1
    <3> QED BY <1>1, <3>1, <3>2
  <2>2. quinzena' - 1 = quinzena
    BY <1>1
  <2>3. SemGravada(quinzena - 1)'
    BY <1>1, <2>1, <2>2 DEF SemGravada
  <2> QED BY <1>1, <2>3 DEF DaVez, Parada
<1> QED BY <1>2, <1>3, <1>5, <1>6 DEF Faturadas

LEMMA FaturadasInit == Init => Faturadas
<1> SUFFICES ASSUME Init PROVE Faturadas
  OBVIOUS
<1>1. ChavesGravadas /\ Antigas /\ DaVez
  BY DEF Init, ChavesGravadas, Antigas, DaVez, Pendente, PorFaturar
<1>2. Alguem
  BY DEF Init, Alguem
<1> QED BY <1>1, <1>2 DEF Faturadas

LEMMA FaturadasNext == Tipo /\ DesfechosEmDia /\ Faturadas /\ [Next]_vars => Faturadas'
<1> SUFFICES ASSUME Tipo, DesfechosEmDia, Faturadas, [Next]_vars PROVE Faturadas'
  OBVIOUS
<1>1. CASE UNCHANGED <<lives, boletos, instancia, quinzena, desfechos>>
  BY <1>1 DEF Faturadas, ChavesGravadas, SemGravada, Antigas, DaVez, Alguem, Pendente, PorFaturar,
              Lida, RodadasPerdidas
<1>2. ASSUME NEW i \in Instancias, Falha(i) PROVE Faturadas'
  <2>1. CASE Falhar(i) \/ Cair(i)
    BY <2>1, PerdeDesfazer, FaturadasPerde DEF Falhar, Cair
  <2>2. CASE Prender(i) /\ instancia[i].passo = "espera"
    BY <2>2, PerdeEspera, FaturadasPerde DEF Prender
  <2>3. CASE UNCHANGED <<lives, boletos, instancia, quinzena, desfechos>>
    BY <1>1, <2>3
  <2> QED BY <1>2, <2>1, <2>2, <2>3 DEF Falha, Prender, Reiniciar
<1>3. ASSUME NEW i \in Instancias, Rodada(i) PROVE Faturadas'
  BY <1>3, FaturadasDisparar, FaturadasLer, FaturadasFaturar, FaturadasCobrar, FaturadasConfirmar DEF Rodada
<1>4. CASE UNCHANGED vars
  BY <1>1, <1>4 DEF vars
<1> QED BY <1>2, <1>3, <1>4, FaturadasLive, FaturadasQuinzena DEF Next

(* An ended live with a commission and a client, entered or last edited before its       *)
(* fortnight was over, is billed when the rounds about it are, unless all of them were    *)
(* lost: under any failure, crash, refusal, edit or late entry nothing else leaves it out. *)
THEOREM LiveFaturadaCorrect == Spec => []LiveFaturada
<1>1. Spec => [](Tipo /\ DesfechosEmDia /\ Faturadas)
  BY TipoInit, TipoNext, DesfechosInit, DesfechosNext, FaturadasInit, FaturadasNext, PTL DEF Spec
<1> QED BY <1>1, FaturadasImplica, PTL

=============================================================================
