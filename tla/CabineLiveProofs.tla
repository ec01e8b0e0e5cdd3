-------------------------- MODULE CabineLiveProofs --------------------------
(***************************************************************************)
(* What CabineLive guarantees for any number of cabines, lives, contracts, *)
(* clients, events, requests and concurrent handlers.                      *)
(*                                                                         *)
(* Neither the type invariant nor LiveLigada is inductive.  Types need two *)
(* facts about the rows the handlers index with (Tipo); the link between a *)
(* cabine and its live needs the three properties of CabineLive together   *)
(* (Ligacao): a handler that looks at the status alone relies on           *)
(* LinkEstaAoVivo to know that it drops no link, one that starts a live    *)
(* relies on LiveLigada to know that no other is running.                  *)
(***************************************************************************)
EXTENDS CabineLive, TLAPS

(* A live in progress has a cabine. *)
LiveTemCabine ==
  \A l \in Lives : lives[l].status = "em_andamento" => lives[l].cabine_id \in Cabines

(* A request in flight holds a cabine, and the live it found was started on it: the *)
(* live may have ended or been moved since.                                         *)
LeitorCoerente ==
  \A r \in Leitores :
    /\ leitor[r].passo # "livre" => leitor[r].cabine \in Cabines
    /\ leitor[r].passo = "buscou" /\ leitor[r].achada # NULL =>
         /\ lives[leitor[r].achada].status # "ausente"
         /\ lives[leitor[r].achada].status = "em_andamento"
              => lives[leitor[r].achada].cabine_id = leitor[r].cabine

(* A poll past its first statement holds a live, and one past its second a live that *)
(* no longer runs.                                                                   *)
ColetaCoerente ==
  \A t \in Coletas :
    /\ coleta[t].passo # "livre" =>
         coleta[t].live \in Lives /\ lives[coleta[t].live].status # "ausente"
    /\ coleta[t].passo = "finalizou" =>
         lives[coleta[t].live].status \in {"encerrada", "excluida"}

Tipo == TypeOK /\ LiveTemCabine /\ LeitorCoerente /\ ColetaCoerente

-----------------------------------------------------------------------------
(* An update of one row keeps the table's type, whether or not the row exists. *)
LEMMA Atualiza ==
  ASSUME NEW D, NEW R, NEW f \in [D -> R], NEW x, NEW v, x \in D => v \in R
  PROVE  [f EXCEPT ![x] = v] \in [D -> R]
  OBVIOUS

(* Values the start of a live resolves. *)

LEMMA UmDeTipo == ASSUME NEW S, NEW T, S \subseteq T PROVE UmDe(S) \subseteq T \cup {NULL}
  BY DEF UmDe

LEMMA AtivosTipo == ASSUME TypeOK, NEW cli PROVE AtivosDe(cli) \subseteq Contratos
  BY DEF AtivosDe, TypeOK

LEMMA EventoDaLiveTipo ==
  ASSUME NEW c, NEW pedido \in Eventos \cup {NULL}
  PROVE  EventoDaLive(c, pedido) \subseteq Eventos \cup {NULL}
  BY DEF EventoDaLive, UmDe

LEMMA ClienteDaLiveTipo ==
  ASSUME TypeOK, NEW c, NEW tipo, NEW pedido \in Clientes \cup {NULL},
         NEW e \in Eventos \cup {NULL}
  PROVE  ClienteDaLive(c, tipo, pedido, e) \subseteq Clientes \cup {NULL}
<1> DEFINE base == IF e # NULL /\ agenda[e].cliente_id # NULL
                   THEN agenda[e].cliente_id ELSE pedido
           achados == {p.cliente_id : p \in {q \in aprovadas : q.cabine_id = c /\ q.dia = hoje}}
<1>1. base \in Clientes \cup {NULL}
  BY DEF TypeOK, EventoRow
<1>2. achados \subseteq Clientes
  BY ConstantesAssumption DEF TypeOK
<1>3. UmDe(achados) \subseteq Clientes \cup {NULL}
  BY <1>2, UmDeTipo
<1> QED BY <1>1, <1>3 DEF ClienteDaLive

LEMMA ContratoDaLiveTipo ==
  ASSUME TypeOK, NEW c \in Cabines, NEW cli
  PROVE  ContratoDaLive(c, cli) \subseteq Contratos \cup {NULL}
<1>1. cabines[c].contrato_id \in Contratos \cup {NULL}
  BY DEF TypeOK, CabineRow
<1> QED BY <1>1, AtivosTipo, UmDeTipo DEF ContratoDaLive

LEMMA ContratoValidadoTipo ==
  ASSUME TypeOK, NEW k \in Contratos \cup {NULL}
  PROVE  ContratoValidado(k) \subseteq Contratos \cup {NULL}
  BY AtivosTipo DEF ContratoValidado

-----------------------------------------------------------------------------
(* What a start of a live commits, with the choices its lookups leave open bound to *)
(* members of the tables.                                                           *)
LEMMA IniciarResolve ==
  ASSUME TypeOK, NEW c \in Cabines, NEW l \in Lives, NEW tipo \in Tipos,
         NEW pc \in Clientes \cup {NULL}, NEW pe \in Eventos \cup {NULL},
         IniciarLive(c, l, tipo, pc, pe)
  PROVE  \E e \in Eventos \cup {NULL}, cli \in Clientes \cup {NULL},
            k \in Contratos \cup {NULL} :
           LigarLive(c, l, cli, k) /\ MarcarEvento(c, l, e, cli)
<1>1. PICK e \in EventoDaLive(c, pe) : \E cli0 \in ClienteDaLive(c, tipo, pc, e) :
        \E k0 \in ContratoDaLive(c, cli0) : \E k \in ContratoValidado(k0) :
          LET cli == IF k0 # NULL THEN ContratoCliente[k0] ELSE cli0
          IN LigarLive(c, l, cli, k) /\ MarcarEvento(c, l, e, cli)
  BY DEF IniciarLive
<1>2. e \in Eventos \cup {NULL}
  BY EventoDaLiveTipo
<1>3. PICK cli0 \in ClienteDaLive(c, tipo, pc, e) :
        \E k0 \in ContratoDaLive(c, cli0) : \E k \in ContratoValidado(k0) :
          LET cli == IF k0 # NULL THEN ContratoCliente[k0] ELSE cli0
          IN LigarLive(c, l, cli, k) /\ MarcarEvento(c, l, e, cli)
  BY <1>1
<1>4. cli0 \in Clientes \cup {NULL}
  BY <1>2, ClienteDaLiveTipo
<1>5. PICK k0 \in ContratoDaLive(c, cli0) : \E k \in ContratoValidado(k0) :
          LET cli == IF k0 # NULL THEN ContratoCliente[k0] ELSE cli0
          IN LigarLive(c, l, cli, k) /\ MarcarEvento(c, l, e, cli)
  BY <1>3
<1>6. k0 \in Contratos \cup {NULL}
  BY ContratoDaLiveTipo
<1>7. PICK k \in ContratoValidado(k0) :
          LET cli == IF k0 # NULL THEN ContratoCliente[k0] ELSE cli0
          IN LigarLive(c, l, cli, k) /\ MarcarEvento(c, l, e, cli)
  BY <1>5
<1>8. k \in Contratos \cup {NULL}
  BY <1>6, ContratoValidadoTipo
<1>9. (IF k0 # NULL THEN ContratoCliente[k0] ELSE cli0) \in Clientes \cup {NULL}
  BY <1>4, <1>6, ConstantesAssumption
<1> QED BY <1>2, <1>7, <1>8, <1>9

-----------------------------------------------------------------------------
LEMMA TipoInit == Init => Tipo
<1> SUFFICES ASSUME Init PROVE Tipo
  OBVIOUS
<1>1. LiveNova \in LiveRow
  BY ConstantesAssumption DEF LiveNova, LiveRow, LiveStatus, Dias
<1>2. EventoNovo \in EventoRow
  BY ConstantesAssumption DEF EventoNovo, EventoRow, EventoStatus, Dias
<1>3. TypeOK
  BY <1>1, <1>2, ConstantesAssumption
  DEF Init, TypeOK, LeitorLivre, SemAprovacao, ColetaLivre, CabineRow, LeitorRow,
      AprovacaoRow, ColetaRow, CabineStatus, Dias
<1>4. LiveTemCabine /\ LeitorCoerente /\ ColetaCoerente
  BY DEF Init, LiveTemCabine, LeitorCoerente, ColetaCoerente, LiveNova, LeitorLivre,
         ColetaLivre
<1> QED BY <1>3, <1>4 DEF Tipo

LEMMA TipoLive == ASSUME Tipo, LiveStep PROVE Tipo'
<1> USE DEF Tipo
<1>1. ASSUME NEW c \in Cabines, NEW l \in Lives, NEW tipo \in Tipos,
             NEW pc \in Clientes \cup {NULL}, NEW pe \in Eventos \cup {NULL},
             IniciarLive(c, l, tipo, pc, pe)
      PROVE  Tipo'
  <2>1. PICK e \in Eventos \cup {NULL}, cli \in Clientes \cup {NULL},
             k \in Contratos \cup {NULL} :
          LigarLive(c, l, cli, k) /\ MarcarEvento(c, l, e, cli)
    BY <1>1, IniciarResolve
  <2>2. cabines' \in [Cabines -> CabineRow] /\ relogio' \in Nat
    <3>1. [status |-> "ao_vivo", live_atual_id |-> l,
           contrato_id |-> IF k # NULL THEN k ELSE cabines[c].contrato_id] \in CabineRow
      BY DEF TypeOK, CabineRow, CabineStatus
    <3> QED BY <2>1, <3>1, Atualiza DEF LigarLive, TypeOK
  <2>3. lives' \in [Lives -> LiveRow]
    <3>1. [status |-> "em_andamento", cabine_id |-> c, cliente_id |-> cli, contrato |-> k,
           dia |-> hoje, inicio |-> relogio] \in LiveRow
      BY DEF TypeOK, LiveRow, LiveStatus
    <3> QED BY <2>1, <3>1, Atualiza DEF LigarLive, TypeOK
  <2>4. agenda' \in [Eventos -> EventoRow]
    <3>1. CASE e # NULL
      <4>1. agenda[e] \in EventoRow
        BY <3>1 DEF TypeOK
      <4>2. [agenda[e] EXCEPT !.status = "ao_vivo", !.live = l] \in EventoRow
        BY <4>1 DEF EventoRow, EventoStatus
      <4> QED BY <2>1, <3>1, <4>2, Atualiza, SMTT(30) DEF MarcarEvento, TypeOK
    <3>2. CASE e = NULL
      <4>1. [status |-> "ao_vivo", cabine_id |-> c, cliente_id |-> cli, dia |-> hoje,
             live |-> l] \in EventoRow
        BY DEF TypeOK, EventoRow, EventoStatus
      <4>2. CASE cli \in ComMarca
        <5>1. PICK novo \in Eventos :
                agenda' = [agenda EXCEPT ![novo] =
                             [status |-> "ao_vivo", cabine_id |-> c, cliente_id |-> cli,
                              dia |-> hoje, live |-> l]]
          BY <2>1, <3>2, <4>2 DEF MarcarEvento
        <5> QED BY <4>1, <5>1, Atualiza DEF TypeOK
      <4>3. CASE cli \notin ComMarca
        BY <2>1, <3>2, <4>3 DEF MarcarEvento, TypeOK
      <4> QED BY <4>2, <4>3
    <3> QED BY <3>1, <3>2
  <2>5. TypeOK'
    BY <1>1, <2>2, <2>3, <2>4 DEF IniciarLive, TypeOK
  <2>6. LiveTemCabine'
    BY <2>1 DEF LigarLive, LiveTemCabine, TypeOK
  <2>7. LeitorCoerente'
    BY <1>1, <2>1 DEF IniciarLive, LigarLive, LeitorCoerente, TypeOK
  <2>8. ColetaCoerente'
    BY <1>1, <2>1 DEF IniciarLive, LigarLive, ColetaCoerente, TypeOK
  <2> QED BY <2>5, <2>6, <2>7, <2>8
<1>2. ASSUME NEW l \in Lives, EncerrarLive(l) PROVE Tipo'
  <2>1. lives[l].cabine_id \in Cabines
    BY <1>2 DEF EncerrarLive, LiveTemCabine
  <2>2. cabines' \in [Cabines -> CabineRow]
    <3>1. [status |-> "disponivel", live_atual_id |-> NULL,
           contrato_id |-> IF cabines[lives[l].cabine_id].contrato_id \in ativos
                           THEN cabines[lives[l].cabine_id].contrato_id ELSE NULL] \in CabineRow
      BY <2>1 DEF TypeOK, CabineRow, CabineStatus
    <3> QED BY <1>2, <3>1, Atualiza DEF EncerrarLive, DesligarCabine, TypeOK
  <2>3. agenda' \in [Eventos -> EventoRow]
    <3>1. \A e \in Eventos : [agenda[e] EXCEPT !.status = "concluido"] \in EventoRow
      BY DEF TypeOK, EventoRow, EventoStatus
    <3> QED BY <1>2, <3>1 DEF EncerrarLive, ConcluirEventos, TypeOK
  <2>4. lives' \in [Lives -> LiveRow]
    <3>1. [lives[l] EXCEPT !.status = "encerrada"] \in LiveRow
      BY DEF TypeOK, LiveRow, LiveStatus
    <3> QED BY <1>2, <3>1, Atualiza DEF EncerrarLive, TypeOK
  <2>5. horas' \in [Lives -> Contratos \cup {NULL}]
    BY <1>2, <2>1 DEF EncerrarLive, TypeOK, CabineRow
  <2>6. TypeOK'
    BY <1>2, <2>2, <2>3, <2>4, <2>5 DEF EncerrarLive, TypeOK
  <2>7. LiveTemCabine' /\ LeitorCoerente' /\ ColetaCoerente'
    BY <1>2 DEF EncerrarLive, LiveTemCabine, LeitorCoerente, ColetaCoerente, TypeOK, LiveRow
  <2> QED BY <2>6, <2>7
<1>3. ASSUME NEW l \in Lives, NEW c \in Cabines, NEW cli \in Clientes \cup {NULL},
             CriarLiveManual(l, c, cli)
      PROVE  Tipo'
  <2> DEFINE linha == [LiveNova EXCEPT !.status = "encerrada", !.cabine_id = c,
                                        !.cliente_id = cli]
  <2>1. linha \in LiveRow
    <3>1. LiveNova \in LiveRow
      BY ConstantesAssumption DEF LiveNova, LiveRow, LiveStatus, Dias
    <3> QED BY <3>1 DEF LiveRow, LiveStatus
  <2>2. TypeOK'
    BY <1>3, <2>1, Atualiza DEF CriarLiveManual, TypeOK
  <2>3. LiveTemCabine' /\ LeitorCoerente' /\ ColetaCoerente'
    BY <1>3
        DEF CriarLiveManual, LiveNova, LiveTemCabine, LeitorCoerente, ColetaCoerente,
            TypeOK, LiveRow
  <2> QED BY <2>2, <2>3
<1>4. ASSUME NEW l \in Lives, NEW c \in Cabines, EditarLive(l, c) PROVE Tipo'
  <2>1. [lives[l] EXCEPT !.cabine_id = c] \in LiveRow
    BY DEF TypeOK, LiveRow
  <2>2. TypeOK'
    BY <1>4, <2>1, Atualiza DEF EditarLive, TypeOK
  <2>3. LiveTemCabine' /\ LeitorCoerente' /\ ColetaCoerente'
    BY <1>4 DEF EditarLive, LiveTemCabine, LeitorCoerente, ColetaCoerente, TypeOK, LiveRow
  <2> QED BY <2>2, <2>3
<1>5. ASSUME NEW l \in Lives, ExcluirLive(l) PROVE Tipo'
  <2>1. [lives[l] EXCEPT !.status = "excluida"] \in LiveRow
    BY DEF TypeOK, LiveRow, LiveStatus
  <2>2. \A c \in Cabines : [cabines[c] EXCEPT !.live_atual_id = NULL] \in CabineRow
    BY DEF TypeOK, CabineRow
  <2>3. cabines' \in [Cabines -> CabineRow]
    BY <1>5, <2>2 DEF ExcluirLive, TypeOK
  <2>4. TypeOK'
    BY <1>5, <2>1, <2>3, Atualiza DEF ExcluirLive, TypeOK
  <2>5. LiveTemCabine' /\ LeitorCoerente' /\ ColetaCoerente'
    BY <1>5 DEF ExcluirLive, LiveTemCabine, LeitorCoerente, ColetaCoerente, TypeOK, LiveRow
  <2> QED BY <2>4, <2>5
<1> QED BY <1>1, <1>2, <1>3, <1>4, <1>5 DEF LiveStep

LEMMA TipoCabine == ASSUME Tipo, CabineStep PROVE Tipo'
<1> USE DEF Tipo
<1>1. ASSUME NEW c \in Cabines, NEW k \in Contratos \cup {NULL},
             NEW cli \in Clientes \cup {NULL}, ReservarCabine(c, k, cli)
      PROVE  Tipo'
  <2>1. PICK escolhido \in IF k # NULL THEN {k} ELSE UmDe(AtivosDe(cli)) :
          cabines' = [cabines EXCEPT
                        ![c] = [status |-> "reservada", live_atual_id |-> NULL,
                                contrato_id |-> IF ContratoLivre(escolhido, c)
                                                THEN escolhido ELSE NULL]]
    BY <1>1 DEF ReservarCabine
  <2>2. escolhido \in Contratos \cup {NULL}
    BY <2>1, AtivosTipo, UmDeTipo
  <2>3. [status |-> "reservada", live_atual_id |-> NULL,
         contrato_id |-> IF ContratoLivre(escolhido, c) THEN escolhido ELSE NULL] \in CabineRow
    BY <2>2 DEF CabineRow, CabineStatus
  <2>4. TypeOK'
    BY <1>1, <2>1, <2>3, Atualiza DEF ReservarCabine, TypeOK
  <2>5. LiveTemCabine' /\ LeitorCoerente' /\ ColetaCoerente'
    BY <1>1 DEF ReservarCabine, LiveTemCabine, LeitorCoerente, ColetaCoerente
  <2> QED BY <2>4, <2>5
<1>2. ASSUME NEW c \in Cabines, LiberarCabine(c) PROVE Tipo'
  <2>1. [status |-> "disponivel", contrato_id |-> NULL, live_atual_id |-> NULL] \in CabineRow
    BY DEF CabineRow, CabineStatus
  <2>2. TypeOK'
    BY <1>2, <2>1, Atualiza DEF LiberarCabine, Solta, TypeOK
  <2>3. LiveTemCabine' /\ LeitorCoerente' /\ ColetaCoerente'
    BY <1>2 DEF LiberarCabine, LiveTemCabine, LeitorCoerente, ColetaCoerente
  <2> QED BY <2>2, <2>3
<1>3. ASSUME NEW c \in Cabines, NEW s \in {"disponivel", "manutencao"}, MudarStatus(c, s)
      PROVE  Tipo'
  <2>1. [cabines[c] EXCEPT !.status = s] \in CabineRow
    BY DEF TypeOK, CabineRow, CabineStatus
  <2>2. TypeOK'
    BY <1>3, <2>1, Atualiza DEF MudarStatus, TypeOK
  <2>3. LiveTemCabine' /\ LeitorCoerente' /\ ColetaCoerente'
    BY <1>3 DEF MudarStatus, LiveTemCabine, LeitorCoerente, ColetaCoerente
  <2> QED BY <2>2, <2>3
<1>4. ASSUME NEW r \in Leitores, NEW c \in Cabines, LerCabine(r, c) PROVE Tipo'
  <2>1. [passo |-> "leu", cabine |-> c, status |-> cabines[c].status,
         live_atual_id |-> cabines[c].live_atual_id, achada |-> NULL] \in LeitorRow
    BY DEF TypeOK, CabineRow, LeitorRow
  <2>2. TypeOK'
    BY <1>4, <2>1, Atualiza DEF LerCabine, TypeOK
  <2>3. LiveTemCabine' /\ LeitorCoerente' /\ ColetaCoerente'
    BY <1>4 DEF LerCabine, LiveTemCabine, LeitorCoerente, ColetaCoerente, TypeOK, LeitorRow
  <2> QED BY <2>2, <2>3
<1>5. ASSUME NEW r \in Leitores, BuscarLive(r) PROVE Tipo'
  <2>1. PICK l \in EmAndamento(leitor[r].cabine) \cup {NULL} :
          leitor' = [leitor EXCEPT ![r] = [@ EXCEPT !.passo = "buscou", !.achada = l]]
    BY <1>5, UmDeTipo DEF BuscarLive, UmDe
  <2>2. [leitor[r] EXCEPT !.passo = "buscou", !.achada = l] \in LeitorRow
    BY DEF EmAndamento, TypeOK, LeitorRow
  <2>3. TypeOK'
    BY <1>5, <2>1, <2>2, Atualiza DEF BuscarLive, TypeOK
  <2>4. leitor[r].cabine \in Cabines
    BY <1>5 DEF BuscarLive, LeitorCoerente
  <2>5. /\ leitor'[r].cabine = leitor[r].cabine /\ leitor'[r].achada = l
        /\ \A q \in Leitores \ {r} : leitor'[q] = leitor[q]
    BY <2>1 DEF TypeOK, LeitorRow
  <2>6. LiveTemCabine' /\ LeitorCoerente' /\ ColetaCoerente'
    BY <1>5, <2>4, <2>5
        DEF BuscarLive, EmAndamento, LiveTemCabine, LeitorCoerente, ColetaCoerente
  <2> QED BY <2>3, <2>6
<1>6. ASSUME NEW r \in Leitores, CorrigirCabine(r) PROVE Tipo'
  <2>1. leitor[r].cabine \in Cabines
    BY <1>6 DEF CorrigirCabine, LeitorCoerente
  <2>2. [status |-> IF leitor[r].achada = NULL THEN "disponivel" ELSE "ao_vivo",
         contrato_id |-> cabines[leitor[r].cabine].contrato_id,
         live_atual_id |-> leitor[r].achada] \in CabineRow
    BY <2>1 DEF TypeOK, CabineRow, LeitorRow, CabineStatus
  <2>3. cabines' \in [Cabines -> CabineRow]
    BY <1>6, <2>2, Atualiza DEF CorrigirCabine, TypeOK
  <2>4. LeitorLivre \in LeitorRow
    BY DEF LeitorLivre, LeitorRow, CabineStatus
  <2>5. TypeOK'
    BY <1>6, <2>1, <2>3, <2>4, Atualiza DEF CorrigirCabine, Solta, TypeOK
  <2>6. LiveTemCabine' /\ LeitorCoerente' /\ ColetaCoerente'
    BY <1>6
        DEF CorrigirCabine, LeitorLivre, LiveTemCabine, LeitorCoerente, ColetaCoerente,
            TypeOK
  <2> QED BY <2>5, <2>6
<1> QED BY <1>1, <1>2, <1>3, <1>4, <1>5, <1>6 DEF CabineStep

LEMMA TipoColeta == ASSUME Tipo, ColetaStep PROVE Tipo'
<1> USE DEF Tipo
<1>1. ASSUME NEW t \in Coletas, EscolherLive(t) PROVE Tipo'
  <2>1. PICK l \in Lives :
          /\ lives[l].status = "em_andamento"
          /\ coleta' = [coleta EXCEPT ![t] = [passo |-> "escolheu", live |-> l]]
    BY <1>1 DEF EscolherLive
  <2>2. coleta' \in [Coletas -> ColetaRow]
    BY <2>1, Atualiza DEF TypeOK, ColetaRow
  <2>3. TypeOK' /\ LiveTemCabine' /\ LeitorCoerente'
    BY <1>1, <2>2 DEF EscolherLive, TypeOK, LiveTemCabine, LeitorCoerente
  <2>4. ColetaCoerente'
    BY <1>1, <2>1 DEF EscolherLive, ColetaCoerente, TypeOK
  <2> QED BY <2>3, <2>4
<1>2. ASSUME NEW t \in Coletas, FinalizarLive(t) PROVE Tipo'
  <2>1. PICK l \in Lives : l = coleta[t].live /\ lives[l].status # "ausente"
    BY <1>2 DEF FinalizarLive, ColetaCoerente
  <2>2. lives' = IF lives[l].status = "excluida"
                 THEN lives ELSE [lives EXCEPT ![l].status = "encerrada"]
    BY <1>2, <2>1 DEF FinalizarLive
  <2>3. [lives[l] EXCEPT !.status = "encerrada"] \in LiveRow
    BY DEF TypeOK, LiveRow, LiveStatus
  <2>4. lives' \in [Lives -> LiveRow]
    BY <2>2, <2>3, Atualiza DEF TypeOK
  <2>5. /\ lives'[l].status \in {"encerrada", "excluida"}
        /\ lives'[l].cabine_id = lives[l].cabine_id
        /\ \A m \in Lives \ {l} : lives'[m] = lives[m]
    BY <2>2 DEF TypeOK, LiveRow
  <2>6. [coleta[t] EXCEPT !.passo = "finalizou"] \in ColetaRow
    BY DEF TypeOK, ColetaRow
  <2>7. coleta' \in [Coletas -> ColetaRow]
    BY <1>2, <2>6, Atualiza DEF FinalizarLive, TypeOK
  <2>8. TypeOK'
    BY <1>2, <2>4, <2>7 DEF FinalizarLive, TypeOK
  <2>9. LiveTemCabine' /\ LeitorCoerente'
    BY <1>2, <2>5 DEF FinalizarLive, LiveTemCabine, LeitorCoerente, TypeOK, LeitorRow
  <2>10. /\ coleta'[t].live = l
         /\ \A u \in Coletas \ {t} : coleta'[u] = coleta[u]
    BY <1>2, <2>1 DEF FinalizarLive, TypeOK, ColetaRow
  <2>11. ColetaCoerente'
    BY <2>5, <2>10 DEF ColetaCoerente
  <2> QED BY <2>8, <2>9, <2>11
<1>3. ASSUME NEW t \in Coletas, DesvincularCabine(t) PROVE Tipo'
  <2>1. \A c \in Cabines :
          [cabines[c] EXCEPT !.status = "disponivel", !.live_atual_id = NULL] \in CabineRow
    BY DEF TypeOK, CabineRow, CabineStatus
  <2>2. cabines' \in [Cabines -> CabineRow]
    BY <1>3, <2>1 DEF DesvincularCabine, TypeOK
  <2>3. coleta' \in [Coletas -> ColetaRow]
    BY <1>3, Atualiza DEF DesvincularCabine, ColetaLivre, ColetaRow, TypeOK
  <2>4. TypeOK' /\ LiveTemCabine' /\ LeitorCoerente'
    BY <1>3, <2>2, <2>3 DEF DesvincularCabine, TypeOK, LiveTemCabine, LeitorCoerente
  <2>5. ColetaCoerente'
    BY <1>3 DEF DesvincularCabine, ColetaLivre, ColetaCoerente, TypeOK
  <2> QED BY <2>4, <2>5
<1> QED BY <1>1, <1>2, <1>3 DEF ColetaStep

LEMMA TipoResto ==
  ASSUME Tipo, ContratoStep \/ SolicitacaoStep \/ AgendaStep \/ UNCHANGED vars
  PROVE  Tipo'
<1> USE DEF Tipo
<1>1. ASSUME NEW k \in Contratos, AtivarContrato(k) PROVE Tipo'
  BY <1>1 DEF AtivarContrato, TypeOK, LiveTemCabine, LeitorCoerente, ColetaCoerente
<1>2. ASSUME NEW k \in Contratos, DesativarContrato(k) PROVE Tipo'
  <2>1. [status |-> "disponivel", contrato_id |-> NULL, live_atual_id |-> NULL] \in CabineRow
    BY DEF CabineRow, CabineStatus
  <2>2. TypeOK' /\ LiveTemCabine' /\ LeitorCoerente' /\ ColetaCoerente'
    BY <1>2, <2>1 DEF DesativarContrato, TypeOK, LiveTemCabine, LeitorCoerente, ColetaCoerente
  <2> QED BY <2>2
<1>3. ASSUME NEW p \in Pedidos, CriarSolicitacao(p) PROVE Tipo'
  BY <1>3 DEF CriarSolicitacao, TypeOK, LiveTemCabine, LeitorCoerente, ColetaCoerente
<1>4. ASSUME NEW x \in Aprovadores, NEW p \in Pedidos, LerAprovacao(x, p) PROVE Tipo'
  <2>1. PICK k \in AtivosDe(p.cliente_id) :
          aprovacao' = [aprovacao EXCEPT ![x] = [pedido |-> p, contrato |-> k]]
    BY <1>4 DEF LerAprovacao
  <2>2. [pedido |-> p, contrato |-> k] \in AprovacaoRow
    BY AtivosTipo DEF AprovacaoRow
  <2>3. aprovacao' \in [Aprovadores -> AprovacaoRow]
    BY <2>1, <2>2, Atualiza DEF TypeOK
  <2> QED BY <1>4, <2>3 DEF LerAprovacao, TypeOK, LiveTemCabine, LeitorCoerente, ColetaCoerente
<1>5. ASSUME NEW x \in Aprovadores, GravarAprovacao(x) PROVE Tipo'
  <2> DEFINE c == aprovacao[x].pedido.cabine_id
  <2>1. aprovacao[x] \in AprovacaoRow /\ aprovacao[x].pedido \in Pedidos
    BY <1>5 DEF GravarAprovacao, TypeOK, AprovacaoRow
  <2>2. c \in Cabines
    BY <2>1, ConstantesAssumption
  <2>3. [cabines[c] EXCEPT !.status = "reservada",
                           !.contrato_id = aprovacao[x].contrato] \in CabineRow
    <3>1. cabines[c] \in CabineRow /\ aprovacao[x].contrato \in Contratos \cup {NULL}
      BY <2>1, <2>2 DEF TypeOK, AprovacaoRow
    <3> HIDE DEF c
    <3> QED BY <3>1 DEF CabineRow, CabineStatus
  <2>4. cabines' \in [Cabines -> CabineRow]
    BY <1>5, <2>3, Atualiza DEF GravarAprovacao, TypeOK
  <2>5. SemAprovacao \in AprovacaoRow
    BY DEF SemAprovacao, AprovacaoRow
  <2>6. aprovacao' \in [Aprovadores -> AprovacaoRow]
    BY <1>5, <2>5, Atualiza DEF GravarAprovacao, TypeOK
  <2> QED BY <1>5, <2>1, <2>4, <2>6
         DEF GravarAprovacao, TypeOK, LiveTemCabine, LeitorCoerente, ColetaCoerente
<1>6. ASSUME NEW e \in Eventos, NEW c \in Cabines \cup {NULL},
             NEW cli \in Clientes \cup {NULL}, NEW s \in EventoStatus \ {"ausente"},
             NEW d \in Dias, CriarEvento(e, c, cli, s, d)
      PROVE  Tipo'
  <2>1. [status |-> s, cabine_id |-> c, cliente_id |-> cli, dia |-> d, live |-> NULL] \in EventoRow
    BY DEF EventoRow
  <2> QED BY <1>6, <2>1, Atualiza
         DEF CriarEvento, TypeOK, LiveTemCabine, LeitorCoerente, ColetaCoerente
<1>7. ASSUME NEW e \in Eventos, NEW c \in Cabines \cup {NULL},
             NEW cli \in Clientes \cup {NULL}, NEW s \in EventoStatus \ {"ausente"},
             NEW d \in Dias, EditarEvento(e, c, cli, s, d)
      PROVE  Tipo'
  <2>1. [status |-> s, cabine_id |-> c, cliente_id |-> cli, dia |-> d, live |-> NULL] \in EventoRow
    BY DEF EventoRow
  <2> QED BY <1>7, <2>1, Atualiza
         DEF EditarEvento, TypeOK, LiveTemCabine, LeitorCoerente, ColetaCoerente
<1>8. CASE PassarDia
  BY <1>8, ConstantesAssumption
      DEF PassarDia, TypeOK, Dias, LiveTemCabine, LeitorCoerente, ColetaCoerente
<1>9. CASE UNCHANGED vars
  BY <1>9 DEF vars, TypeOK, LiveTemCabine, LeitorCoerente, ColetaCoerente
<1> QED BY <1>1, <1>2, <1>3, <1>4, <1>5, <1>6, <1>7, <1>8, <1>9
        DEF ContratoStep, SolicitacaoStep, AgendaStep

(* Every reachable state is well typed. *)
THEOREM TypeCorrect == Spec => []TypeOK
<1>1. Init => Tipo
  BY TipoInit
<1>2. Tipo /\ [Next]_vars => Tipo'
  BY TipoLive, TipoCabine, TipoColeta, TipoResto DEF Next
<1>3. Tipo => TypeOK
  BY DEF Tipo
<1> QED BY <1>1, <1>2, <1>3, PTL DEF Spec

-----------------------------------------------------------------------------
(* The link of one cabine: the four properties of CabineLive about it, together. *)
Coerente(c) ==
  /\ cabines[c].live_atual_id # NULL =>
       /\ cabines[c].status = "ao_vivo"
       /\ lives[cabines[c].live_atual_id].status \in {"em_andamento", "encerrada"}
       /\ lives[cabines[c].live_atual_id].status = "em_andamento"
            => lives[cabines[c].live_atual_id].cabine_id = c
  /\ c \notin soltas => \A l \in Lives :
       lives[l].status = "em_andamento" /\ lives[l].cabine_id = c =>
         /\ cabines[c].live_atual_id = l
         /\ lives[l].contrato # NULL => cabines[c].contrato_id = lives[l].contrato

Ligacao == \A c \in Cabines : Coerente(c)

LEMMA LigacaoImplica ==
  ASSUME Tipo, Ligacao
  PROVE  LinkEstaAoVivo /\ LiveNaSuaCabine /\ LiveLigada /\ ContratoDaLivePreservado
<1> USE DEF Ligacao, Coerente
<1>1. LinkEstaAoVivo
  BY DEF LinkEstaAoVivo
<1>2. LiveNaSuaCabine
  BY ConstantesAssumption DEF LiveNaSuaCabine
<1>3. LiveLigada /\ ContratoDaLivePreservado
  BY DEF LiveLigada, ContratoDaLivePreservado, EmAndamento
<1> QED BY <1>1, <1>2, <1>3

(* A step that writes neither the lives nor this cabine leaves its link coherent. *)
LEMMA Quadro ==
  ASSUME NEW c \in Cabines, Coerente(c), lives' = lives, cabines'[c] = cabines[c],
         c \in soltas => c \in soltas'
  PROVE  Coerente(c)'
  BY DEF Coerente

(* A cabine without a link has no live in progress, unless it was let loose. *)
LEMMA SemLink ==
  ASSUME NEW c \in Cabines, Coerente(c), c \notin soltas, cabines[c].live_atual_id = NULL,
         NEW l \in Lives, lives[l].status = "em_andamento"
  PROVE  lives[l].cabine_id # c
  BY ConstantesAssumption DEF Coerente

(* A step that leaves a cabine without a link, when it had none or was let loose. *)
LEMMA QuadroSemLink ==
  ASSUME NEW c \in Cabines, Coerente(c), lives' = lives, cabines'[c].live_atual_id = NULL,
         c \in soltas => c \in soltas',
         c \notin soltas' => cabines[c].live_atual_id = NULL
  PROVE  Coerente(c)'
<1>1. c \notin soltas' => \A l \in Lives : lives[l].status = "em_andamento" => lives[l].cabine_id # c
  BY SemLink
<1> QED BY <1>1 DEF Coerente

LEMMA LigacaoInit == Init => Ligacao
<1> SUFFICES ASSUME Init, NEW c \in Cabines PROVE Coerente(c)
  BY DEF Ligacao
<1>1. cabines[c].live_atual_id = NULL
  BY DEF Init
<1>2. \A l \in Lives : lives[l].status = "ausente"
  BY DEF Init, LiveNova
<1> QED BY <1>1, <1>2 DEF Coerente

LEMMA LigacaoLive == ASSUME Tipo, Ligacao, LiveStep PROVE Ligacao'
<1> USE DEF Tipo, Ligacao
<1>1. ASSUME NEW c \in Cabines, NEW l \in Lives, NEW tipo \in Tipos,
             NEW pc \in Clientes \cup {NULL}, NEW pe \in Eventos \cup {NULL},
             IniciarLive(c, l, tipo, pc, pe), NEW d \in Cabines
      PROVE  Coerente(d)'
  <2>1. PICK cli \in Clientes \cup {NULL}, k \in Contratos \cup {NULL} : LigarLive(c, l, cli, k)
    BY <1>1, IniciarResolve
  <2>2. soltas' = soltas /\ lives[l].status = "ausente" /\ cabines[c].live_atual_id = NULL
    BY <1>1 DEF IniciarLive, AceitaLive
  <2>3. /\ lives'[l].status = "em_andamento" /\ lives'[l].cabine_id = c /\ lives'[l].contrato = k
        /\ \A m \in Lives \ {l} : lives'[m] = lives[m]
    BY <2>1 DEF LigarLive, TypeOK
  <2>4. /\ cabines'[c].live_atual_id = l /\ cabines'[c].status = "ao_vivo"
        /\ k # NULL => cabines'[c].contrato_id = k
        /\ d # c => cabines'[d] = cabines[d]
    BY <2>1 DEF LigarLive, TypeOK
  <2>5. CASE d = c
    <3>1. c \notin soltas => \A m \in Lives : lives[m].status = "em_andamento" => lives[m].cabine_id # c
      BY <2>2, SemLink
    <3> QED BY <2>2, <2>3, <2>4, <2>5, <3>1 DEF Coerente
  <2>6. CASE d # c
    <3>1. cabines[d].live_atual_id \in Lives \cup {NULL}
      BY DEF TypeOK, CabineRow
    <3>2. cabines[d].live_atual_id # l
      BY <2>2, ConstantesAssumption DEF Coerente
    <3> QED BY <2>2, <2>3, <2>4, <2>6, <3>1, <3>2 DEF Coerente
  <2> QED BY <2>5, <2>6
<1>2. ASSUME NEW l \in Lives, EncerrarLive(l), NEW d \in Cabines PROVE Coerente(d)'
  <2> DEFINE c == lives[l].cabine_id
  <2>1. soltas' = soltas /\ lives[l].status = "em_andamento" /\ c \in Cabines
    BY <1>2 DEF EncerrarLive, LiveTemCabine
  <2>2. /\ lives'[l].status = "encerrada"
        /\ \A m \in Lives : lives'[m].cabine_id = lives[m].cabine_id
                            /\ lives'[m].contrato = lives[m].contrato
        /\ \A m \in Lives \ {l} : lives'[m] = lives[m]
    BY <1>2 DEF EncerrarLive, TypeOK, LiveRow
  <2>3. cabines'[c].live_atual_id = NULL /\ (d # c => cabines'[d] = cabines[d])
    BY <1>2, <2>1 DEF EncerrarLive, DesligarCabine, TypeOK
  <2>4. CASE d = c
    <3>1. c \notin soltas => cabines[c].live_atual_id = l
      BY <2>1 DEF Coerente
    <3>2. c \notin soltas => \A m \in Lives \ {l} : lives[m].status = "em_andamento" => lives[m].cabine_id # c
      BY <2>1, <3>1 DEF Coerente
    <3>3. c \notin soltas' => \A m \in Lives : ~(lives'[m].status = "em_andamento" /\ lives'[m].cabine_id = c)
      BY <2>1, <2>2, <3>2
    <3> HIDE DEF c
    <3> QED BY <2>3, <2>4, <3>3 DEF Coerente
  <2>5. CASE d # c
    <3>1. cabines[d].live_atual_id \in Lives \cup {NULL}
      BY DEF TypeOK, CabineRow
    <3>2. Coerente(d)
      OBVIOUS
    <3> HIDE DEF c
    <3> QED BY <2>1, <2>2, <2>3, <2>5, <3>1, <3>2 DEF Coerente
  <2> QED BY <2>4, <2>5
<1>3. ASSUME NEW l \in Lives, NEW e \in Cabines, NEW cli \in Clientes \cup {NULL},
             CriarLiveManual(l, e, cli), NEW d \in Cabines
      PROVE  Coerente(d)'
  <2>1. /\ UNCHANGED <<cabines, soltas>> /\ lives[l].status = "ausente"
        /\ lives'[l].status = "encerrada" /\ \A m \in Lives \ {l} : lives'[m] = lives[m]
    BY <1>3 DEF CriarLiveManual, LiveNova, TypeOK
  <2>2. cabines[d].live_atual_id \in (Lives \ {l}) \cup {NULL}
    BY <2>1 DEF Coerente, TypeOK, CabineRow
  <2> QED BY <2>1, <2>2 DEF Coerente
<1>4. ASSUME NEW l \in Lives, NEW e \in Cabines, EditarLive(l, e), NEW d \in Cabines
      PROVE  Coerente(d)'
  <2>1. /\ UNCHANGED <<cabines, soltas>>
        /\ lives[l].status = "encerrada" /\ lives'[l].status = "encerrada"
        /\ \A m \in Lives \ {l} : lives'[m] = lives[m]
    BY <1>4 DEF EditarLive, TypeOK, LiveRow
  <2>2. cabines[d].live_atual_id \in Lives \cup {NULL}
    BY DEF TypeOK, CabineRow
  <2> QED BY <2>1, <2>2 DEF Coerente
<1>5. ASSUME NEW l \in Lives, ExcluirLive(l), NEW d \in Cabines PROVE Coerente(d)'
  <2>1. /\ soltas' = soltas /\ lives[l].status = "encerrada" /\ lives'[l].status = "excluida"
        /\ \A m \in Lives \ {l} : lives'[m] = lives[m]
    BY <1>5 DEF ExcluirLive, TypeOK, LiveRow
  <2>2. cabines[d].live_atual_id \in Lives \cup {NULL}
    BY DEF TypeOK, CabineRow
  <2>3. IF cabines[d].live_atual_id = l
        THEN cabines'[d].live_atual_id = NULL
        ELSE cabines'[d] = cabines[d]
    BY <1>5 DEF ExcluirLive, TypeOK, CabineRow
  <2> QED BY <2>1, <2>2, <2>3 DEF Coerente
<1> QED BY <1>1, <1>2, <1>3, <1>4, <1>5 DEF LiveStep

LEMMA LigacaoCabine == ASSUME Tipo, Ligacao, CabineStep PROVE Ligacao'
<1> USE DEF Tipo, Ligacao
<1>1. ASSUME NEW c \in Cabines, NEW k \in Contratos \cup {NULL},
             NEW cli \in Clientes \cup {NULL}, ReservarCabine(c, k, cli), NEW d \in Cabines
      PROVE  Coerente(d)'
  <2>1. /\ lives' = lives /\ soltas' = soltas /\ cabines[c].live_atual_id = NULL
        /\ cabines'[c].live_atual_id = NULL /\ (d # c => cabines'[d] = cabines[d])
    BY <1>1 DEF ReservarCabine, TypeOK
  <2> QED BY <2>1, Quadro, QuadroSemLink
<1>2. ASSUME NEW c \in Cabines, LiberarCabine(c), NEW d \in Cabines PROVE Coerente(d)'
  <2>1. /\ lives' = lives /\ soltas' = Solta(c) /\ soltas \subseteq soltas'
        /\ cabines'[c].live_atual_id = NULL /\ (d # c => cabines'[d] = cabines[d])
    BY <1>2 DEF LiberarCabine, Solta, TypeOK
  <2>2. c \notin soltas' => \A l \in Lives :
          ~(lives[l].status = "em_andamento" /\ lives[l].cabine_id = c)
    BY <2>1 DEF Coerente, Solta, EmAndamento
  <2>3. Coerente(c)'
    BY <2>1, <2>2 DEF Coerente
  <2> QED BY <2>1, <2>3, Quadro
<1>3. ASSUME NEW c \in Cabines, NEW s \in {"disponivel", "manutencao"}, MudarStatus(c, s),
             NEW d \in Cabines
      PROVE  Coerente(d)'
  <2>1. /\ lives' = lives /\ soltas' = soltas /\ cabines[c].live_atual_id = NULL
        /\ cabines'[c].live_atual_id = NULL /\ (d # c => cabines'[d] = cabines[d])
    BY <1>3 DEF MudarStatus, TypeOK, CabineRow
  <2> QED BY <2>1, Quadro, QuadroSemLink
<1>4. ASSUME NEW r \in Leitores, NEW c \in Cabines, LerCabine(r, c) \/ BuscarLive(r)
      PROVE  Ligacao'
  BY <1>4, Quadro DEF LerCabine, BuscarLive
<1>5. ASSUME NEW r \in Leitores, CorrigirCabine(r), NEW d \in Cabines PROVE Coerente(d)'
  <2>0. PICK c \in Cabines, l \in Lives \cup {NULL} :
          c = leitor[r].cabine /\ l = leitor[r].achada
    BY <1>5 DEF CorrigirCabine, LeitorCoerente, TypeOK, LeitorRow
  <2>1. lives' = lives /\ soltas \subseteq soltas'
    BY <1>5 DEF CorrigirCabine, Solta
  <2>2. CASE UNCHANGED <<cabines, soltas>>
    BY <2>1, <2>2, Quadro
  <2>3. CASE ~UNCHANGED <<cabines, soltas>>
    <3>1. /\ cabines' = [cabines EXCEPT
                           ![c] = [status |-> IF l = NULL THEN "disponivel" ELSE "ao_vivo",
                                   contrato_id |-> @.contrato_id, live_atual_id |-> l]]
          /\ soltas' = IF cabines[c].live_atual_id = l THEN soltas ELSE Solta(c)
          /\ l # NULL => lives[l].status # "excluida"
      BY <1>5, <2>0, <2>3 DEF CorrigirCabine
    <3>2. /\ cabines'[c].live_atual_id = l /\ cabines'[c].contrato_id = cabines[c].contrato_id
          /\ l # NULL => cabines'[c].status = "ao_vivo"
          /\ d # c => cabines'[d] = cabines[d]
      BY <2>1, <3>1 DEF TypeOK
    <3>3. l # NULL => /\ lives[l].status \in {"em_andamento", "encerrada"}
                      /\ lives[l].status = "em_andamento" => lives[l].cabine_id = c
      BY <1>5, <2>0, <3>1 DEF CorrigirCabine, LeitorCoerente, TypeOK, LiveRow, LiveStatus
    <3>4. c \notin soltas' => \A m \in Lives :
            lives[m].status = "em_andamento" /\ lives[m].cabine_id = c =>
              l = m /\ (lives[m].contrato # NULL => cabines[c].contrato_id = lives[m].contrato)
      BY <2>1, <3>1 DEF Coerente, Solta, EmAndamento
    <3>5. Coerente(c)'
      BY <2>1, <3>2, <3>3, <3>4 DEF Coerente
    <3> QED BY <2>1, <3>2, <3>5, Quadro
  <2> QED BY <2>2, <2>3
<1> QED BY <1>1, <1>2, <1>3, <1>4, <1>5 DEF CabineStep

LEMMA LigacaoColeta == ASSUME Tipo, Ligacao, ColetaStep PROVE Ligacao'
<1> USE DEF Tipo, Ligacao
<1>1. ASSUME NEW t \in Coletas, EscolherLive(t) PROVE Ligacao'
  BY <1>1, Quadro DEF EscolherLive
<1>2. ASSUME NEW t \in Coletas, FinalizarLive(t), NEW d \in Cabines PROVE Coerente(d)'
  <2>1. PICK l \in Lives : l = coleta[t].live /\ lives[l].status # "ausente"
    BY <1>2 DEF FinalizarLive, ColetaCoerente
  <2>2. UNCHANGED <<cabines, soltas>>
    BY <1>2 DEF FinalizarLive
  <2>3. CASE lives[l].status = "excluida"
    BY <1>2, <2>1, <2>2, <2>3, Quadro DEF FinalizarLive
  <2>4. CASE lives[l].status # "excluida"
    <3>1. lives' = [lives EXCEPT ![l].status = "encerrada"]
      BY <1>2, <2>1, <2>4 DEF FinalizarLive
    <3>2. lives'[l].status = "encerrada" /\ \A m \in Lives \ {l} : lives'[m] = lives[m]
      BY <3>1 DEF TypeOK, LiveRow
    <3>3. cabines[d].live_atual_id \in Lives \cup {NULL}
      BY DEF TypeOK, CabineRow
    <3> QED BY <2>2, <3>2, <3>3 DEF Coerente
  <2> QED BY <2>3, <2>4
<1>3. ASSUME NEW t \in Coletas, DesvincularCabine(t), NEW d \in Cabines PROVE Coerente(d)'
  <2>1. PICK l \in Lives : l = coleta[t].live /\ lives[l].status # "em_andamento"
    BY <1>3 DEF DesvincularCabine, ColetaCoerente
  <2>2. lives' = lives /\ soltas' = soltas
    BY <1>3 DEF DesvincularCabine
  <2>3. CASE cabines[d].live_atual_id = l
    <3>1. cabines'[d].live_atual_id = NULL
      BY <1>3, <2>1, <2>3 DEF DesvincularCabine, Mostra, TypeOK, CabineRow
    <3>2. d \notin soltas => \A m \in Lives :
            lives[m].status = "em_andamento" => lives[m].cabine_id # d
      BY <2>1, <2>3 DEF Coerente
    <3> QED BY <2>2, <3>1, <3>2 DEF Coerente
  <2>4. CASE cabines[d].live_atual_id # l
    <3>1. cabines'[d] = cabines[d]
      BY <1>3, <2>1, <2>4 DEF DesvincularCabine, Mostra
    <3> QED BY <2>2, <3>1, Quadro
  <2> QED BY <2>3, <2>4
<1> QED BY <1>1, <1>2, <1>3 DEF ColetaStep

LEMMA LigacaoResto ==
  ASSUME Tipo, Ligacao, ContratoStep \/ SolicitacaoStep \/ AgendaStep \/ UNCHANGED vars
  PROVE  Ligacao'
<1> USE DEF Tipo, Ligacao
<1>1. ASSUME NEW k \in Contratos, DesativarContrato(k), NEW d \in Cabines PROVE Coerente(d)'
  <2>1. lives' = lives /\ soltas' = soltas
    BY <1>1 DEF DesativarContrato
  <2>2. CASE LiberadaPeloTrigger(d, k)
    <3>1. cabines[d].live_atual_id = NULL
      BY <2>2 DEF LiberadaPeloTrigger, Coerente
    <3>2. cabines'[d].live_atual_id = NULL
      BY <1>1, <2>2 DEF DesativarContrato
    <3> QED BY <2>1, <3>1, <3>2, QuadroSemLink
  <2>3. CASE ~LiberadaPeloTrigger(d, k)
    <3>1. cabines'[d] = cabines[d]
      BY <1>1, <2>3 DEF DesativarContrato
    <3> QED BY <2>1, <3>1, Quadro
  <2> QED BY <2>2, <2>3
<1>2. ASSUME NEW x \in Aprovadores, GravarAprovacao(x), NEW d \in Cabines PROVE Coerente(d)'
  <2> DEFINE c == aprovacao[x].pedido.cabine_id
  <2>1. c \in Cabines /\ lives' = lives /\ soltas' = soltas
    BY <1>2, ConstantesAssumption DEF GravarAprovacao, TypeOK, AprovacaoRow
  <2>2. CASE cabines[c].status = "disponivel"
    <3>1. cabines' = [cabines EXCEPT ![c] = [@ EXCEPT !.status = "reservada",
                                                      !.contrato_id = aprovacao[x].contrato]]
      BY <1>2, <2>2 DEF GravarAprovacao
    <3>2. cabines[c].live_atual_id = NULL
      BY <2>1, <2>2 DEF Coerente
    <3>3. cabines'[c].live_atual_id = NULL /\ (d # c => cabines'[d] = cabines[d])
      <4> HIDE DEF c
      <4> QED BY <2>1, <3>1, <3>2 DEF TypeOK, CabineRow
    <3> QED BY <2>1, <3>2, <3>3, Quadro, QuadroSemLink
  <2>3. CASE cabines[c].status # "disponivel"
    BY <1>2, <2>1, <2>3, Quadro DEF GravarAprovacao
  <2> QED BY <2>2, <2>3
<1>3. CASE UNCHANGED <<cabines, lives, soltas>>
  BY <1>3, Quadro
<1>4. ASSUME NEW k \in Contratos, AtivarContrato(k) PROVE UNCHANGED <<cabines, lives, soltas>>
  BY <1>4 DEF AtivarContrato
<1>5. ASSUME NEW p \in Pedidos, CriarSolicitacao(p) PROVE UNCHANGED <<cabines, lives, soltas>>
  BY <1>5 DEF CriarSolicitacao
<1>6. ASSUME NEW x \in Aprovadores, NEW p \in Pedidos, LerAprovacao(x, p)
      PROVE  UNCHANGED <<cabines, lives, soltas>>
  BY <1>6 DEF LerAprovacao
<1>7. ASSUME AgendaStep \/ UNCHANGED vars PROVE UNCHANGED <<cabines, lives, soltas>>
  BY <1>7 DEF AgendaStep, CriarEvento, EditarEvento, PassarDia, vars
<1> QED BY <1>1, <1>2, <1>3, <1>4, <1>5, <1>6, <1>7 DEF ContratoStep, SolicitacaoStep

LEMMA Inductive == Spec => [](Tipo /\ Ligacao)
<1>1. Init => Tipo /\ Ligacao
  BY TipoInit, LigacaoInit
<1>2. (Tipo /\ Ligacao) /\ [Next]_vars => (Tipo /\ Ligacao)'
  <2> SUFFICES ASSUME Tipo, Ligacao, [Next]_vars PROVE Tipo' /\ Ligacao'
    OBVIOUS
  <2>1. CASE LiveStep
    BY <2>1, TipoLive, LigacaoLive
  <2>2. CASE CabineStep
    BY <2>2, TipoCabine, LigacaoCabine
  <2>3. CASE ColetaStep
    BY <2>3, TipoColeta, LigacaoColeta
  <2>4. CASE ContratoStep \/ SolicitacaoStep \/ AgendaStep \/ UNCHANGED vars
    BY <2>4, TipoResto, LigacaoResto
  <2> QED BY <2>1, <2>2, <2>3, <2>4 DEF Next
<1> QED BY <1>1, <1>2, PTL DEF Spec

(* Whatever handlers run, a live in progress is the one its cabine points to, and the *)
(* cabine keeps the contract the live was started with, unless the cabine was         *)
(* released on the air or repaired by a stale live-atual.                             *)
THEOREM LiveLigadaCorrect == Spec => [](LiveLigada /\ ContratoDaLivePreservado)
<1>1. Tipo /\ Ligacao => LiveLigada /\ ContratoDaLivePreservado
  BY LigacaoImplica
<1> QED BY <1>1, Inductive, PTL

(* No handler leaves a cabine linked to a live of another cabine, or linked at all *)
(* when it can be reserved or put in maintenance.                                  *)
THEOREM LinkCorrect == Spec => [](LinkEstaAoVivo /\ LiveNaSuaCabine)
<1>1. Tipo /\ Ligacao => LinkEstaAoVivo /\ LiveNaSuaCabine
  BY LigacaoImplica
<1> QED BY <1>1, Inductive, PTL

(* While a live runs, its cabine is shown with the contract its start resolved, whatever *)
(* approvals, reservations and changes of contracts come in between.                     *)
THEOREM ContratoPreservadoCorrect == Spec => []ContratoDaLivePreservado
<1>1. Tipo /\ Ligacao => ContratoDaLivePreservado
  BY LigacaoImplica
<1> QED BY <1>1, Inductive, PTL

(* Of two cabines none is linked to the live that runs in the other. *)
THEOREM LiveNaSuaCabineCorrect == Spec => []LiveNaSuaCabine
<1>1. Tipo /\ Ligacao => LiveNaSuaCabine
  BY LigacaoImplica
<1> QED BY <1>1, Inductive, PTL

-----------------------------------------------------------------------------
(* Only its own encerrar ends a live in progress, or a poll, which leaves the cabines as *)
(* they were.                                                                            *)
LEMMA SoEncerrarEncerra ==
  ASSUME Tipo, Next, NEW l \in Lives,
         lives[l].status = "em_andamento", lives'[l].status = "encerrada"
  PROVE  EncerrarLive(l) \/ cabines' = cabines
<1> USE DEF Tipo
<1>1. ASSUME NEW c \in Cabines, NEW m \in Lives, NEW tipo \in Tipos,
             NEW pc \in Clientes \cup {NULL}, NEW pe \in Eventos \cup {NULL},
             IniciarLive(c, m, tipo, pc, pe)
      PROVE  FALSE
  <2>1. PICK cli \in Clientes \cup {NULL}, k \in Contratos \cup {NULL} : LigarLive(c, m, cli, k)
    BY <1>1, IniciarResolve
  <2>2. m # l
    BY <1>1 DEF IniciarLive
  <2> QED BY <2>1, <2>2 DEF LigarLive, TypeOK
<1>2. ASSUME NEW m \in Lives, EncerrarLive(m) PROVE EncerrarLive(l)
  BY <1>2 DEF EncerrarLive, TypeOK
<1>3. ASSUME NEW m \in Lives, NEW c \in Cabines, NEW cli \in Clientes \cup {NULL},
             CriarLiveManual(m, c, cli) \/ EditarLive(m, c)
      PROVE  FALSE
  BY <1>3 DEF CriarLiveManual, EditarLive, TypeOK
<1>4. ASSUME NEW m \in Lives, ExcluirLive(m) PROVE FALSE
  BY <1>4 DEF ExcluirLive, TypeOK
<1>5. ASSUME lives' = lives PROVE FALSE
  BY <1>5
<1>6. CabineStep \/ ContratoStep \/ SolicitacaoStep \/ AgendaStep => lives' = lives
  BY DEF CabineStep, ReservarCabine, LiberarCabine, MudarStatus, LerCabine, BuscarLive,
         CorrigirCabine, ContratoStep, AtivarContrato, DesativarContrato, SolicitacaoStep,
         CriarSolicitacao, LerAprovacao, GravarAprovacao, AgendaStep, CriarEvento,
         EditarEvento, PassarDia
<1>7. CASE LiveStep
  BY <1>1, <1>2, <1>3, <1>4, <1>7 DEF LiveStep
<1>8. CASE ColetaStep
  BY <1>5, <1>8 DEF ColetaStep, EscolherLive, FinalizarLive, DesvincularCabine
<1> QED BY <1>5, <1>6, <1>7, <1>8 DEF Next

(* The hours of a live go to the contract its start resolved, whatever reservations, *)
(* approvals, contract changes and repairs came in between.                          *)
THEOREM HorasCorrect == Spec => HorasDoContratoInicial
<1> DEFINE Passo == \A l \in Lives :
              /\ lives[l].status = "em_andamento" /\ lives'[l].status = "encerrada"
              /\ cabines'[lives[l].cabine_id].live_atual_id = NULL
              /\ lives[l].cabine_id \notin soltas /\ lives[l].contrato # NULL
              => horas'[l] = lives[l].contrato
<1>1. Tipo /\ Ligacao /\ [Next]_vars => [Passo]_vars
  <2> SUFFICES ASSUME Tipo, Ligacao, Next, NEW l \in Lives,
                      lives[l].status = "em_andamento", lives'[l].status = "encerrada",
                      cabines'[lives[l].cabine_id].live_atual_id = NULL,
                      lives[l].cabine_id \notin soltas, lives[l].contrato # NULL
               PROVE  horas'[l] = lives[l].contrato
    BY DEF vars
  <2>1. lives[l].cabine_id \in Cabines
    BY DEF Tipo, LiveTemCabine
  <2>2. /\ cabines[lives[l].cabine_id].live_atual_id = l
        /\ cabines[lives[l].cabine_id].contrato_id = lives[l].contrato
    BY <2>1 DEF Ligacao, Coerente
  <2>3. EncerrarLive(l)
    BY <2>2, SoEncerrarEncerra, ConstantesAssumption
  <2> QED BY <2>2, <2>3 DEF EncerrarLive, Tipo, TypeOK
<1> QED BY <1>1, Inductive, PTL DEF Spec, HorasDoContratoInicial

(* An event on the air stays so until the live that put it there ends, or a user edits *)
(* it, however many other lives of the day start and end.                              *)
THEOREM EventoCorrect == Spec => EventoSegueSuaLive
<1> DEFINE Passo == \A e \in Eventos : \A l \in Lives :
              /\ agenda[e].status = "ao_vivo" /\ agenda[e].live = l
              /\ lives[l].status = "em_andamento" /\ agenda[e].cabine_id = lives[l].cabine_id
              /\ lives[l].cabine_id \notin soltas
              /\ agenda'[e].status # "ao_vivo" /\ agenda'[e].live = l
              => lives'[l].status = "encerrada"
<1>1. Tipo /\ Ligacao /\ [Next]_vars => [Passo]_vars
  <2> SUFFICES ASSUME Tipo, Ligacao, Next, NEW e \in Eventos, NEW l \in Lives,
                      agenda[e].status = "ao_vivo", agenda[e].live = l,
                      lives[l].status = "em_andamento",
                      agenda[e].cabine_id = lives[l].cabine_id,
                      lives[l].cabine_id \notin soltas,
                      agenda'[e].status # "ao_vivo", agenda'[e].live = l
               PROVE  lives'[l].status = "encerrada"
    BY DEF vars
  <2> USE DEF Tipo
  <2>1. ASSUME NEW c \in Cabines, NEW m \in Lives, NEW tipo \in Tipos,
               NEW pc \in Clientes \cup {NULL}, NEW pe \in Eventos \cup {NULL},
               IniciarLive(c, m, tipo, pc, pe)
        PROVE  FALSE
    <3>1. PICK x \in Eventos \cup {NULL}, cli \in Clientes \cup {NULL} : MarcarEvento(c, m, x, cli)
      BY <2>1, IniciarResolve
    <3>2. CASE x # NULL
      BY <3>1, <3>2 DEF MarcarEvento, TypeOK, EventoRow
    <3>3. CASE x = NULL
      BY <3>1, <3>3 DEF MarcarEvento, TypeOK
    <3> QED BY <3>2, <3>3
  <2>2. ASSUME NEW m \in Lives, EncerrarLive(m) PROVE lives'[l].status = "encerrada"
    <3>1. lives[m].status = "em_andamento" /\ lives[m].cabine_id = lives[l].cabine_id
      BY <2>2 DEF EncerrarLive, ConcluirEventos, TypeOK
    <3>2. m = l
      BY <3>1 DEF Ligacao, Coerente, LiveTemCabine
    <3> QED BY <2>2, <3>2 DEF EncerrarLive, TypeOK, LiveRow
  <2>3. ASSUME NEW x \in Eventos, NEW c \in Cabines \cup {NULL},
               NEW cli \in Clientes \cup {NULL}, NEW s \in EventoStatus \ {"ausente"},
               NEW d \in Dias, CriarEvento(x, c, cli, s, d)
        PROVE  FALSE
    BY <2>3 DEF CriarEvento, TypeOK
  <2>4. ASSUME NEW x \in Eventos, NEW c \in Cabines \cup {NULL},
               NEW cli \in Clientes \cup {NULL}, NEW s \in EventoStatus \ {"ausente"},
               NEW d \in Dias, EditarEvento(x, c, cli, s, d)
        PROVE  FALSE
    BY <2>4, ConstantesAssumption DEF EditarEvento, TypeOK, EventoRow
  <2>5. ASSUME agenda' = agenda PROVE FALSE
    BY <2>5
  <2>6. CASE LiveStep
    <3>1. ASSUME NEW m \in Lives, NEW c \in Cabines, NEW cli \in Clientes \cup {NULL},
                 CriarLiveManual(m, c, cli) \/ EditarLive(m, c)
          PROVE  agenda' = agenda
      BY <3>1 DEF CriarLiveManual, EditarLive
    <3>2. ASSUME NEW m \in Lives, ExcluirLive(m) PROVE agenda' = agenda
      BY <3>2 DEF ExcluirLive
    <3> QED BY <2>1, <2>2, <2>5, <2>6, <3>1, <3>2 DEF LiveStep
  <2>7. CabineStep \/ ColetaStep \/ ContratoStep \/ SolicitacaoStep \/ PassarDia
          => agenda' = agenda
    BY
        DEF ColetaStep, EscolherLive, FinalizarLive, DesvincularCabine, CabineStep,
            ReservarCabine, LiberarCabine, MudarStatus, LerCabine, BuscarLive,
           CorrigirCabine, ContratoStep, AtivarContrato, DesativarContrato, SolicitacaoStep,
           CriarSolicitacao, LerAprovacao, GravarAprovacao, PassarDia
  <2> QED BY <2>3, <2>4, <2>5, <2>6, <2>7 DEF Next, AgendaStep
<1> QED BY <1>1, Inductive, PTL DEF Spec, EventoSegueSuaLive

(* The approval that makes a reservation, named by what it had read. *)
Aprovou(c) ==
  \E a \in Aprovadores :
    /\ aprovacao[a].pedido # NULL /\ aprovacao[a].pedido.cabine_id = c
    /\ aprovacao[a].contrato = cabines'[c].contrato_id
    /\ aprovacao'[a] = SemAprovacao

(* No order of contract changes, reservations, lives, polls and repairs leaves a cabine *)
(* reserved for a contract that is no longer active: it takes an approval in flight.    *)
THEOREM ReservaCorrect == Spec => ReservaInativaSoPorAprovacao
<1> DEFINE Passo == \A c \in Cabines : ReservaInativa(c)' /\ ~ReservaInativa(c) => Aprovou(c)
<1>1. Tipo /\ [Next]_vars => Passo
  <2> SUFFICES ASSUME Tipo, [Next]_vars, NEW d \in Cabines, ~ReservaInativa(d),
                      cabines'[d].status = "reservada", cabines'[d].contrato_id # NULL
               PROVE  cabines'[d].contrato_id \in ativos' \/ Aprovou(d)
    BY DEF ReservaInativa
  <2> USE DEF Tipo
  <2>1. ASSUME UNCHANGED ativos, cabines'[d].status = cabines[d].status,
               cabines'[d].contrato_id = cabines[d].contrato_id
        PROVE  cabines'[d].contrato_id \in ativos' \/ Aprovou(d)
    BY <2>1 DEF ReservaInativa
  <2>2. ASSUME NEW c \in Cabines, NEW l \in Lives, NEW tipo \in Tipos,
               NEW pc \in Clientes \cup {NULL}, NEW pe \in Eventos \cup {NULL},
               IniciarLive(c, l, tipo, pc, pe)
        PROVE  cabines'[d].contrato_id \in ativos' \/ Aprovou(d)
    <3>1. PICK cli \in Clientes \cup {NULL}, k \in Contratos \cup {NULL} : LigarLive(c, l, cli, k)
      BY <2>2, IniciarResolve
    <3>2. d # c /\ cabines'[d] = cabines[d]
      BY <3>1 DEF LigarLive, TypeOK
    <3>3. ativos' = ativos
      BY <2>2 DEF IniciarLive
    <3> QED BY <2>1, <3>2, <3>3
  <2>3. ASSUME NEW l \in Lives, EncerrarLive(l) PROVE cabines'[d].contrato_id \in ativos' \/ Aprovou(d)
    <3>1. cabines'[d] = cabines[d]
      BY <2>3 DEF EncerrarLive, DesligarCabine, TypeOK
    <3> QED BY <2>1, <2>3, <3>1 DEF EncerrarLive
  <2>4. ASSUME NEW l \in Lives, ExcluirLive(l) PROVE cabines'[d].contrato_id \in ativos' \/ Aprovou(d)
    BY <2>1, <2>4 DEF ExcluirLive, TypeOK, CabineRow
  <2>5. ASSUME NEW c \in Cabines, NEW k \in Contratos \cup {NULL},
               NEW cli \in Clientes \cup {NULL}, ReservarCabine(c, k, cli)
        PROVE  cabines'[d].contrato_id \in ativos' \/ Aprovou(d)
    <3>1. PICK escolhido \in IF k # NULL THEN {k} ELSE UmDe(AtivosDe(cli)) :
            cabines' = [cabines EXCEPT
                          ![c] = [status |-> "reservada", live_atual_id |-> NULL,
                                  contrato_id |-> IF ContratoLivre(escolhido, c)
                                                  THEN escolhido ELSE NULL]]
      BY <2>5 DEF ReservarCabine
    <3>2. escolhido \in ativos \cup {NULL}
      BY <2>5, <3>1 DEF ReservarCabine, UmDe, AtivosDe
    <3>3. ativos' = ativos
      BY <2>5 DEF ReservarCabine
    <3>4. CASE d = c
      BY <3>1, <3>2, <3>3, <3>4 DEF TypeOK
    <3>5. CASE d # c
      BY <2>1, <3>1, <3>3, <3>5 DEF TypeOK
    <3> QED BY <3>4, <3>5
  <2>6. ASSUME NEW c \in Cabines, LiberarCabine(c) PROVE cabines'[d].contrato_id \in ativos' \/ Aprovou(d)
    BY <2>1, <2>6 DEF LiberarCabine, TypeOK
  <2>7. ASSUME NEW c \in Cabines, NEW s \in {"disponivel", "manutencao"}, MudarStatus(c, s)
        PROVE  cabines'[d].contrato_id \in ativos' \/ Aprovou(d)
    BY <2>1, <2>7 DEF MudarStatus, TypeOK, CabineRow
  <2>8. ASSUME NEW r \in Leitores, CorrigirCabine(r) PROVE cabines'[d].contrato_id \in ativos' \/ Aprovou(d)
    BY <2>1, <2>8 DEF CorrigirCabine, TypeOK
  <2>9. ASSUME NEW k \in Contratos, AtivarContrato(k) PROVE cabines'[d].contrato_id \in ativos' \/ Aprovou(d)
    BY <2>9 DEF AtivarContrato, ReservaInativa
  <2>10. ASSUME NEW k \in Contratos, DesativarContrato(k) PROVE cabines'[d].contrato_id \in ativos' \/ Aprovou(d)
    <3>1. cabines'[d] = cabines[d] /\ cabines[d].contrato_id # k
      BY <2>10 DEF DesativarContrato, LiberadaPeloTrigger
    <3> QED BY <2>10, <3>1 DEF DesativarContrato, ReservaInativa
  <2>11. ASSUME UNCHANGED <<cabines, ativos>> PROVE cabines'[d].contrato_id \in ativos' \/ Aprovou(d)
    BY <2>1, <2>11
  <2>12. CASE LiveStep
    <3>1. ASSUME NEW l \in Lives, NEW c \in Cabines, NEW cli \in Clientes \cup {NULL},
                 CriarLiveManual(l, c, cli) \/ EditarLive(l, c)
          PROVE  UNCHANGED <<cabines, ativos>>
      BY <3>1 DEF CriarLiveManual, EditarLive
    <3> QED BY <2>2, <2>3, <2>4, <2>11, <2>12, <3>1 DEF LiveStep
  <2>13. CASE CabineStep
    <3>1. ASSUME NEW r \in Leitores, NEW c \in Cabines, LerCabine(r, c) \/ BuscarLive(r)
          PROVE  UNCHANGED <<cabines, ativos>>
      BY <3>1 DEF LerCabine, BuscarLive
    <3> QED BY <2>5, <2>6, <2>7, <2>8, <2>11, <2>13, <3>1 DEF CabineStep
  <2>14. CASE ContratoStep
    BY <2>9, <2>10, <2>14 DEF ContratoStep
  <2>15. CASE ColetaStep
    <3>1. ASSUME NEW t \in Coletas, EscolherLive(t) \/ FinalizarLive(t)
          PROVE  UNCHANGED <<cabines, ativos>>
      BY <3>1 DEF EscolherLive, FinalizarLive
    <3>2. ASSUME NEW t \in Coletas, DesvincularCabine(t)
          PROVE  cabines'[d].contrato_id \in ativos' \/ Aprovou(d)
      BY <2>1, <3>2 DEF DesvincularCabine, TypeOK, CabineRow
    <3> QED BY <2>11, <2>15, <3>1, <3>2 DEF ColetaStep
  <2>16. CASE SolicitacaoStep
    <3>1. ASSUME NEW p \in Pedidos, NEW a \in Aprovadores,
                 CriarSolicitacao(p) \/ LerAprovacao(a, p)
          PROVE  UNCHANGED <<cabines, ativos>>
      BY <3>1 DEF CriarSolicitacao, LerAprovacao
    <3>2. ASSUME NEW p \in Pedidos, CriarSolicitacao(p) PROVE UNCHANGED <<cabines, ativos>>
      BY <3>2 DEF CriarSolicitacao
    <3>3. ASSUME NEW a \in Aprovadores, GravarAprovacao(a)
          PROVE  cabines'[d].contrato_id \in ativos' \/ Aprovou(d)
      <4>1. CASE cabines'[d] = cabines[d]
        BY <2>1, <3>3, <4>1 DEF GravarAprovacao
      <4>2. CASE cabines'[d] # cabines[d]
        <5>1. /\ aprovacao[a].pedido.cabine_id = d
              /\ cabines'[d].contrato_id = aprovacao[a].contrato
          BY <3>3, <4>2, Atualiza DEF GravarAprovacao, TypeOK, CabineRow
        <5>2. aprovacao'[a] = SemAprovacao /\ aprovacao[a].pedido # NULL
          BY <3>3 DEF GravarAprovacao, TypeOK
        <5> QED BY <5>1, <5>2 DEF Aprovou
      <4> QED BY <4>1, <4>2
    <3> QED BY <2>11, <2>16, <3>1, <3>2, <3>3 DEF SolicitacaoStep
  <2>17. CASE AgendaStep \/ UNCHANGED vars
    BY <2>11, <2>17 DEF AgendaStep, CriarEvento, EditarEvento, PassarDia, vars
  <2> QED BY <2>12, <2>13, <2>14, <2>15, <2>16, <2>17 DEF Next
<1> QED BY <1>1, Inductive, PTL DEF Spec, ReservaInativaSoPorAprovacao, Aprovou
=============================================================================
