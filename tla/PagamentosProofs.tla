--------------------------- MODULE PagamentosProofs ---------------------------
(***************************************************************************)
(* For every number of boletos, deliveries, instances and failures,        *)
(* Pagamentos implements Quitacao and repeats no reminder without a lapse; *)
(* a behaviour of Cobranca is one of Pagamentos and one of Billing, and    *)
(* has the guarantees of both.                                             *)
(***************************************************************************)
EXTENDS Cobranca, FiniteSetTheorems, TLAPS

Pago(b) == boletos[b].status = "pago"

(* A delivery past its first statement carries an event. *)
EventoInv == \A d \in Entregas : entregas[d].pc # "livre" => entregas[d].evento \in Eventos

(* Only one delivery of a boleto is ever about to announce its payment, and only while    *)
(* nothing has been announced.                                                            *)
AvisarInv ==
  /\ \A d \in Entregas :
       entregas[d].pc = "avisar" => Pago(entregas[d].evento[1]) /\ avisos[entregas[d].evento[1]] = 0
  /\ \A d, x \in Entregas :
       entregas[d].pc = "avisar" /\ entregas[x].pc = "avisar" /\ entregas[d].evento[1] = entregas[x].evento[1] => d = x
  /\ \A b \in Boletos : avisos[b] # 0 => Pago(b)

Maos(b) == {i \in Instancias : EmMaos(i, b)}

(* What has left and what is about to leave, against what the lapses allow. *)
Permitidos(b) ==
  /\ lembretes[b] + Cardinality(Maos(b)) <= lapsos[b] + 1
  /\ b \notin registros /\ Maos(b) = {} => lembretes[b] <= lapsos[b]

LembreteInv == \A b \in Boletos : Permitidos(b)

-----------------------------------------------------------------------------
LEMMA InitTypes == Init => TypeOK /\ EventoInv /\ AvisarInv /\ LembreteInv
<1>1. SUFFICES ASSUME Init PROVE TypeOK /\ EventoInv /\ AvisarInv /\ LembreteInv
  OBVIOUS
<1>2. MaxFalhas \in Nat /\ NULL \notin Boletos
  BY ConstantesAssumption
<1>3. TypeOK
  BY <1>1, <1>2 DEF Init, TypeOK, BoletoRow, EntregaRow, RodadaRow, Livre, Parada
<1>4. EventoInv
  BY <1>1 DEF Init, EventoInv, Livre
<1>5. AvisarInv
  BY <1>1 DEF Init, AvisarInv, Livre
<1>6. LembreteInv
  <2>1. \A b \in Boletos : Maos(b) = {}
    BY <1>1, <1>2 DEF Init, Maos, EmMaos, Parada
  <2> QED BY <1>1, <2>1, FS_EmptySet DEF Init, LembreteInv, Permitidos
<1> QED BY <1>3, <1>4, <1>5, <1>6

-----------------------------------------------------------------------------
(* Types. *)

LEMMA BoletoTypes ==
  ASSUME TypeOK, NEW b \in Boletos, Cobrar(b) \/ Confirmar(b) \/ PagarNoGateway(b) \/ PagarPorMao(b) \/ Vencer(b)
  PROVE TypeOK'
<1>1. UNCHANGED <<replay, semId, nonces, entregues, entregas, perdidos, falhas>>
      /\ UNCHANGED <<avisos, lembretes, registros, rodadas, lapsos>>
  BY DEF Cobrar, Confirmar, PagarNoGateway, PagarPorMao, Vencer, webhook, correio
<1>2. boletos' \in [Boletos -> BoletoRow] /\ gateway' \in [Boletos -> {"nenhum", "cobrado", "pago"}]
  <2>1. CASE Cobrar(b)
    BY <2>1 DEF TypeOK, Cobrar, BoletoRow
  <2>2. CASE Confirmar(b)
    BY <2>2 DEF TypeOK, Confirmar, BoletoRow
  <2>3. CASE PagarNoGateway(b)
    BY <2>3 DEF TypeOK, PagarNoGateway
  <2>4. CASE PagarPorMao(b)
    BY <2>4 DEF TypeOK, PagarPorMao, Quitar, BoletoRow
  <2>5. CASE Vencer(b)
    BY <2>5 DEF TypeOK, Vencer, BoletoRow
  <2> QED BY <2>1, <2>2, <2>3, <2>4, <2>5
<1> QED BY <1>1, <1>2 DEF TypeOK

LEMMA ReceberTypes ==
  ASSUME TypeOK, NEW e \in Eventos, Receber(e)
  PROVE TypeOK' /\ (EventoInv => EventoInv')
<1>1. CASE ResponderRepetido(e)
  BY <1>1 DEF TypeOK, EventoInv, ResponderRepetido, correio
<1>2. ASSUME NEW d \in Entregas, ReceberEvento(d, e) PROVE TypeOK' /\ (EventoInv => EventoInv')
  <2>1. Nonce(e) \in Nonces
    BY DEF Nonce, Nonces, Eventos
  <2>2. [pc |-> "processar", evento |-> e] \in EntregaRow
    BY DEF EntregaRow
  <2> QED BY <1>2, <2>1, <2>2 DEF TypeOK, EventoInv, ReceberEvento, correio, Nonces
<1> QED BY <1>1, <1>2 DEF Receber

LEMMA SeguirTypes ==
  ASSUME TypeOK, EventoInv, NEW d \in Entregas, NEW pc \in {"livre", "quitar", "avisar"},
         entregas[d].pc # "livre", Seguir(d, pc)
  PROVE  /\ entregas' \in [Entregas -> EntregaRow]
         /\ EventoInv'
  BY DEF TypeOK, EventoInv, Seguir, EntregaRow, Livre

LEMMA ErroTypes ==
  ASSUME TypeOK, EventoInv, NEW d \in Entregas, entregas[d].pc # "livre", ResponderErro(d)
  PROVE  entregues' \subseteq Eventos /\ perdidos' \subseteq Eventos
  BY DEF TypeOK, EventoInv, ResponderErro

LEMMA PassoTypes ==
  ASSUME TypeOK, EventoInv, NEW d \in Entregas, Passo(d) \/ FalharEntrega(d)
  PROVE  TypeOK' /\ EventoInv'
<1> USE DEF correio
<1>1. CASE Localizar(d)
  <2> DEFINE e == entregas[d].evento
  <2>1. e \in Eventos /\ entregas[d].pc # "livre"
    BY <1>1 DEF Localizar, EventoInv
  <2>2. entregas' \in [Entregas -> EntregaRow] /\ EventoInv'
    BY <1>1, <2>1, SeguirTypes DEF Localizar
  <2>3. entregues' \subseteq Eventos /\ perdidos' \subseteq Eventos
    BY <1>1, <2>1, ErroTypes DEF Localizar, TypeOK
  <2> QED BY <1>1, <2>2, <2>3 DEF Localizar, TypeOK
<1>2. CASE QuitarPeloWebhook(d)
  <2> DEFINE e == entregas[d].evento
  <2>1. e \in Eventos /\ entregas[d].pc # "livre" /\ e[1] \in Boletos
    BY <1>2 DEF QuitarPeloWebhook, EventoInv, Eventos
  <2>2. entregas' \in [Entregas -> EntregaRow] /\ EventoInv'
    BY <1>2, <2>1, SeguirTypes DEF QuitarPeloWebhook
  <2>3. boletos' \in [Boletos -> BoletoRow]
    BY <1>2, <2>1 DEF QuitarPeloWebhook, Quitar, TypeOK, BoletoRow
  <2> QED BY <1>2, <2>1, <2>2, <2>3 DEF QuitarPeloWebhook, TypeOK
<1>3. CASE AvisarPagamento(d)
  <2>1. entregas[d].evento[1] \in Boletos /\ entregas[d].pc # "livre"
    BY <1>3 DEF AvisarPagamento, EventoInv, Eventos
  <2>2. entregas' \in [Entregas -> EntregaRow] /\ EventoInv'
    BY <1>3, <2>1, SeguirTypes DEF AvisarPagamento
  <2>3. avisos' \in [Boletos -> Nat]
    BY <1>3, <2>1 DEF AvisarPagamento, TypeOK
  <2> QED BY <1>3, <2>2, <2>3 DEF AvisarPagamento, TypeOK
<1>4. CASE FalharEntrega(d)
  <2>1. entregas[d].pc # "livre"
    BY <1>4 DEF FalharEntrega
  <2>2. entregas' \in [Entregas -> EntregaRow] /\ EventoInv'
    BY <1>4, <2>1, SeguirTypes DEF FalharEntrega
  <2>3. entregues' \subseteq Eventos /\ perdidos' \subseteq Eventos
    BY <1>4, <2>1, ErroTypes DEF FalharEntrega
  <2>4. falhas' \in 0..MaxFalhas
    BY <1>4, ConstantesAssumption DEF FalharEntrega, Falha, TypeOK
  <2> QED BY <1>4, <2>2, <2>3, <2>4 DEF FalharEntrega, TypeOK
<1> QED BY <1>1, <1>2, <1>3, <1>4 DEF Passo

Lembretes(i) == SelecionarVencidos(i) \/ (\E b \in Boletos : ConsultarLog(i, b)) \/ Lembrar(i)

LEMMA LembreteTypes ==
  ASSUME TypeOK, NEW i \in Instancias, Lembretes(i)
  PROVE  TypeOK'
<1> USE DEF webhook
<1>1. CASE SelecionarVencidos(i)
  BY <1>1 DEF SelecionarVencidos, TypeOK, RodadaRow
<1>2. ASSUME NEW b \in Boletos, ConsultarLog(i, b) PROVE TypeOK'
  <2>1. PICK x \in {b, NULL} :
          rodadas' = [rodadas EXCEPT ![i] = [fila |-> rodadas[i].fila \ {b}, atual |-> x]]
    BY <1>2 DEF ConsultarLog
  <2>2. rodadas' \in [Instancias -> RodadaRow]
    BY <2>1 DEF TypeOK, RodadaRow
  <2>3. lapsos' \in [Boletos -> Nat]
    BY <1>2 DEF ConsultarLog, Lapso, TypeOK
  <2>4. falhas' \in 0..MaxFalhas
    BY <1>2, ConstantesAssumption DEF ConsultarLog, Falha, TypeOK
  <2> QED BY <1>2, <2>2, <2>3, <2>4 DEF ConsultarLog, TypeOK
<1>3. CASE Lembrar(i)
  <2>1. rodadas[i].atual \in Boletos
    BY <1>3 DEF Lembrar, TypeOK, RodadaRow
  <2>2. rodadas' \in [Instancias -> RodadaRow]
    <3>1. rodadas \in [Instancias -> RodadaRow] /\ rodadas' = [rodadas EXCEPT ![i] = [rodadas[i] EXCEPT !.atual = NULL]]
      BY <1>3 DEF Lembrar, TypeOK
    <3>2. [rodadas[i] EXCEPT !.atual = NULL] \in RodadaRow
      BY <3>1 DEF RodadaRow
    <3> QED BY <3>1, <3>2
  <2>3. lembretes' \in [Boletos -> Nat] /\ registros' \subseteq Boletos /\ lapsos' \in [Boletos -> Nat]
    BY <1>3, <2>1 DEF Lembrar, Lapso, TypeOK
  <2>4. falhas' \in 0..MaxFalhas
    BY <1>3, ConstantesAssumption DEF Lembrar, Falha, TypeOK
  <2> QED BY <1>3, <2>2, <2>3, <2>4 DEF Lembrar, TypeOK
<1> QED BY <1>1, <1>2, <1>3 DEF Lembretes

-----------------------------------------------------------------------------
(* The announcement of a payment. *)

Avisando(d, b) == entregas[d].pc = "avisar" /\ entregas[d].evento[1] = b

(* Nothing that the invariant looks at loses a payment, announces, or starts to. *)
LEMMA AvisarPreserva ==
  ASSUME AvisarInv, EventoInv, UNCHANGED avisos,
         \A b \in Boletos : Pago(b) => Pago(b)',
         \A d \in Entregas : entregas'[d].pc = "avisar" => entregas'[d] = entregas[d]
  PROVE  AvisarInv'
  BY DEF AvisarInv, Pago, EventoInv, Eventos

LEMMA AvisarBoleto ==
  ASSUME TypeOK, EventoInv, AvisarInv, NEW b \in Boletos,
         Cobrar(b) \/ Confirmar(b) \/ PagarNoGateway(b) \/ PagarPorMao(b) \/ Vencer(b)
  PROVE  AvisarInv'
<1>1. UNCHANGED <<avisos, entregas>>
  BY DEF Cobrar, Confirmar, PagarNoGateway, PagarPorMao, Vencer, webhook, correio
<1>2. \A x \in Boletos : Pago(x) => Pago(x)'
  BY DEF Cobrar, Confirmar, PagarNoGateway, PagarPorMao, Vencer, Quitar, NaoPago, Existe, Pago, TypeOK, BoletoRow
<1> QED BY <1>1, <1>2, AvisarPreserva

LEMMA AvisarReceber ==
  ASSUME TypeOK, EventoInv, AvisarInv, NEW e \in Eventos, Receber(e)
  PROVE  AvisarInv'
<1>1. UNCHANGED <<avisos, boletos>>
  BY DEF Receber, ResponderRepetido, ReceberEvento, correio
<1>2. \A d \in Entregas : entregas'[d].pc = "avisar" => entregas'[d] = entregas[d]
  BY DEF Receber, ResponderRepetido, ReceberEvento, TypeOK, EntregaRow
<1> QED BY <1>1, <1>2, AvisarPreserva DEF Pago

LEMMA AvisarPasso ==
  ASSUME TypeOK, EventoInv, AvisarInv, NEW d \in Entregas, Passo(d) \/ FalharEntrega(d)
  PROVE  AvisarInv'
<1> USE DEF correio
<1>1. CASE Localizar(d) \/ FalharEntrega(d)
  <2>1. UNCHANGED <<avisos, boletos>>
    BY <1>1 DEF Localizar, FalharEntrega
  <2>2. \A x \in Entregas : entregas'[x].pc = "avisar" => entregas'[x] = entregas[x]
    BY <1>1 DEF Localizar, FalharEntrega, Seguir, Livre, TypeOK, EntregaRow
  <2> QED BY <2>1, <2>2, AvisarPreserva DEF Pago
<1>2. CASE QuitarPeloWebhook(d)
  <2> DEFINE b == entregas[d].evento[1]
  <2>0. b \in Boletos /\ UNCHANGED avisos /\ entregas[d].pc = "quitar"
    BY <1>2 DEF QuitarPeloWebhook, EventoInv, Eventos
  <2>1. CASE ~NaoPago(b)
    <3>1. UNCHANGED boletos
      BY <1>2, <2>1 DEF QuitarPeloWebhook
    <3>2. \A x \in Entregas : entregas'[x].pc = "avisar" => entregas'[x] = entregas[x]
      BY <1>2, <2>1 DEF QuitarPeloWebhook, Seguir, Livre, TypeOK
    <3> QED BY <2>0, <3>1, <3>2, AvisarPreserva DEF Pago
  <2>2. CASE NaoPago(b)
    <3>1. ~Pago(b) /\ avisos[b] = 0
      BY <2>0, <2>2 DEF NaoPago, Pago, AvisarInv
    <3>2. \A x \in Entregas : ~Avisando(x, b)
      BY <3>1 DEF AvisarInv, Avisando
    <3>3. \A x \in Boletos : Pago(x)' <=> (Pago(x) \/ x = b)
      BY <1>2, <2>0, <2>2 DEF QuitarPeloWebhook, Quitar, Pago, TypeOK, BoletoRow
    <3>4. /\ entregas'[d].pc = "avisar" /\ entregas'[d].evento[1] = b
          /\ \A x \in Entregas \ {d} : entregas'[x] = entregas[x]
      BY <1>2, <2>0, <2>2 DEF QuitarPeloWebhook, Seguir, TypeOK, EntregaRow
    <3>5. \A x \in Entregas : entregas'[x].pc = "avisar" => x = d \/ (x # d /\ entregas'[x] = entregas[x] /\ Avisando(x, entregas[x].evento[1]))
      BY <3>4 DEF Avisando
    <3>6. \A x \in Entregas : entregas[x].pc = "avisar" => entregas[x].evento[1] \in Boletos \ {b}
      BY <3>2 DEF EventoInv, Eventos, Avisando
    <3>7. \A x \in Entregas : entregas'[x].pc = "avisar" => boletos'[entregas'[x].evento[1]].status = "pago" /\ avisos'[entregas'[x].evento[1]] = 0
      <4> SUFFICES ASSUME NEW x \in Entregas, entregas'[x].pc = "avisar"
                   PROVE  boletos'[entregas'[x].evento[1]].status = "pago" /\ avisos'[entregas'[x].evento[1]] = 0
        OBVIOUS
      <4>1. CASE x = d
        BY <4>1, <2>0, <3>1, <3>3, <3>4 DEF Pago
      <4>2. CASE x # d
        BY <4>2, <2>0, <3>3, <3>4, <3>6 DEF Pago, AvisarInv
      <4> QED BY <4>1, <4>2
    <3>8. \A x, y \in Entregas : entregas'[x].pc = "avisar" /\ entregas'[y].pc = "avisar"
                                 /\ entregas'[x].evento[1] = entregas'[y].evento[1] => x = y
      BY <3>4, <3>6 DEF AvisarInv
    <3>9. \A x \in Boletos : avisos'[x] # 0 => Pago(x)'
      BY <2>0, <3>3 DEF AvisarInv
    <3> QED BY <3>7, <3>8, <3>9 DEF AvisarInv, Pago
  <2> QED BY <2>1, <2>2
<1>3. CASE AvisarPagamento(d)
  <2> DEFINE b == entregas[d].evento[1]
  <2>1. b \in Boletos /\ UNCHANGED boletos /\ Pago(b) /\ Avisando(d, b)
    BY <1>3 DEF AvisarPagamento, EventoInv, Eventos, AvisarInv, Avisando
  <2>2. \A x \in Entregas : entregas'[x].pc = "avisar" => x # d /\ entregas'[x] = entregas[x] /\ entregas[x].evento[1] # b
    BY <1>3, <2>1 DEF AvisarPagamento, Seguir, Livre, TypeOK, AvisarInv, Avisando
  <2>3. \A x \in Boletos \ {b} : avisos'[x] = avisos[x]
    BY <1>3 DEF AvisarPagamento, TypeOK
  <2>4. \A x \in Entregas : entregas[x].pc = "avisar" => entregas[x].evento[1] \in Boletos
    BY DEF EventoInv, Eventos
  <2>5. \A x \in Entregas : entregas'[x].pc = "avisar" => boletos'[entregas'[x].evento[1]].status = "pago" /\ avisos'[entregas'[x].evento[1]] = 0
    BY <2>1, <2>2, <2>3, <2>4 DEF AvisarInv, Pago
  <2>6. \A x, y \in Entregas : entregas'[x].pc = "avisar" /\ entregas'[y].pc = "avisar"
                               /\ entregas'[x].evento[1] = entregas'[y].evento[1] => x = y
    BY <2>2 DEF AvisarInv
  <2>7. \A x \in Boletos : avisos'[x] # 0 => Pago(x)'
    BY <2>1, <2>3 DEF AvisarInv, Pago
  <2> QED BY <2>5, <2>6, <2>7 DEF AvisarInv, Pago
<1> QED BY <1>1, <1>2, <1>3 DEF Passo

LEMMA AvisarLembretes ==
  ASSUME TypeOK, EventoInv, AvisarInv, NEW i \in Instancias, Lembretes(i)
  PROVE  AvisarInv'
<1>1. UNCHANGED <<avisos, boletos, entregas>>
  BY DEF Lembretes, SelecionarVencidos, ConsultarLog, Lembrar, webhook
<1> QED BY <1>1, AvisarPreserva DEF Pago

-----------------------------------------------------------------------------
(* The reminders. *)

LEMMA MaosFinitas == \A b : IsFiniteSet(Maos(b)) /\ Cardinality(Maos(b)) \in Nat
BY ConstantesAssumption, FS_Subset, FS_CardinalityType DEF Maos

LEMMA LembreteOutros ==
  ASSUME LembreteInv, UNCHANGED <<lembretes, registros, rodadas, lapsos>>
  PROVE  LembreteInv'
<1>1. \A b \in Boletos : Maos(b)' = Maos(b)
  BY DEF Maos, EmMaos
<1> QED BY <1>1 DEF LembreteInv, Permitidos

(* A step about one boleto leaves the account of every other as it is. *)
LEMMA LembreteUm ==
  ASSUME LembreteInv, NEW b \in Boletos, Permitidos(b)',
         \A x \in Boletos \ {b} :
           /\ lembretes'[x] = lembretes[x] /\ lapsos'[x] = lapsos[x]
           /\ x \in registros' <=> x \in registros
           /\ \A j \in Instancias : EmMaos(j, x)' <=> EmMaos(j, x)
  PROVE  LembreteInv'
<1>1. \A x \in Boletos \ {b} : Maos(x)' = Maos(x)
  BY DEF Maos
<1> QED BY <1>1 DEF LembreteInv, Permitidos

LEMMA LembreteConsulta ==
  ASSUME TypeOK, LembreteInv, NEW i \in Instancias, NEW b \in Boletos, ConsultarLog(i, b)
  PROVE  LembreteInv'
<1>1. PICK x \in {b, NULL} :
        /\ rodadas' = [rodadas EXCEPT ![i] = [fila |-> rodadas[i].fila \ {b}, atual |-> x]]
        /\ x = NULL => lapsos' = lapsos
        /\ x = b => IF (\E j \in Instancias \ {i} : EmMaos(j, b)) \/ b \in registros
                    THEN Lapso(b) ELSE lapsos' = lapsos
  <2>1. b # NULL
    BY ConstantesAssumption
  <2> QED BY <2>1 DEF ConsultarLog, JaEnviado
<1>2. UNCHANGED <<lembretes, registros>> /\ rodadas[i].atual = NULL
  BY DEF ConsultarLog
<1>3. /\ rodadas'[i].atual = x
      /\ \A j \in Instancias : j # i => rodadas'[j] = rodadas[j]
  BY <1>1 DEF TypeOK
<1>4. \A y \in Boletos \ {b} : lapsos'[y] = lapsos[y]
  BY <1>1 DEF Lapso, TypeOK
<1>5. \A y \in Boletos \ {b}, j \in Instancias : EmMaos(j, y)' <=> EmMaos(j, y)
  BY <1>2, <1>3, ConstantesAssumption DEF EmMaos
<1>6. i \notin Maos(b)
  BY <1>2, ConstantesAssumption DEF Maos, EmMaos
<1>7. Permitidos(b)'
  <2>1. CASE x = NULL
    <3>1. Maos(b)' = Maos(b)
      BY <1>2, <1>3, <2>1, ConstantesAssumption DEF Maos, EmMaos
    <3> QED BY <1>1, <1>2, <2>1, <3>1 DEF LembreteInv, Permitidos
  <2>2. CASE x = b
    <3>1. Maos(b)' = Maos(b) \cup {i}
      BY <1>3, <2>2 DEF Maos, EmMaos
    <3>2. Cardinality(Maos(b)') = Cardinality(Maos(b)) + 1
      BY <1>6, <3>1, MaosFinitas, FS_AddElement
    <3>3. lembretes[b] \in Nat /\ lapsos[b] \in Nat
      BY DEF TypeOK
    <3>4. CASE Maos(b) = {} /\ b \notin registros
      <4>1. Cardinality(Maos(b)') = 1
        BY <3>2, <3>4, FS_EmptySet
      <4>2. lapsos' = lapsos
        BY <1>1, <2>2, <3>4 DEF Maos
      <4> QED BY <1>2, <3>1, <3>3, <3>4, <4>1, <4>2 DEF LembreteInv, Permitidos
    <3>5. CASE Maos(b) # {} \/ b \in registros
      <4>1. Lapso(b)
        BY <1>1, <1>6, <2>2, <3>5 DEF Maos
      <4>2. lapsos'[b] = lapsos[b] + 1
        BY <4>1 DEF Lapso, TypeOK
      <4> QED BY <1>2, <3>1, <3>2, <3>3, <4>2, MaosFinitas DEF LembreteInv, Permitidos
    <3> QED BY <3>4, <3>5
  <2> QED BY <2>1, <2>2
<1> QED BY <1>2, <1>4, <1>5, <1>7, LembreteUm

LEMMA LembreteEnvio ==
  ASSUME TypeOK, LembreteInv, NEW i \in Instancias, Lembrar(i)
  PROVE  LembreteInv'
<1>1. PICK b \in Boletos : b = rodadas[i].atual
  BY DEF Lembrar, TypeOK, RodadaRow
<1>2. /\ rodadas'[i].atual = NULL
      /\ \A j \in Instancias : j # i => rodadas'[j].atual = rodadas[j].atual
  <2>1. rodadas' = [rodadas EXCEPT ![i] = [rodadas[i] EXCEPT !.atual = NULL]]
    BY DEF Lembrar
  <2> QED BY <2>1 DEF TypeOK, RodadaRow
<1>3. \A x \in Boletos \ {b} :
        /\ lembretes'[x] = lembretes[x] /\ lapsos'[x] = lapsos[x]
        /\ x \in registros' <=> x \in registros
  BY <1>1 DEF Lembrar, Lapso, TypeOK
<1>4. \A x \in Boletos \ {b}, j \in Instancias : EmMaos(j, x)' <=> EmMaos(j, x)
  BY <1>1, <1>2, ConstantesAssumption DEF EmMaos
<1>5. \/ lembretes'[b] = lembretes[b] + 1 /\ lapsos' = lapsos /\ b \in registros'
      \/ lembretes' = lembretes /\ lapsos' = lapsos /\ registros' = registros
      \/ lembretes'[b] = lembretes[b] + 1 /\ lapsos'[b] = lapsos[b] + 1
  BY <1>1 DEF Lembrar, Lapso, TypeOK
<1>6. Permitidos(b)'
  <2>1. i \in Maos(b)
    BY <1>1 DEF Maos, EmMaos
  <2>2. Maos(b)' = Maos(b) \ {i}
    <3>1. b # NULL
      BY ConstantesAssumption
    <3> QED BY <1>2, <3>1 DEF Maos, EmMaos
  <2>3. Cardinality(Maos(b)') = Cardinality(Maos(b)) - 1
    BY <2>1, <2>2, MaosFinitas, FS_RemoveElement
  <2>4. lembretes[b] \in Nat /\ lapsos[b] \in Nat
    BY DEF TypeOK
  <2>5. lembretes[b] + Cardinality(Maos(b)) <= lapsos[b] + 1
    BY DEF LembreteInv, Permitidos
  <2>6. Maos(b)' = {} => Cardinality(Maos(b)') = 0
    BY FS_EmptySet
  <2>7. Cardinality(Maos(b)) \in Nat
    BY MaosFinitas
  <2>8. lembretes'[b] + Cardinality(Maos(b)') <= lapsos'[b] + 1
    BY <1>5, <2>3, <2>4, <2>5, <2>7
  <2>9. b \notin registros' /\ Maos(b)' = {} => lembretes'[b] <= lapsos'[b]
    BY <1>5, <2>3, <2>4, <2>5, <2>6, <2>7
  <2> QED BY <2>8, <2>9 DEF Permitidos
<1>7. \A x \in Boletos \ {b} :
        /\ lembretes'[x] = lembretes[x] /\ lapsos'[x] = lapsos[x]
        /\ x \in registros' <=> x \in registros
        /\ \A j \in Instancias : EmMaos(j, x)' <=> EmMaos(j, x)
  BY <1>3, <1>4
<1> QED BY <1>6, <1>7, LembreteUm

LEMMA LembreteRodada ==
  ASSUME TypeOK, LembreteInv, NEW i \in Instancias, Lembretes(i)
  PROVE  LembreteInv'
<1>1. CASE SelecionarVencidos(i)
  <2>1. \A j \in Instancias : rodadas'[j].atual = rodadas[j].atual
    BY <1>1 DEF SelecionarVencidos, TypeOK, RodadaRow
  <2>2. UNCHANGED <<lembretes, registros, lapsos>>
    BY <1>1 DEF SelecionarVencidos
  <2>3. \A b \in Boletos : Maos(b)' = Maos(b)
    BY <2>1 DEF Maos, EmMaos
  <2> QED BY <2>2, <2>3 DEF LembreteInv, Permitidos
<1> QED BY <1>1, LembreteConsulta, LembreteEnvio DEF Lembretes

-----------------------------------------------------------------------------
IndInv == TypeOK /\ EventoInv /\ AvisarInv /\ LembreteInv

LEMMA PassoIndutivo == IndInv /\ [Next]_vars => IndInv'
<1> SUFFICES ASSUME IndInv, [Next]_vars PROVE IndInv'
  OBVIOUS
<1> USE DEF IndInv
<1>1. ASSUME NEW b \in Boletos, Cobrar(b) \/ Confirmar(b) \/ PagarNoGateway(b) \/ PagarPorMao(b) \/ Vencer(b)
      PROVE  IndInv'
  <2>1. UNCHANGED <<entregas, lembretes, registros, rodadas, lapsos>>
    BY <1>1 DEF Cobrar, Confirmar, PagarNoGateway, PagarPorMao, Vencer, webhook, correio
  <2>2. EventoInv'
    BY <2>1 DEF EventoInv, Eventos
  <2> QED BY <1>1, <2>1, <2>2, BoletoTypes, AvisarBoleto, LembreteOutros
<1>2. ASSUME NEW e \in Eventos, Receber(e) PROVE IndInv'
  <2>1. UNCHANGED <<lembretes, registros, rodadas, lapsos>>
    BY <1>2 DEF Receber, ResponderRepetido, ReceberEvento, correio
  <2> QED BY <1>2, <2>1, ReceberTypes, AvisarReceber, LembreteOutros
<1>3. ASSUME NEW d \in Entregas, Passo(d) \/ FalharEntrega(d) PROVE IndInv'
  <2>1. UNCHANGED <<lembretes, registros, rodadas, lapsos>>
    BY <1>3 DEF Passo, Localizar, QuitarPeloWebhook, AvisarPagamento, FalharEntrega, correio
  <2> QED BY <1>3, <2>1, PassoTypes, AvisarPasso, LembreteOutros
<1>4. ASSUME NEW i \in Instancias, Lembretes(i) PROVE IndInv'
  <2>1. UNCHANGED entregas
    BY <1>4 DEF Lembretes, SelecionarVencidos, ConsultarLog, Lembrar, webhook
  <2>2. EventoInv'
    BY <2>1 DEF EventoInv, Eventos
  <2> QED BY <1>4, <2>2, LembreteTypes, AvisarLembretes, LembreteRodada
<1>5. CASE UNCHANGED vars
  BY <1>5, AvisarPreserva, LembreteOutros DEF vars, TypeOK, EventoInv, Eventos, Pago, Nonces
<1> QED BY <1>1, <1>2, <1>3, <1>4, <1>5 DEF Next, Lembretes

LEMMA Indutivo == Spec => []IndInv
<1>1. Init => IndInv
  BY InitTypes DEF IndInv
<1> QED BY <1>1, PassoIndutivo, PTL DEF Spec

(* Every reachable state of the payments is well typed. *)
THEOREM TypeCorrect == Spec => []TypeOK
<1>1. IndInv => TypeOK
  BY DEF IndInv
<1> QED BY <1>1, Indutivo, PTL

(* A client is reminded once of an overdue boleto, and once more at most for every lapse   *)
(* of the log, for every number of boletos and instances.                                  *)
THEOREM LembreteCorrect == Spec => []LembreteUnico
<1>1. IndInv => LembreteUnico
  <2> SUFFICES ASSUME IndInv, NEW b \in Boletos PROVE lembretes[b] <= 1 + lapsos[b]
    BY DEF LembreteUnico
  <2>1. lembretes[b] \in Nat /\ lapsos[b] \in Nat /\ lembretes[b] + Cardinality(Maos(b)) <= lapsos[b] + 1
    BY DEF IndInv, TypeOK, LembreteInv, Permitidos
  <2> QED BY <2>1, MaosFinitas
<1> QED BY <1>1, Indutivo, PTL

-----------------------------------------------------------------------------
(* The steps that Quitacao sees: a payment, by a webhook or by hand, and an announcement. *)

Pagos == {b \in Boletos : Pago(b)}

LEMMA PassoDePagamento ==
  ASSUME IndInv, NEW b \in Boletos, NaoPago(b), Quitar(b), UNCHANGED avisos
  PROVE  Q!Pagar(b)
<1>1. b \notin Pagos /\ Pagos' = Pagos \cup {b}
  BY DEF IndInv, TypeOK, BoletoRow, NaoPago, Quitar, Pago, Pagos
<1> QED BY <1>1 DEF Q!Pagar, Pagos, Pago

LEMMA PassoMudo ==
  ASSUME UNCHANGED avisos, \A b \in Boletos : Pago(b)' <=> Pago(b)
  PROVE  UNCHANGED <<{b \in Boletos : boletos[b].status = "pago"}, avisos>>
  BY DEF Pago

(* The detailed specification implements the abstract one: webhooks that overlap, come    *)
(* twice, fail and are repeated, payments by hand and the overdue job only ever pay an    *)
(* unpaid boleto or announce, once, a paid one.                                           *)
THEOREM QuitacaoCorrect == Spec => Quita
<1>1. Init => Q!Init
  BY DEF Init, Q!Init
<1>2. IndInv /\ [Next]_vars => [Q!Next]_(Q!vars)
  <2> SUFFICES ASSUME IndInv, [Next]_vars PROVE [Q!Next]_(Q!vars)
    OBVIOUS
  <2> USE DEF correio
  <2> DEFINE Mudo == UNCHANGED avisos /\ \A b \in Boletos : Pago(b)' <=> Pago(b)
  <2>1. ASSUME NEW b \in Boletos, PagarPorMao(b) PROVE Q!Pagar(b)
    BY <2>1, PassoDePagamento DEF PagarPorMao
  <2>2. ASSUME NEW b \in Boletos, Cobrar(b) \/ Confirmar(b) \/ PagarNoGateway(b) \/ Vencer(b) PROVE Mudo
    BY <2>2 DEF Cobrar, Confirmar, PagarNoGateway, Vencer, Existe, Pago, IndInv, TypeOK, BoletoRow
  <2>3. ASSUME NEW e \in Eventos, Receber(e) PROVE Mudo
    BY <2>3 DEF Receber, ResponderRepetido, ReceberEvento, Pago
  <2>4. ASSUME NEW d \in Entregas, Localizar(d) \/ FalharEntrega(d) PROVE Mudo
    BY <2>4 DEF Localizar, FalharEntrega, Pago
  <2>5. ASSUME NEW d \in Entregas, QuitarPeloWebhook(d) PROVE Mudo \/ \E b \in Boletos : Q!Pagar(b)
    <3>1. entregas[d].evento[1] \in Boletos
      BY <2>5 DEF QuitarPeloWebhook, IndInv, EventoInv, Eventos
    <3> QED BY <2>5, <3>1, PassoDePagamento DEF QuitarPeloWebhook, Pago
  <2>6. ASSUME NEW d \in Entregas, AvisarPagamento(d) PROVE Mudo \/ \E b \in Boletos : Q!Avisar(b)
    <3> DEFINE b == entregas[d].evento[1]
    <3>1. b \in Boletos /\ Pago(b) /\ avisos[b] = 0 /\ UNCHANGED boletos
      BY <2>6 DEF AvisarPagamento, IndInv, EventoInv, AvisarInv, Eventos
    <3>2. avisos' = [avisos EXCEPT ![b] = 1] \/ UNCHANGED avisos
      BY <2>6, <3>1 DEF AvisarPagamento
    <3>3. ASSUME avisos' = [avisos EXCEPT ![b] = 1] PROVE Q!Avisar(b)
      BY <3>1, <3>3 DEF Q!Avisar, Pago
    <3> QED BY <3>1, <3>2, <3>3 DEF Pago
  <2>7. ASSUME NEW i \in Instancias, Lembretes(i) PROVE Mudo
    BY <2>7 DEF Lembretes, SelecionarVencidos, ConsultarLog, Lembrar, Pago
  <2>8. CASE UNCHANGED vars
    BY <2>8 DEF vars, Q!vars
  <2>9. Mudo => UNCHANGED Q!vars
    BY PassoMudo DEF Q!vars
  <2>10. CASE Next
    <3>1. Mudo \/ \E b \in Boletos : Q!Pagar(b) \/ Q!Avisar(b)
      BY <2>1, <2>2, <2>3, <2>4, <2>5, <2>6, <2>7, <2>10 DEF Next, Passo, Lembretes
    <3> QED BY <2>9, <3>1 DEF Q!Next
  <2> QED BY <2>8, <2>10
<1> QED BY <1>1, <1>2, Indutivo, PTL DEF Spec, Quita, Q!Spec

-----------------------------------------------------------------------------
(* The two halves together. *)

BP == INSTANCE BillingProofs WITH
        Instancias <- Faturadores,
        lives <- bLives, boletos <- bBoletos, trava <- bTrava, instancia <- bInstancia,
        quinzena <- bQuinzena, cobrancas <- bCobrancas, desfechos <- bDesfechos,
        presas <- bPresas

LEMMA FaturamentoConstantes == BP!ConstantesAssumption
BY CobrancaAssumption DEF BP!ConstantesAssumption, BP!EventualidadesPossiveis, B!EventualidadesPossiveis

(* A half that does not move stutters: each keeps to its own specification. *)
THEOREM MetadesCorrect == SpecCobranca => Spec /\ B!Spec
<1>1. InitCobranca => Init /\ B!Init
  BY DEF InitCobranca
<1>2. [Faturar \/ Pagar]_Estado => [Next]_vars /\ [B!Next]_(B!vars)
  BY DEF Faturar, Pagar, Estado, faturamento, B!vars
<1> QED BY <1>1, <1>2, PTL DEF SpecCobranca, Spec, B!Spec

(* The module of the proofs speaks of the same initial states, steps and properties. *)
LEMMA MesmoInicio == B!Init <=> BP!Init
BY DEF B!Quinzenas, BP!Quinzenas, B!Chaves, BP!Chaves, B!Parada, BP!Parada, B!Init, BP!Init

LEMMA MesmoPasso == B!Next <=> BP!Next
BY DEF B!Quinzenas, BP!Quinzenas, B!Chaves, BP!Chaves, B!Cobrancas, BP!Cobrancas, B!Parada, BP!Parada,
       B!Ocorre, BP!Ocorre, B!Chave, BP!Chave, B!DiaUm, BP!DiaUm, B!Encerra, BP!Encerra, B!Vai,
       BP!Vai, B!TentarTrava, BP!TentarTrava, B!Disparar, BP!Disparar, B!Prender, BP!Prender,
       B!Faturaveis, BP!Faturaveis, B!LerLives, BP!LerLives, B!Devido, BP!Devido, B!JaFaturado,
       BP!JaFaturado, B!LivesDe, BP!LivesDe, B!PularCliente, BP!PularCliente, B!InserirBoleto,
       BP!InserirBoleto, B!LiberarTrava, BP!LiberarTrava, B!Desfazer, BP!Desfazer, B!FaturarCliente,
       BP!FaturarCliente, B!Cobrar, BP!Cobrar, B!Confirmar, BP!Confirmar, B!Falhar, BP!Falhar, B!Cair,
       BP!Cair, B!Reiniciar, BP!Reiniciar, B!Travada, BP!Travada, B!LancarLive, BP!LancarLive,
       B!EditarLive, BP!EditarLive, B!ExcluirLive, BP!ExcluirLive, B!PassarQuinzena,
       BP!PassarQuinzena, B!Rodada, BP!Rodada, B!Falha, BP!Falha, B!LiveStep, BP!LiveStep, B!Next,
       BP!Next

LEMMA MesmosTipos == B!TypeOK <=> BP!TypeOK
BY DEF B!Quinzenas, BP!Quinzenas, B!Chaves, BP!Chaves, B!Cobrancas, BP!Cobrancas, B!LiveRow,
       BP!LiveRow, B!BoletoRow, BP!BoletoRow, B!Desfecho, BP!Desfecho, B!LinhaLida, BP!LinhaLida,
       B!InstanciaRow, BP!InstanciaRow, B!TypeOK, BP!TypeOK

LEMMA MesmoFaturamento == B!Spec <=> BP!Spec
<1>1. UNCHANGED B!vars <=> UNCHANGED BP!vars
  BY DEF B!vars, BP!vars
<1>2. [B!Next]_(B!vars) <=> [BP!Next]_(BP!vars)
  BY <1>1, MesmoPasso
<1> QED BY <1>2, MesmoInicio, PTL DEF B!Spec, BP!Spec

(* Every reachable state of both halves is well typed. *)
THEOREM TiposDaCobrancaCorrect == SpecCobranca => []TiposDaCobranca
<1>1. BP!Spec => []BP!TypeOK
  BY FaturamentoConstantes, BP!TypeCorrect
<1>2. TypeOK /\ BP!TypeOK => TiposDaCobranca
  BY MesmosTipos DEF TiposDaCobranca
<1> QED BY <1>1, <1>2, TypeCorrect, MetadesCorrect, MesmoFaturamento, PTL

(* The rounds of any number of instances charge a client once per fortnight, but for a    *)
(* round that was rolled back, whatever the payments do.                                  *)
THEOREM CobrancaUnicaCorrect == SpecCobranca => []CobrancaUnica
<1>1. BP!Spec => []BP!CobrancaUnica
  BY FaturamentoConstantes, BP!CobrancaUnicaCorrect
<1>2. BP!CobrancaUnica => CobrancaUnica
  BY DEF BP!CobrancaUnica, CobrancaUnica, B!CobrancaUnica
<1> QED BY <1>1, <1>2, MetadesCorrect, MesmoFaturamento, PTL

(* Every live in time for its fortnight is billed unless the rounds about it were lost,   *)
(* whatever the payments do.                                                              *)
THEOREM LiveFaturadaCorrect == SpecCobranca => []LiveFaturada
<1>1. BP!Spec => []BP!LiveFaturada
  BY FaturamentoConstantes, BP!LiveFaturadaCorrect
<1>2. BP!LiveFaturada => LiveFaturada
  BY DEF BP!LiveFaturada, LiveFaturada, B!LiveFaturada, BP!PorFaturar, B!PorFaturar, BP!RodadasPassadas,
         B!RodadasPassadas, BP!RodadasPerdidas, B!RodadasPerdidas
<1> QED BY <1>1, <1>2, MetadesCorrect, MesmoFaturamento, PTL

(* What a client sees of a boleto, and its reminders, while the rounds of billing move. *)
THEOREM PagamentosDaCobranca == SpecCobranca => Quita /\ []LembreteUnico
BY MetadesCorrect, QuitacaoCorrect, LembreteCorrect, PTL
=============================================================================
