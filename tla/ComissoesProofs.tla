--------------------------- MODULE ComissoesProofs ---------------------------
(***************************************************************************)
(* What Comissoes guarantees for any number of lives, presenters, rows and *)
(* recalculations in flight, and with every eventuality.                   *)
(*                                                                         *)
(* The bracket: a sum of the engine, whether still in a recalculation or   *)
(* already in a row, is a reading (Leu).  A sale written with the end of a *)
(* live exists before any recalculation of that live reads anything, so of *)
(* two readings of two such lives the later one contains the other live    *)
(* (Contam).  Everything else only forgets readings or sales.              *)
(*                                                                         *)
(* The rows of the presenters: see Garantia.                               *)
(***************************************************************************)
EXTENDS Comissoes, TLAPS

(* A recalculation in flight has a live. *)
CalculoCoerente == \A c \in Calculos : calculos[c].fase # "livre" => calculos[c].live \in Lives

Tipo == TypeOK /\ CalculoCoerente

Acabou(l) == lives[l].status \in {"encerrada", "excluida"}

(* A row the engine wrote is of a live; a live that has a row or a recalculation of its  *)
(* own is over.                                                                          *)
SoDepoisDoFim ==
  /\ \A v \in Vendas : /\ vendas[v].por = "motor" => vendas[v].origem \in Lives
                       /\ Existe(v) /\ vendas[v].criada = "rota" /\ vendas[v].origem \in Lives
                            => Acabou(vendas[v].origem)
  /\ \A c \in Calculos : calculos[c].fase # "livre" => Acabou(calculos[c].live)

(* The row a recalculation is going to write exists, is of its live and, unless somebody *)
(* corrected it, of the presenter it was read for.                                       *)
AchadaCoerente ==
  \A c \in Calculos :
    calculos[c].fase = "gravar" /\ calculos[c].achou # NULL =>
      /\ Existe(calculos[c].achou)
      /\ vendas[calculos[c].achou].origem = calculos[c].live
      /\ vendas[calculos[c].achou].criada = "rota"
           => vendas[calculos[c].achou].apresentadora = calculos[c].atual

TemVenda(o, a) ==
  \E v \in Vendas : /\ Existe(v) /\ vendas[v].criada = "rota"
                    /\ vendas[v].origem = o /\ vendas[v].apresentadora = a

LinhaLeu(v, o, a, B) ==
  /\ Existe(v) /\ vendas[v].criada = "rota" /\ vendas[v].por = "motor"
  /\ vendas[v].origem = o /\ vendas[v].apresentadora = a /\ vendas[v].base = B

CalculoLeu(c, o, a, B) ==
  /\ calculos[c].fase \in {"buscar", "gravar"}
  /\ calculos[c].live = o /\ calculos[c].atual = a /\ calculos[c].base = B

Leu(o, a, B) == (\E v \in Vendas : LinhaLeu(v, o, a, B)) \/ (\E c \in Calculos : CalculoLeu(c, o, a, B))

Contam ==
  \A o1, o2 \in Lives, a \in Apresentadoras, B1, B2 \in SUBSET OrigemOuNula :
    o1 # o2 /\ TemVenda(o1, a) /\ TemVenda(o2, a) /\ Leu(o1, a, B1) /\ Leu(o2, a, B2)
      => o2 \in B1 \/ o1 \in B2

Faixa == SoDepoisDoFim /\ AchadaCoerente /\ Contam

(* What is going to be written has not been approved since in a way that has to last. *)
Firmeza ==
  /\ AprovacaoFirme
  /\ \A c \in Calculos : calculos[c].fase = "gravar" => calculos[c].achou \notin firmes

-----------------------------------------------------------------------------
(* Well-typed rows, one lemma for each way of writing them. *)

LEMMA TipoInserir ==
  ASSUME vendas \in [Vendas -> VendaRow], NEW o \in Origens, NEW a \in ApresentadoraOuNula,
         NEW autor \in Autores, NEW base \in SUBSET OrigemOuNula, Inserir(o, a, autor, base)
  PROVE  vendas' \in [Vendas -> VendaRow]
<1>1. [status |-> "pendente_aprovacao", origem |-> o, apresentadora |-> a, criada |-> autor,
       por |-> autor, base |-> base] \in VendaRow
  BY DEF VendaRow, VendaStatus, OrigemOuNula
<1> QED BY <1>1 DEF Inserir

LEMMA TipoUpsert ==
  ASSUME vendas \in [Vendas -> VendaRow], NEW o \in Origens, NEW a \in ApresentadoraOuNula,
         NEW autor \in Autores, UpsertVenda(o, a, autor)
  PROVE  vendas' \in [Vendas -> VendaRow]
<1>1. CASE Inserir(o, a, autor, {})
  BY <1>1, TipoInserir
<1>2. CASE Atualizar(o, a, autor)
  <2>1. PICK v \in Vendas :
          vendas' = [vendas EXCEPT ![v].por = autor, ![v].base = {},
                                   ![v].criada = IF autor = "mao" THEN "mao" ELSE @]
    BY <1>2 DEF Atualizar, VendasDe
  <2>2. vendas[v] \in VendaRow
    OBVIOUS
  <2>3. (IF autor = "mao" THEN "mao" ELSE vendas[v].criada) \in Autores
    BY <2>2 DEF VendaRow, Autores
  <2> DEFINE k == IF autor = "mao" THEN "mao" ELSE vendas[v].criada
             r == [vendas[v] EXCEPT !.por = autor, !.base = {}, !.criada = k]
  <2>4. r \in VendaRow
    <3> HIDE DEF k
    <3> QED BY <2>2, <2>3 DEF VendaRow, k
  <2>5. vendas' = [vendas EXCEPT ![v] = r]
    BY <2>1, <2>2 DEF VendaRow
  <2> HIDE DEF r
  <2> QED BY <2>4, <2>5
<1> QED BY <1>1, <1>2 DEF UpsertVenda

LEMMA TipoLancar ==
  ASSUME vendas \in [Vendas -> VendaRow], NEW l \in Lives, NEW a \in ApresentadoraOuNula,
         LancarVenda(l, a)
  PROVE  vendas' \in [Vendas -> VendaRow]
<1>1. l \in Origens /\ "rota" \in Autores
  BY DEF Origens, Autores
<1> QED BY <1>1, TipoUpsert DEF LancarVenda

LEMMA LivreTipo == Livre \in CalculoRow
  BY DEF Livre, CalculoRow, ApresentadoraOuNula

(* A step of a recalculation writes one row of calculos. *)
LEMMA TipoPasso ==
  ASSUME Tipo, NEW c \in Calculos, NEW r \in CalculoRow, r.fase # "livre" => r.live \in Lives,
         calculos' = [calculos EXCEPT ![c] = r]
  PROVE  calculos' \in [Calculos -> CalculoRow] /\ CalculoCoerente'
  BY DEF Tipo, TypeOK, CalculoCoerente

LEMMA TipoDisparar ==
  ASSUME Tipo, NEW l \in Lives, Disparar(l)
  PROVE  calculos' \in [Calculos -> CalculoRow] /\ CalculoCoerente'
<1>1. PICK c \in Calculos : calculos' = [calculos EXCEPT ![c] = [Livre EXCEPT !.fase = "live", !.live = l]]
  BY DEF Disparar
<1>2. [Livre EXCEPT !.fase = "live", !.live = l] \in CalculoRow
  BY LivreTipo DEF CalculoRow
<1>3. [Livre EXCEPT !.fase = "live", !.live = l].live = l
  BY DEF Livre
<1> QED BY <1>1, <1>2, <1>3, TipoPasso

LEMMA TipoTerminar ==
  ASSUME Tipo, NEW c \in Calculos, Terminar(c)
  PROVE  calculos' \in [Calculos -> CalculoRow] /\ CalculoCoerente'
<1>1. Livre.fase = "livre"
  BY DEF Livre
<1> QED BY <1>1, LivreTipo, TipoPasso DEF Terminar

LEMMA TipoProxima ==
  ASSUME Tipo, NEW c \in Calculos, calculos[c].fase # "livre", Proxima(c)
  PROVE  calculos' \in [Calculos -> CalculoRow] /\ CalculoCoerente'
<1>1. CASE Terminar(c)
  BY <1>1, TipoTerminar
<1>2. CASE calculos' = [calculos EXCEPT ![c].fase = "somar", ![c].atual = NULL,
                                        ![c].base = {}, ![c].achou = NULL]
  <2> DEFINE r == [calculos[c] EXCEPT !.fase = "somar", !.atual = NULL, !.base = {}, !.achou = NULL]
  <2>1. calculos[c] \in CalculoRow /\ calculos[c].live \in Lives
    BY DEF Tipo, TypeOK, CalculoCoerente
  <2>2. r \in CalculoRow /\ r.live \in Lives
    BY <2>1 DEF CalculoRow, ApresentadoraOuNula
  <2>3. calculos' = [calculos EXCEPT ![c] = r]
    BY <1>2, <2>1 DEF CalculoRow
  <2> HIDE DEF r
  <2> QED BY <2>2, <2>3, TipoPasso
<1> QED BY <1>1, <1>2 DEF Proxima

-----------------------------------------------------------------------------
LEMMA TipoInit == Init => Tipo
<1> SUFFICES ASSUME Init PROVE Tipo
  OBVIOUS
<1>1. SemVenda \in VendaRow
  BY DEF SemVenda, VendaRow, VendaStatus, ApresentadoraOuNula, OrigemOuNula, Autores
<1> QED BY <1>1, LivreTipo DEF Init, Tipo, TypeOK, CalculoCoerente, LiveRow, VideoStatus, Livre

LEMMA TipoLives ==
  ASSUME Tipo, NEW l \in Lives,
         \/ IniciarLive(l) \/ EncerrarLive(l) \/ FinalizarPeloPoll(l) \/ CriarLiveManual(l)
         \/ EditarLive(l) \/ ExcluirLive(l) \/ \E a \in ComConta : MudarEquipe(l, a)
  PROVE  Tipo'
<1>1. CASE IniciarLive(l)
  <2>1. PICK p \in ComConta \cup {NULL} :
          lives' = [lives EXCEPT ![l].status = "em_andamento", ![l].principal = p]
    BY <1>1 DEF IniciarLive
  <2>2. lives' \in [Lives -> LiveRow]
    BY <2>1 DEF Tipo, TypeOK, LiveRow
  <2> QED BY <1>1, <2>2 DEF IniciarLive, Tipo, TypeOK, CalculoCoerente
<1>2. CASE EncerrarLive(l)
  <2>1. lives' \in [Lives -> LiveRow]
    BY <1>2 DEF EncerrarLive, Tipo, TypeOK, LiveRow
  <2>2. lives[l].principal \in ApresentadoraOuNula
    BY ConstantesAssumption DEF Tipo, TypeOK, LiveRow, ApresentadoraOuNula
  <2>3. vendas' \in [Vendas -> VendaRow]
    BY <1>2, <2>2, TipoLancar DEF EncerrarLive, Tipo, TypeOK
  <2>4. calculos' \in [Calculos -> CalculoRow] /\ CalculoCoerente' /\ incertas' \subseteq Lives
    BY <1>2, TipoDisparar DEF EncerrarLive, Recalcular, Tipo, TypeOK
  <2> QED BY <1>2, <2>1, <2>3, <2>4 DEF EncerrarLive, Tipo, TypeOK
<1>3. CASE FinalizarPeloPoll(l)
  BY <1>3 DEF FinalizarPeloPoll, Tipo, TypeOK, CalculoCoerente, LiveRow
<1>4. CASE CriarLiveManual(l)
  <2>1. PICK a \in ApresentadoraOuNula, s \in ApresentadoraOuNula :
          /\ lives' = [lives EXCEPT ![l] = [status |-> "encerrada",
                         principal |-> IF a \in ComConta THEN a ELSE NULL,
                         segundas |-> {s} \cap ComConta]]
          /\ LancarVenda(l, a)
    BY <1>4 DEF CriarLiveManual
  <2>2. lives' \in [Lives -> LiveRow]
    BY <2>1 DEF Tipo, TypeOK, LiveRow
  <2>3. vendas' \in [Vendas -> VendaRow]
    BY <2>1, TipoLancar DEF Tipo, TypeOK
  <2> QED BY <1>4, <2>2, <2>3 DEF CriarLiveManual, Tipo, TypeOK, CalculoCoerente
<1>5. CASE EditarLive(l)
  <2>1. lives' \in [Lives -> LiveRow]
    <3>1. CASE UNCHANGED lives
      BY <3>1 DEF Tipo, TypeOK
    <3>2. CASE \E p \in ComConta \cup {lives[l].principal}, s \in {{}} \cup {{a} : a \in ComConta} :
                 lives' = [lives EXCEPT ![l].principal = p, ![l].segundas = s]
      <4>1. PICK p \in ComConta \cup {lives[l].principal}, s \in {{}} \cup {{a} : a \in ComConta} :
              lives' = [lives EXCEPT ![l].principal = p, ![l].segundas = s]
        BY <3>2
      <4>2. p \in ComConta \cup {NULL} /\ s \in SUBSET ComConta
        BY DEF Tipo, TypeOK, LiveRow
      <4> QED BY <4>1, <4>2, ZenonT(60) DEF Tipo, TypeOK, LiveRow
    <3> QED BY <1>5, <3>1, <3>2 DEF EditarLive
  <2>2. calculos' \in [Calculos -> CalculoRow] /\ CalculoCoerente' /\ incertas' \subseteq Lives
    <3>1. CASE Disparar(l)
      BY <1>5, <3>1, TipoDisparar DEF EditarLive, Recalcular, Tipo, TypeOK
    <3>2. CASE calculos' = calculos
      BY <1>5, <3>2 DEF EditarLive, Recalcular, Tipo, TypeOK, CalculoCoerente
    <3> QED BY <1>5, <3>1, <3>2 DEF EditarLive, Recalcular
  <2> QED BY <1>5, <2>1, <2>2 DEF EditarLive, Tipo, TypeOK
<1>6. CASE ExcluirLive(l)
  BY <1>6 DEF ExcluirLive, Tipo, TypeOK, CalculoCoerente, LiveRow
<1>7. CASE \E a \in ComConta : MudarEquipe(l, a)
  BY <1>7 DEF MudarEquipe, Tipo, TypeOK, CalculoCoerente, LiveRow
<1> QED BY <1>1, <1>2, <1>3, <1>4, <1>5, <1>6, <1>7

LEMMA TipoCalculo ==
  ASSUME Tipo, NEW c \in Calculos,
         LerLive(c) \/ LerEquipe(c) \/ Somar(c) \/ Buscar(c) \/ Gravar(c) \/ Falhar(c)
  PROVE  Tipo'
<1> DEFINE Passo(r) == calculos' = [calculos EXCEPT ![c] = r]
           Boa(r) == r \in CalculoRow /\ r.live \in Lives
<1>0. calculos[c] \in CalculoRow /\ (calculos[c].fase # "livre" => Boa(calculos[c]))
  BY DEF Tipo, TypeOK, CalculoCoerente
<1>1. CASE LerLive(c)
  <2> DEFINE l == calculos[c].live
             f == {lives[l].principal} \ {NULL}
             r == [calculos[c] EXCEPT !.fase = "equipe", !.fila = f]
  <2>1. Boa(calculos[c])
    BY <1>0, <1>1 DEF LerLive
  <2>2. CASE calculos' = [calculos EXCEPT ![c].fase = "equipe", ![c].fila = f]
    <3>1. f \subseteq ApresentadoraOuNula
      BY <2>1, ConstantesAssumption DEF Tipo, TypeOK, LiveRow, ApresentadoraOuNula
    <3>2. Boa(r)
      <4> HIDE DEF f
      <4> QED BY <2>1, <3>1 DEF CalculoRow
    <3>3. Passo(r)
      BY <2>1, <2>2 DEF CalculoRow
    <3> HIDE DEF r
    <3> QED BY <1>1, <3>2, <3>3, TipoPasso DEF LerLive, Tipo, TypeOK
  <2>3. CASE Terminar(c)
    BY <1>1, <2>3, TipoTerminar DEF LerLive, Tipo, TypeOK
  <2> QED BY <1>1, <2>2, <2>3 DEF LerLive
<1>2. CASE LerEquipe(c)
  <2> DEFINE todas == calculos[c].fila \cup lives[calculos[c].live].segundas
             f == IF todas = {} THEN {NULL} ELSE todas
             r == [calculos[c] EXCEPT !.fase = "somar", !.fila = f]
  <2>1. Boa(calculos[c])
    BY <1>0, <1>2 DEF LerEquipe
  <2>2. todas \subseteq ApresentadoraOuNula
    BY <2>1, ConstantesAssumption DEF Tipo, TypeOK, LiveRow, CalculoRow, ApresentadoraOuNula
  <2>3. f \subseteq ApresentadoraOuNula
    BY <2>2 DEF ApresentadoraOuNula
  <2>4. calculos' = [calculos EXCEPT ![c].fase = "somar", ![c].fila = f]
    BY <1>2 DEF LerEquipe
  <2> HIDE DEF f
  <2>5. Boa(r) /\ Passo(r)
    BY <2>1, <2>3, <2>4 DEF CalculoRow
  <2> HIDE DEF r
  <2> QED BY <1>2, <2>5, TipoPasso DEF LerEquipe, Tipo, TypeOK
<1>3. CASE Somar(c)
  <2>1. PICK a \in calculos[c].fila :
          calculos' = [calculos EXCEPT ![c].fase = "buscar", ![c].atual = a, ![c].fila = @ \ {a},
                         ![c].base = IF a = NULL THEN {} ELSE Acumulado(a, calculos[c].live)]
    BY <1>3 DEF Somar
  <2> DEFINE b == IF a = NULL THEN {} ELSE Acumulado(a, calculos[c].live)
             f == calculos[c].fila \ {a}
             r == [calculos[c] EXCEPT !.fase = "buscar", !.atual = a, !.fila = f, !.base = b]
  <2>2. Boa(calculos[c])
    BY <1>0, <1>3 DEF Somar
  <2>3. a \in ApresentadoraOuNula /\ f \subseteq ApresentadoraOuNula
    BY <2>2 DEF CalculoRow
  <2>4. b \subseteq OrigemOuNula
    BY DEF Tipo, TypeOK, VendaRow, Acumulado
  <2>5. calculos' = [calculos EXCEPT ![c].fase = "buscar", ![c].atual = a, ![c].fila = f, ![c].base = b]
    BY <2>1
  <2> HIDE DEF b, f
  <2>6. Boa(r) /\ Passo(r)
    BY <2>2, <2>3, <2>4, <2>5 DEF CalculoRow
  <2> HIDE DEF r
  <2> QED BY <1>3, <2>6, TipoPasso DEF Somar, Tipo, TypeOK
<1>4. CASE Buscar(c)
  <2>1. Boa(calculos[c])
    BY <1>0, <1>4 DEF Buscar
  <2>2. CASE Proxima(c)
    BY <1>4, <2>2, TipoProxima DEF Buscar, Tipo, TypeOK
  <2>3. CASE \E v \in Vendas \cup {NULL} : calculos' = [calculos EXCEPT ![c].fase = "gravar", ![c].achou = v]
    <3>1. PICK v \in Vendas \cup {NULL} : calculos' = [calculos EXCEPT ![c].fase = "gravar", ![c].achou = v]
      BY <2>3
    <3> DEFINE r == [calculos[c] EXCEPT !.fase = "gravar", !.achou = v]
    <3>2. Boa(r) /\ Passo(r)
      BY <2>1, <3>1 DEF CalculoRow
    <3> HIDE DEF r
    <3> QED BY <1>4, <3>2, TipoPasso DEF Buscar, Tipo, TypeOK
  <2> QED BY <1>4, <2>2, <2>3 DEF Buscar, VendasDe
<1>5. CASE Gravar(c)
  <2>1. calculos[c].fase # "livre" /\ calculos[c].live \in Origens /\ calculos[c].achou \in Vendas \cup {NULL}
        /\ calculos[c].atual \in ApresentadoraOuNula /\ calculos[c].base \subseteq OrigemOuNula
    BY <1>5 DEF Gravar, Tipo, TypeOK, CalculoCoerente, CalculoRow, Origens
  <2>2. calculos' \in [Calculos -> CalculoRow] /\ CalculoCoerente'
    BY <1>5, <2>1, TipoTerminar, TipoProxima DEF Gravar
  <2>3. vendas' \in [Vendas -> VendaRow]
    <3>1. CASE AtualizarAchada(c) /\ calculos[c].achou # NULL
      BY <2>1, <3>1 DEF AtualizarAchada, Tipo, TypeOK, VendaRow, VendaStatus, Autores
    <3>2. CASE Inserir(calculos[c].live, calculos[c].atual, "motor", calculos[c].base)
      BY <2>1, <3>2, TipoInserir DEF Tipo, TypeOK, Autores
    <3>3. CASE vendas' = vendas
      BY <3>3 DEF Tipo, TypeOK
    <3> QED BY <1>5, <3>1, <3>2, <3>3 DEF Gravar
  <2> QED BY <1>5, <2>2, <2>3 DEF Gravar, Tipo, TypeOK
<1>6. CASE Falhar(c)
  <2>1. calculos[c].live \in Lives
    BY <1>6 DEF Falhar, Tipo, CalculoCoerente
  <2> QED BY <1>6, <2>1, TipoTerminar DEF Falhar, Tipo, TypeOK
<1> QED BY <1>1, <1>2, <1>3, <1>4, <1>5, <1>6

LEMMA TipoResto ==
  ASSUME Tipo,
         \/ \E x \in Videos : \/ \E a \in ApresentadoraOuNula : CriarVideo(x, a) \/ EditarVideo(x, a)
                              \/ ExcluirVideo(x)
         \/ \E o \in Origens, a \in ApresentadoraOuNula : LancarPorMao(o, a)
         \/ \E v \in Vendas : \/ Aprovar(v) \/ Reprovar(v)
                              \/ \E a \in ApresentadoraOuNula : CorrigirVenda(v, a)
         \/ UNCHANGED vars
  PROVE  Tipo'
<1>1. ASSUME NEW x \in Videos, NEW a \in ApresentadoraOuNula, CriarVideo(x, a) \/ EditarVideo(x, a)
      PROVE Tipo'
  <2>1. x \in Origens /\ "rota" \in Autores
    BY DEF Origens, Autores
  <2>2. vendas' \in [Vendas -> VendaRow]
    BY <1>1, <2>1, TipoUpsert DEF CriarVideo, EditarVideo, Tipo, TypeOK
  <2> QED BY <1>1, <2>2 DEF CriarVideo, EditarVideo, Tipo, TypeOK, CalculoCoerente, VideoStatus
<1>2. ASSUME NEW x \in Videos, ExcluirVideo(x) PROVE Tipo'
  <2>1. SemVenda \in VendaRow
    BY DEF SemVenda, VendaRow, VendaStatus, ApresentadoraOuNula, OrigemOuNula, Autores
  <2> QED BY <1>2, <2>1 DEF ExcluirVideo, Tipo, TypeOK, CalculoCoerente, VideoStatus
<1>3. ASSUME NEW o \in Origens, NEW a \in ApresentadoraOuNula, LancarPorMao(o, a) PROVE Tipo'
  <2>1. vendas' \in [Vendas -> VendaRow]
    BY <1>3, TipoUpsert DEF LancarPorMao, Tipo, TypeOK, Autores
  <2> QED BY <1>3, <2>1 DEF LancarPorMao, Tipo, TypeOK, CalculoCoerente
<1>4. ASSUME NEW v \in Vendas, Aprovar(v) \/ Reprovar(v) PROVE Tipo'
  <2>1. vendas' \in [Vendas -> VendaRow]
    <3>1. PICK s \in VendaStatus : vendas' = [vendas EXCEPT ![v].status = s]
      BY <1>4 DEF Aprovar, Reprovar, VendaStatus
    <3>2. [vendas[v] EXCEPT !.status = s] \in VendaRow
      BY DEF Tipo, TypeOK, VendaRow
    <3> QED BY <3>1, <3>2 DEF Tipo, TypeOK
  <2>2. firmes' \subseteq Vendas
    BY <1>4 DEF Aprovar, Reprovar, Tipo, TypeOK
  <2> QED BY <1>4, <2>1, <2>2 DEF Aprovar, Reprovar, Tipo, TypeOK, CalculoCoerente
<1>5. ASSUME NEW v \in Vendas, NEW a \in ApresentadoraOuNula, CorrigirVenda(v, a) PROVE Tipo'
  <2> DEFINE r == [vendas[v] EXCEPT !.apresentadora = a, !.por = "mao", !.base = {}, !.criada = "mao"]
  <2>1. vendas[v] \in VendaRow
    BY DEF Tipo, TypeOK
  <2>2. r \in VendaRow /\ vendas' = [vendas EXCEPT ![v] = r]
    BY <1>5, <2>1 DEF CorrigirVenda, VendaRow, Autores
  <2> HIDE DEF r
  <2>3. vendas' \in [Vendas -> VendaRow]
    BY <2>2 DEF Tipo, TypeOK
  <2>4. incertas' \subseteq Lives
    BY <1>5 DEF CorrigirVenda, Tipo, TypeOK
  <2> QED BY <1>5, <2>3, <2>4 DEF CorrigirVenda, Tipo, TypeOK, CalculoCoerente
<1>6. CASE UNCHANGED vars
  BY <1>6 DEF vars, Tipo, TypeOK, CalculoCoerente
<1> QED BY <1>1, <1>2, <1>3, <1>4, <1>5, <1>6

LEMMA TipoNext == Tipo /\ [Next]_vars => Tipo'
  BY TipoLives, TipoCalculo, TipoResto DEF Next

(* Every reachable state is well typed: in particular no row leaves the statuses of the  *)
(* CHECK of migration 083.                                                               *)
THEOREM TypeCorrect == Spec => []TypeOK
<1>1. Tipo => TypeOK
  BY DEF Tipo
<1> QED BY <1>1, TipoInit, TipoNext, PTL DEF Spec

-----------------------------------------------------------------------------
(* What the ways of writing rows and recalculations leave alone. *)

StatusMantido == \A v \in firmes : vendas'[v].status = vendas[v].status

LEMMA InserirStatus ==
  ASSUME Tipo, Firmeza, NEW o, NEW a, NEW autor, NEW base, Inserir(o, a, autor, base)
  PROVE  StatusMantido
<1>1. PICK w \in Vendas :
        /\ ~Existe(w)
        /\ \E r : vendas' = [vendas EXCEPT ![w] = r]
  BY DEF Inserir
<1>2. w \notin firmes
  BY <1>1 DEF Firmeza, AprovacaoFirme, Existe
<1> QED BY <1>1, <1>2 DEF StatusMantido, Tipo, TypeOK

LEMMA AtualizarStatus ==
  ASSUME Tipo, NEW o, NEW a, NEW autor, Atualizar(o, a, autor)
  PROVE  StatusMantido
<1>1. PICK w \in Vendas :
        vendas' = [vendas EXCEPT ![w].por = autor, ![w].base = {},
                                 ![w].criada = IF autor = "mao" THEN "mao" ELSE @]
  BY DEF Atualizar, VendasDe
<1> QED BY <1>1 DEF StatusMantido, Tipo, TypeOK, VendaRow

LEMMA UpsertStatus ==
  ASSUME Tipo, Firmeza, NEW o, NEW a, NEW autor, UpsertVenda(o, a, autor)
  PROVE  StatusMantido
BY InserirStatus, AtualizarStatus DEF UpsertVenda

NadaAchado ==
  \A d \in Calculos : calculos'[d].fase = "gravar" => calculos[d].fase = "gravar" /\ calculos'[d] = calculos[d]

LEMMA DispararNada == ASSUME Tipo, NEW l \in Lives, Disparar(l) PROVE NadaAchado
<1>1. [Livre EXCEPT !.fase = "live", !.live = l].fase = "live"
  BY DEF Livre
<1> QED BY <1>1 DEF Disparar, NadaAchado, Tipo, TypeOK

LEMMA TerminarNada == ASSUME Tipo, NEW c \in Calculos, Terminar(c) PROVE NadaAchado
BY DEF Terminar, Livre, NadaAchado, Tipo, TypeOK

LEMMA ProximaNada == ASSUME Tipo, NEW c \in Calculos, Proxima(c) PROVE NadaAchado
<1>1. CASE calculos' = [calculos EXCEPT ![c].fase = "somar", ![c].atual = NULL,
                                        ![c].base = {}, ![c].achou = NULL]
  BY <1>1 DEF NadaAchado, Tipo, TypeOK, CalculoRow
<1> QED BY <1>1, TerminarNada DEF Proxima

(* The approval lasts: one conjunct for the rows, one for what is about to be written.   *)
LEMMA FirmeMantida ==
  ASSUME Firmeza, StatusMantido, NadaAchado, firmes' \subseteq firmes
  PROVE  Firmeza'
BY DEF Firmeza, AprovacaoFirme, StatusMantido, NadaAchado

LEMMA FirmeNext == Tipo /\ Firmeza /\ [Next]_vars => Firmeza'
<1> SUFFICES ASSUME Tipo, Firmeza, [Next]_vars PROVE Firmeza'
  OBVIOUS
<1>s. ASSUME UNCHANGED vendas PROVE StatusMantido
  BY <1>s DEF StatusMantido
<1>n. ASSUME UNCHANGED calculos PROVE NadaAchado
  BY <1>n DEF NadaAchado
<1>1. ASSUME NEW l \in Lives,
             \/ IniciarLive(l) \/ FinalizarPeloPoll(l) \/ ExcluirLive(l)
             \/ \E a \in ComConta : MudarEquipe(l, a)
      PROVE Firmeza'
  BY <1>1, <1>s, <1>n, FirmeMantida DEF IniciarLive, FinalizarPeloPoll, ExcluirLive, MudarEquipe
<1>2. ASSUME NEW l \in Lives, EncerrarLive(l) PROVE Firmeza'
  <2>1. StatusMantido
    BY <1>2, <1>s, UpsertStatus DEF EncerrarLive, LancarVenda
  <2> QED BY <1>2, <2>1, DispararNada, FirmeMantida DEF EncerrarLive, Recalcular
<1>3. ASSUME NEW l \in Lives, CriarLiveManual(l) PROVE Firmeza'
  <2>1. StatusMantido
    BY <1>3, <1>s, UpsertStatus DEF CriarLiveManual, LancarVenda
  <2> QED BY <1>3, <2>1, <1>n, FirmeMantida DEF CriarLiveManual
<1>4. ASSUME NEW l \in Lives, EditarLive(l) PROVE Firmeza'
  <2>1. NadaAchado
    BY <1>4, <1>n, DispararNada DEF EditarLive, Recalcular
  <2> QED BY <1>4, <2>1, <1>s, FirmeMantida DEF EditarLive
<1>5. ASSUME NEW c \in Calculos, LerLive(c) \/ LerEquipe(c) \/ Somar(c) \/ Falhar(c) PROVE Firmeza'
  <2>1. CASE Terminar(c)
    BY <1>5, <2>1, <1>s, TerminarNada, FirmeMantida DEF LerLive, LerEquipe, Somar, Falhar
  <2> DEFINE Avanca == /\ calculos'[c].fase \in {"equipe", "somar", "buscar"}
                       /\ \A d \in Calculos \ {c} : calculos'[d] = calculos[d]
  <2>2. CASE Avanca
    <3>1. NadaAchado
      BY <2>2 DEF NadaAchado
    <3> QED BY <1>5, <3>1, <1>s, FirmeMantida DEF LerLive, LerEquipe, Somar, Falhar
  <2>3. ASSUME LerLive(c), ~Terminar(c) PROVE Avanca
    BY <2>3 DEF LerLive, Tipo, TypeOK, CalculoRow
  <2>4. ASSUME LerEquipe(c) PROVE Avanca
    BY <2>4 DEF LerEquipe, Tipo, TypeOK, CalculoRow
  <2>5. ASSUME Somar(c) PROVE Avanca
    BY <2>5 DEF Somar, Tipo, TypeOK, CalculoRow
  <2> QED BY <1>5, <2>1, <2>2, <2>3, <2>4, <2>5 DEF Falhar
<1>6. ASSUME NEW c \in Calculos, Buscar(c) PROVE Firmeza'
  <2>1. CASE Proxima(c)
    BY <1>6, <2>1, <1>s, ProximaNada, FirmeMantida DEF Buscar
  <2>2. CASE \E v \in Vendas \cup {NULL} :
               v \notin firmes /\ calculos' = [calculos EXCEPT ![c].fase = "gravar", ![c].achou = v]
    <3>1. PICK v \in Vendas \cup {NULL} :
               v \notin firmes /\ calculos' = [calculos EXCEPT ![c].fase = "gravar", ![c].achou = v]
      BY <2>2
    <3>2. calculos'[c].achou = v /\ \A d \in Calculos \ {c} : calculos'[d] = calculos[d]
      BY <3>1 DEF Tipo, TypeOK, CalculoRow
    <3>3. vendas' = vendas /\ firmes' = firmes
      BY <1>6 DEF Buscar
    <3>4. ASSUME NEW d \in Calculos, calculos'[d].fase = "gravar" PROVE calculos'[d].achou \notin firmes
      BY <3>1, <3>2, <3>4 DEF Firmeza
    <3> QED BY <3>3, <3>4 DEF Firmeza, AprovacaoFirme
  <2>3. NULL \notin firmes
    BY ConstantesAssumption DEF Tipo, TypeOK
  <2>4. \A v \in Vendas : ~Intocavel(v) => v \notin firmes
    BY DEF Intocavel, Firmeza, AprovacaoFirme
  <2> QED BY <1>6, <2>1, <2>2, <2>3, <2>4 DEF Buscar, VendasDe
<1>7. ASSUME NEW c \in Calculos, Gravar(c) PROVE Firmeza'
  <2>1. NadaAchado
    BY <1>7, TerminarNada, ProximaNada DEF Gravar
  <2>2. CASE AtualizarAchada(c)
    <3>1. calculos[c].achou \notin firmes
      BY <1>7 DEF Gravar, Firmeza
    <3>2. StatusMantido
      BY <2>2, <3>1 DEF AtualizarAchada, StatusMantido, Tipo, TypeOK
    <3> QED BY <1>7, <2>1, <3>2, FirmeMantida DEF Gravar
  <2>3. CASE Inserir(calculos[c].live, calculos[c].atual, "motor", calculos[c].base) \/ UNCHANGED vendas
    <3>1. StatusMantido
      BY <2>3, <1>s, InserirStatus
    <3> QED BY <1>7, <2>1, <3>1, FirmeMantida DEF Gravar
  <2> QED BY <1>7, <2>2, <2>3 DEF Gravar
<1>8. ASSUME NEW x \in Videos, NEW a \in ApresentadoraOuNula, CriarVideo(x, a) \/ EditarVideo(x, a)
      PROVE Firmeza'
  <2>1. StatusMantido
    BY <1>8, <1>s, UpsertStatus DEF CriarVideo, EditarVideo
  <2> QED BY <1>8, <2>1, <1>n, FirmeMantida DEF CriarVideo, EditarVideo
<1>9. ASSUME NEW x \in Videos, ExcluirVideo(x) PROVE Firmeza'
  BY <1>9 DEF ExcluirVideo, Firmeza, AprovacaoFirme, Tipo, TypeOK
<1>10. ASSUME NEW o \in Origens, NEW a \in ApresentadoraOuNula, LancarPorMao(o, a) PROVE Firmeza'
  BY <1>10, <1>n, UpsertStatus, FirmeMantida DEF LancarPorMao
<1>11. ASSUME NEW v \in Vendas, NEW a \in ApresentadoraOuNula, CorrigirVenda(v, a) PROVE Firmeza'
  <2>1. StatusMantido
    BY <1>11 DEF CorrigirVenda, StatusMantido, Tipo, TypeOK, VendaRow
  <2> QED BY <1>11, <2>1, <1>n, FirmeMantida DEF CorrigirVenda
<1>12. ASSUME NEW v \in Vendas, Aprovar(v) PROVE Firmeza'
  <2>1. vendas'[v].status = "aprovada" /\ \A w \in Vendas \ {v} : vendas'[w] = vendas[w]
    BY <1>12 DEF Aprovar, Tipo, TypeOK, VendaRow
  <2>2. calculos' = calculos /\ firmes' \subseteq firmes \cup {v} /\ (v \in firmes' => v \in firmes \/ Visada(v) = {})
    BY <1>12 DEF Aprovar
  <2> QED BY <2>1, <2>2 DEF Firmeza, AprovacaoFirme, Visada, Tipo, TypeOK
<1>13. ASSUME NEW v \in Vendas, Reprovar(v) PROVE Firmeza'
  BY <1>13 DEF Reprovar, Firmeza, AprovacaoFirme, Tipo, TypeOK
<1>14. CASE UNCHANGED vars
  BY <1>14, <1>s, <1>n, FirmeMantida DEF vars
<1> QED BY <1>1, <1>2, <1>3, <1>4, <1>5, <1>6, <1>7, <1>8, <1>9, <1>10, <1>11, <1>12, <1>13, <1>14 DEF Next

(* A sale approved while no recalculation was about to write it stays approved until it  *)
(* is rejected or its video deleted, whatever the recalculations, later ends of lives,   *)
(* corrections and entries by hand do: commission-engine.js:141-150.                     *)
THEOREM FirmeCorrect == Spec => []AprovacaoFirme
<1>1. Init => Firmeza
  BY DEF Init, Firmeza, AprovacaoFirme
<1>2. Tipo /\ Firmeza /\ [Next]_vars => (Tipo /\ Firmeza)'
  BY TipoNext, FirmeNext
<1>3. Firmeza => AprovacaoFirme
  BY DEF Firmeza
<1> QED BY <1>1, <1>2, <1>3, TipoInit, PTL DEF Spec

-----------------------------------------------------------------------------
(* The bracket.  What almost every step does to the rows, the recalculations and the     *)
(* lives: no sale of a live appears, nothing is read, and what is over stays over.       *)

RotaDeLive(v) == Existe(v) /\ vendas[v].criada = "rota" /\ vendas[v].origem \in Lives

LinhasMantidas ==
  \A v \in Vendas :
    /\ Existe(v) /\ vendas[v].origem \in Lives => Existe(v)' /\ vendas'[v].origem = vendas[v].origem
    /\ vendas'[v].por = "motor" => vendas'[v].origem \in Lives
    /\ RotaDeLive(v)' =>
         /\ RotaDeLive(v)
         /\ vendas'[v].origem = vendas[v].origem /\ vendas'[v].apresentadora = vendas[v].apresentadora
         /\ vendas'[v].por = "motor" => vendas[v].por = "motor" /\ vendas'[v].base = vendas[v].base

Em(c, fases) == calculos[c].fase \in fases

AposFim == \A c \in Calculos : calculos'[c].fase # "livre" => Acabou(calculos[c].live)'

NadaLido ==
  \A c \in Calculos :
    Em(c, {"buscar", "gravar"})' =>
      /\ Em(c, {"buscar", "gravar"})
      /\ calculos'[c].live = calculos[c].live /\ calculos'[c].atual = calculos[c].atual
      /\ calculos'[c].base = calculos[c].base

Acabam == \A l \in Lives : Acabou(l) => Acabou(l)'

LEMMA SoMantido ==
  ASSUME SoDepoisDoFim, LinhasMantidas, AposFim, Acabam
  PROVE  SoDepoisDoFim'
BY DEF SoDepoisDoFim, LinhasMantidas, AposFim, Acabam, RotaDeLive

LEMMA AchadaMantida ==
  ASSUME Tipo, AchadaCoerente, LinhasMantidas, NadaAchado
  PROVE  AchadaCoerente'
<1> SUFFICES ASSUME NEW c \in Calculos, calculos'[c].fase = "gravar", calculos'[c].achou # NULL
             PROVE  /\ Existe(calculos[c].achou)'
                    /\ vendas'[calculos'[c].achou].origem = calculos'[c].live
                    /\ vendas'[calculos'[c].achou].criada = "rota"
                         => vendas'[calculos'[c].achou].apresentadora = calculos'[c].atual
  BY DEF AchadaCoerente
<1>1. calculos'[c] = calculos[c] /\ calculos[c].fase = "gravar"
  BY DEF NadaAchado
<1>2. calculos[c].achou \in Vendas /\ calculos[c].live \in Lives
  BY <1>1 DEF Tipo, TypeOK, CalculoCoerente, CalculoRow
<1> QED BY <1>1, <1>2 DEF AchadaCoerente, LinhasMantidas, RotaDeLive

(* Contam survives when readings and sales are only forgotten; nothing can have been     *)
(* read yet for a live whose first sale is being written.                                *)
LEMMA ContamMantido ==
  ASSUME Contam, NEW nova,
         \A o \in Lives \ {nova}, a \in Apresentadoras : TemVenda(o, a)' => TemVenda(o, a),
         \A o \in Lives \ {nova}, a \in Apresentadoras, B \in SUBSET OrigemOuNula : Leu(o, a, B)' => Leu(o, a, B),
         \A a \in Apresentadoras, B \in SUBSET OrigemOuNula : nova \in Lives => ~Leu(nova, a, B)'
  PROVE  Contam'
<1> SUFFICES ASSUME NEW o1 \in Lives, NEW o2 \in Lives, NEW a \in Apresentadoras,
                    NEW B1 \in SUBSET OrigemOuNula, NEW B2 \in SUBSET OrigemOuNula,
                    o1 # o2, TemVenda(o1, a)', TemVenda(o2, a)', Leu(o1, a, B1)', Leu(o2, a, B2)'
             PROVE  o2 \in B1 \/ o1 \in B2
  BY DEF Contam
<1>1. o1 # nova /\ o2 # nova
  OBVIOUS
<1>2. TemVenda(o1, a) /\ TemVenda(o2, a) /\ Leu(o1, a, B1) /\ Leu(o2, a, B2)
  BY <1>1
<1> QED BY <1>2 DEF Contam

LEMMA FaixaMantida ==
  ASSUME Tipo, Faixa, LinhasMantidas, AposFim, NadaLido, NadaAchado, Acabam
  PROVE  Faixa'
<1>1. ASSUME NEW o \in Lives, NEW a \in Apresentadoras, TemVenda(o, a)' PROVE TemVenda(o, a)
  BY <1>1 DEF TemVenda, LinhasMantidas, RotaDeLive
<1>2. ASSUME NEW o \in Lives, NEW a \in Apresentadoras, NEW B \in SUBSET OrigemOuNula, Leu(o, a, B)'
      PROVE  Leu(o, a, B)
  <2>1. ASSUME NEW v \in Vendas, LinhaLeu(v, o, a, B)' PROVE LinhaLeu(v, o, a, B)
    BY <2>1 DEF LinhaLeu, LinhasMantidas, RotaDeLive
  <2>2. ASSUME NEW c \in Calculos, CalculoLeu(c, o, a, B)' PROVE CalculoLeu(c, o, a, B)
    BY <2>2 DEF CalculoLeu, NadaLido, Em
  <2> QED BY <1>2, <2>1, <2>2 DEF Leu
<1>3. PICK nova : nova \notin Lives
  BY ConstantesAssumption
<1>4. Contam'
  BY <1>1, <1>2, <1>3, ContamMantido DEF Faixa
<1> QED BY <1>4, SoMantido, AchadaMantida DEF Faixa

(* Rows. *)

LEMMA LinhasIguais == ASSUME Faixa, UNCHANGED vendas PROVE LinhasMantidas
BY DEF LinhasMantidas, Faixa, SoDepoisDoFim, RotaDeLive, Existe

LEMMA InserirLinhas ==
  ASSUME Tipo, Faixa, NEW o, NEW a, NEW autor, NEW base, Inserir(o, a, autor, base),
         autor # "rota" \/ o \notin Lives, autor = "motor" => o \in Lives
  PROVE  LinhasMantidas
<1> DEFINE r == [status |-> "pendente_aprovacao", origem |-> o, apresentadora |-> a, criada |-> autor,
                 por |-> autor, base |-> base]
<1>1. PICK w \in Vendas : ~Existe(w) /\ vendas' = [vendas EXCEPT ![w] = r]
  BY DEF Inserir
<1>2. vendas'[w] = r /\ \A v \in Vendas \ {w} : vendas'[v] = vendas[v]
  BY <1>1 DEF Tipo, TypeOK
<1> QED BY <1>1, <1>2 DEF LinhasMantidas, RotaDeLive, Existe, Faixa, SoDepoisDoFim

LEMMA AtualizarLinhas ==
  ASSUME Tipo, Faixa, NEW o, NEW a, NEW autor \in {"rota", "mao"}, Atualizar(o, a, autor)
  PROVE  LinhasMantidas
<1>1. PICK w \in Vendas :
        vendas' = [vendas EXCEPT ![w].por = autor, ![w].base = {},
                                 ![w].criada = IF autor = "mao" THEN "mao" ELSE @]
  BY DEF Atualizar, VendasDe
<1>2. /\ \A v \in Vendas \ {w} : vendas'[v] = vendas[v]
      /\ vendas'[w].status = vendas[w].status /\ vendas'[w].origem = vendas[w].origem
      /\ vendas'[w].apresentadora = vendas[w].apresentadora
      /\ vendas'[w].por = autor
      /\ vendas'[w].criada = IF autor = "mao" THEN "mao" ELSE vendas[w].criada
  BY <1>1 DEF Tipo, TypeOK, VendaRow
<1> QED BY <1>2 DEF LinhasMantidas, RotaDeLive, Existe, Faixa, SoDepoisDoFim

LEMMA UpsertLinhas ==
  ASSUME Tipo, Faixa, NEW o, NEW a, NEW autor \in {"rota", "mao"}, UpsertVenda(o, a, autor),
         autor = "mao" \/ o \notin Lives
  PROVE  LinhasMantidas
BY InserirLinhas, AtualizarLinhas DEF UpsertVenda

(* Recalculations. *)

LEMMA CalculosIguais ==
  ASSUME Tipo, Faixa, Acabam, UNCHANGED calculos PROVE AposFim /\ NadaLido /\ NadaAchado
BY DEF AposFim, NadaLido, NadaAchado, Em, Acabam, Faixa, SoDepoisDoFim, Tipo, CalculoCoerente

(* One step of one of them that reads no sales. *)
LEMMA CalculoPasso ==
  ASSUME Tipo, Faixa, Acabam, NEW c \in Calculos,
         \A d \in Calculos \ {c} : calculos'[d] = calculos[d],
         calculos'[c].fase # "livre" => calculos'[c].live \in Lives /\ Acabou(calculos[c].live)',
         ~Em(c, {"buscar", "gravar"})'
  PROVE  AposFim /\ NadaLido /\ NadaAchado
BY DEF AposFim, NadaLido, NadaAchado, Em, Acabam, Faixa, SoDepoisDoFim, Tipo, CalculoCoerente

LEMMA DispararMantem ==
  ASSUME Tipo, Faixa, Acabam, NEW l \in Lives, Acabou(l)', Disparar(l)
  PROVE  AposFim /\ NadaLido /\ NadaAchado
<1> DEFINE r == [Livre EXCEPT !.fase = "live", !.live = l]
<1>1. PICK c \in Calculos : calculos' = [calculos EXCEPT ![c] = r]
  BY DEF Disparar
<1>2. r.fase = "live" /\ r.live = l
  BY DEF Livre
<1> HIDE DEF r
<1>3. calculos'[c] = r /\ \A d \in Calculos \ {c} : calculos'[d] = calculos[d]
  BY <1>1 DEF Tipo, TypeOK
<1>4. ~Em(c, {"buscar", "gravar"})' /\ Acabou(calculos[c].live)'
  BY <1>2, <1>3 DEF Em, Acabou
<1> QED BY <1>2, <1>3, <1>4, CalculoPasso

LEMMA TerminarMantem ==
  ASSUME Tipo, Faixa, Acabam, NEW c \in Calculos, Terminar(c)
  PROVE  AposFim /\ NadaLido /\ NadaAchado
<1>1. calculos'[c].fase = "livre" /\ \A d \in Calculos \ {c} : calculos'[d] = calculos[d]
  BY DEF Terminar, Livre, Tipo, TypeOK
<1> QED BY <1>1, CalculoPasso DEF Em

LEMMA ProximaMantem ==
  ASSUME Tipo, Faixa, Acabam, NEW c \in Calculos, calculos[c].fase # "livre", Proxima(c)
  PROVE  AposFim /\ NadaLido /\ NadaAchado
<1>1. CASE calculos' = [calculos EXCEPT ![c].fase = "somar", ![c].atual = NULL,
                                        ![c].base = {}, ![c].achou = NULL]
  <2>1. calculos'[c].fase = "somar" /\ calculos'[c].live = calculos[c].live
        /\ \A d \in Calculos \ {c} : calculos'[d] = calculos[d]
    BY <1>1 DEF Tipo, TypeOK, CalculoRow
  <2>2. calculos[c].live \in Lives /\ Acabou(calculos[c].live)
    BY DEF Tipo, CalculoCoerente, Faixa, SoDepoisDoFim
  <2>3. Acabou(calculos[c].live)'
    BY <2>1, <2>2 DEF Acabam, Acabou
  <2> QED BY <2>1, <2>2, <2>3, CalculoPasso DEF Em
<1> QED BY <1>1, TerminarMantem DEF Proxima

(* The first sale of a live, written in the step that ends it: nothing of that live has  *)
(* been read, for nothing of it was computed.                                            *)
LEMMA FaixaNova ==
  ASSUME Tipo, Faixa, NEW l \in Lives, NEW a \in ApresentadoraOuNula, ~Acabou(l), Acabou(l)',
         Inserir(l, a, "rota", {}), AposFim, NadaLido, NadaAchado, Acabam
  PROVE  Faixa'
<1> DEFINE r == [status |-> "pendente_aprovacao", origem |-> l, apresentadora |-> a, criada |-> "rota",
                 por |-> "rota", base |-> {}]
<1>1. PICK w \in Vendas : ~Existe(w) /\ vendas' = [vendas EXCEPT ![w] = r]
  BY DEF Inserir
<1>2. vendas'[w] = r /\ \A v \in Vendas \ {w} : vendas'[v] = vendas[v]
  BY <1>1 DEF Tipo, TypeOK
<1>3. \A v \in Vendas : ~(RotaDeLive(v) /\ vendas[v].origem = l)
  BY DEF RotaDeLive, Faixa, SoDepoisDoFim
<1>4. \A c \in Calculos : Em(c, {"buscar", "gravar"}) => calculos[c].live # l
  BY DEF Em, Faixa, SoDepoisDoFim
<1>5. SoDepoisDoFim'
  BY <1>2 DEF Faixa, SoDepoisDoFim, AposFim, Acabam, Existe, Acabou
<1>6. AchadaCoerente'
  <2> SUFFICES ASSUME NEW c \in Calculos, calculos'[c].fase = "gravar", calculos'[c].achou # NULL
               PROVE  /\ Existe(calculos[c].achou)'
                      /\ vendas'[calculos'[c].achou].origem = calculos'[c].live
                      /\ vendas'[calculos'[c].achou].criada = "rota"
                           => vendas'[calculos'[c].achou].apresentadora = calculos'[c].atual
    BY DEF AchadaCoerente
  <2>1. calculos'[c] = calculos[c] /\ calculos[c].fase = "gravar"
    BY DEF NadaAchado
  <2>2. calculos[c].achou \in Vendas
    BY <2>1 DEF Tipo, TypeOK, CalculoRow
  <2>3. Existe(calculos[c].achou) /\ vendas'[calculos[c].achou] = vendas[calculos[c].achou]
    BY <1>1, <1>2, <2>1, <2>2 DEF Faixa, AchadaCoerente
  <2> QED BY <2>1, <2>2, <2>3 DEF Faixa, AchadaCoerente, Existe
<1>7. ASSUME NEW o \in Lives \ {l}, NEW x \in Apresentadoras, TemVenda(o, x)' PROVE TemVenda(o, x)
  BY <1>2, <1>7 DEF TemVenda, Existe
<1>8. ASSUME NEW o \in Lives, NEW x \in Apresentadoras, NEW B \in SUBSET OrigemOuNula, Leu(o, x, B)'
      PROVE  Leu(o, x, B) /\ o # l
  <2>1. ASSUME NEW v \in Vendas, LinhaLeu(v, o, x, B)' PROVE LinhaLeu(v, o, x, B) /\ o # l
    BY <1>2, <1>3, <2>1 DEF LinhaLeu, RotaDeLive, Existe
  <2>2. ASSUME NEW c \in Calculos, CalculoLeu(c, o, x, B)' PROVE CalculoLeu(c, o, x, B) /\ o # l
    BY <1>4, <2>2 DEF CalculoLeu, NadaLido, Em
  <2> QED BY <1>8, <2>1, <2>2 DEF Leu
<1>9. Contam'
  BY <1>7, <1>8, ContamMantido DEF Faixa
<1> QED BY <1>5, <1>6, <1>9 DEF Faixa

LEMMA FaixaLancar ==
  ASSUME Tipo, Faixa, NEW l \in Lives, NEW a \in ApresentadoraOuNula, ~Acabou(l), Acabou(l)',
         LancarVenda(l, a), AposFim, NadaLido, NadaAchado, Acabam
  PROVE  Faixa'
<1>1. CASE Inserir(l, a, "rota", {})
  BY <1>1, FaixaNova
<1>2. CASE Atualizar(l, a, "rota") \/ UNCHANGED vendas
  BY <1>2, AtualizarLinhas, LinhasIguais, FaixaMantida
<1> QED BY <1>1, <1>2 DEF LancarVenda, UpsertVenda

(* A reading: it contains every other live that has a sale of the presenter by now.      *)
LEMMA FaixaSomar == ASSUME Tipo, Faixa, NEW c \in Calculos, Somar(c) PROVE Faixa'
<1> DEFINE l == calculos[c].live
<1>1. PICK a \in calculos[c].fila :
        calculos' = [calculos EXCEPT ![c].fase = "buscar", ![c].atual = a, ![c].fila = @ \ {a},
                       ![c].base = IF a = NULL THEN {} ELSE Acumulado(a, l)]
  BY DEF Somar
<1>2. /\ calculos'[c].fase = "buscar" /\ calculos'[c].live = l /\ calculos'[c].atual = a
      /\ calculos'[c].base = IF a = NULL THEN {} ELSE Acumulado(a, l)
      /\ \A d \in Calculos \ {c} : calculos'[d] = calculos[d]
  BY <1>1 DEF Tipo, TypeOK, CalculoRow
<1>3. lives' = lives /\ vendas' = vendas /\ calculos[c].fase = "somar"
  BY DEF Somar
<1>4. SoDepoisDoFim'
  BY <1>2, <1>3 DEF Faixa, SoDepoisDoFim, Existe, Acabou
<1>5. AchadaCoerente'
  BY <1>2, <1>3 DEF Faixa, AchadaCoerente, Existe
<1>6. ASSUME NEW o \in Lives, NEW x \in Apresentadoras, NEW B \in SUBSET OrigemOuNula, Leu(o, x, B)'
      PROVE  Leu(o, x, B) \/ (o = l /\ \A o2 \in Lives \ {l} : TemVenda(o2, x) => o2 \in B)
  <2>1. ASSUME NEW v \in Vendas, LinhaLeu(v, o, x, B)' PROVE LinhaLeu(v, o, x, B)
    BY <1>3, <2>1 DEF LinhaLeu, Existe
  <2>2. ASSUME NEW d \in Calculos \ {c}, CalculoLeu(d, o, x, B)' PROVE CalculoLeu(d, o, x, B)
    BY <1>2, <2>2 DEF CalculoLeu
  <2>3. ASSUME CalculoLeu(c, o, x, B)' PROVE o = l /\ \A o2 \in Lives \ {l} : TemVenda(o2, x) => o2 \in B
    <3>1. o = l /\ B = Acumulado(x, l)
      BY <1>2, <2>3, ConstantesAssumption DEF CalculoLeu
    <3> QED BY <3>1 DEF TemVenda, Acumulado
  <2> QED BY <1>6, <2>1, <2>2, <2>3 DEF Leu
<1>7. ASSUME NEW o \in Lives, NEW x \in Apresentadoras PROVE TemVenda(o, x)' <=> TemVenda(o, x)
  BY <1>3 DEF TemVenda, Existe
<1>8. Contam'
  <2> SUFFICES ASSUME NEW o1 \in Lives, NEW o2 \in Lives, NEW x \in Apresentadoras,
                      NEW B1 \in SUBSET OrigemOuNula, NEW B2 \in SUBSET OrigemOuNula,
                      o1 # o2, TemVenda(o1, x)', TemVenda(o2, x)', Leu(o1, x, B1)', Leu(o2, x, B2)'
               PROVE  o2 \in B1 \/ o1 \in B2
    BY DEF Contam
  <2>1. TemVenda(o1, x) /\ TemVenda(o2, x)
    BY <1>7
  <2>2. CASE Leu(o1, x, B1) /\ Leu(o2, x, B2)
    BY <2>1, <2>2 DEF Faixa, Contam
  <2>3. CASE ~Leu(o1, x, B1)
    BY <1>6, <2>1, <2>3
  <2>4. CASE ~Leu(o2, x, B2)
    BY <1>6, <2>1, <2>4
  <2> QED BY <2>2, <2>3, <2>4
<1> QED BY <1>4, <1>5, <1>8 DEF Faixa

LEMMA FaixaBuscar == ASSUME Tipo, Faixa, NEW c \in Calculos, Buscar(c) PROVE Faixa'
<1>1. Acabam /\ LinhasMantidas /\ calculos[c].fase = "buscar"
  BY LinhasIguais DEF Buscar, Acabam, Acabou
<1>2. CASE Proxima(c)
  BY <1>1, <1>2, ProximaMantem, FaixaMantida
<1>3. CASE \E v \in VendasDe(calculos[c].live, calculos[c].atual) \cup {NULL} :
             calculos' = [calculos EXCEPT ![c].fase = "gravar", ![c].achou = v]
  <2>1. PICK v \in VendasDe(calculos[c].live, calculos[c].atual) \cup {NULL} :
             calculos' = [calculos EXCEPT ![c].fase = "gravar", ![c].achou = v]
    BY <1>3
  <2>2. /\ calculos'[c].fase = "gravar" /\ calculos'[c].live = calculos[c].live /\ calculos'[c].achou = v
        /\ calculos'[c].atual = calculos[c].atual /\ calculos'[c].base = calculos[c].base
        /\ \A d \in Calculos \ {c} : calculos'[d] = calculos[d]
    BY <2>1 DEF Tipo, TypeOK, CalculoRow
  <2>3. lives' = lives /\ vendas' = vendas
    BY DEF Buscar
  <2>4. SoDepoisDoFim'
    BY <1>1, <2>2, <2>3 DEF Faixa, SoDepoisDoFim, Existe, Acabou
  <2>5. AchadaCoerente'
    BY <2>2, <2>3 DEF Faixa, AchadaCoerente, Existe, VendasDe
  <2>6. ASSUME NEW o \in Lives, NEW a \in Apresentadoras, TemVenda(o, a)' PROVE TemVenda(o, a)
    BY <2>3, <2>6 DEF TemVenda, Existe
  <2>7. ASSUME NEW o \in Lives, NEW a \in Apresentadoras, NEW B \in SUBSET OrigemOuNula, Leu(o, a, B)'
        PROVE  Leu(o, a, B)
    <3>1. ASSUME NEW w \in Vendas, LinhaLeu(w, o, a, B)' PROVE LinhaLeu(w, o, a, B)
      BY <2>3, <3>1 DEF LinhaLeu, Existe
    <3>2. ASSUME NEW d \in Calculos, CalculoLeu(d, o, a, B)' PROVE CalculoLeu(d, o, a, B)
      BY <1>1, <2>2, <3>2 DEF CalculoLeu
    <3> QED BY <2>7, <3>1, <3>2 DEF Leu
  <2>8. Contam'
    BY <2>6, <2>7, ConstantesAssumption, ContamMantido DEF Faixa
  <2> QED BY <2>4, <2>5, <2>8 DEF Faixa
<1> QED BY <1>2, <1>3 DEF Buscar

(* The row takes over the reading of the recalculation. *)
LEMMA FaixaAtualizarAchada ==
  ASSUME Tipo, Faixa, NEW c \in Calculos, calculos[c].fase = "gravar", calculos[c].achou # NULL,
         AtualizarAchada(c), UNCHANGED lives, AposFim, NadaLido, NadaAchado
  PROVE  Faixa'
<1>0. calculos[c].achou \in Vendas /\ calculos[c].live \in Lives
  BY DEF Tipo, TypeOK, CalculoCoerente, CalculoRow
<1>1. PICK w \in Vendas : w = calculos[c].achou
  BY <1>0
<1>2. /\ vendas'[w].status = "pendente_aprovacao" /\ vendas'[w].origem = vendas[w].origem
      /\ vendas'[w].apresentadora = calculos[c].atual /\ vendas'[w].criada = vendas[w].criada
      /\ vendas'[w].por = "motor" /\ vendas'[w].base = calculos[c].base
      /\ \A v \in Vendas \ {w} : vendas'[v] = vendas[v]
  BY <1>1 DEF AtualizarAchada, Tipo, TypeOK, VendaRow
<1>3. /\ Existe(w) /\ vendas[w].origem = calculos[c].live
      /\ vendas[w].criada = "rota" => vendas[w].apresentadora = calculos[c].atual
  BY <1>1 DEF Faixa, AchadaCoerente
<1>4. SoDepoisDoFim'
  BY <1>0, <1>2, <1>3 DEF Faixa, SoDepoisDoFim, AposFim, Existe, Acabou
<1>5. AchadaCoerente'
  <2> SUFFICES ASSUME NEW d \in Calculos, calculos'[d].fase = "gravar", calculos'[d].achou # NULL
               PROVE  /\ Existe(calculos[d].achou)'
                      /\ vendas'[calculos'[d].achou].origem = calculos'[d].live
                      /\ vendas'[calculos'[d].achou].criada = "rota"
                           => vendas'[calculos'[d].achou].apresentadora = calculos'[d].atual
    BY DEF AchadaCoerente
  <2>1. calculos'[d] = calculos[d] /\ calculos[d].fase = "gravar"
    BY DEF NadaAchado
  <2>2. calculos[d].achou \in Vendas
    BY <2>1 DEF Tipo, TypeOK, CalculoRow
  <2>3. /\ Existe(calculos[d].achou) /\ vendas[calculos[d].achou].origem = calculos[d].live
        /\ vendas[calculos[d].achou].criada = "rota"
             => vendas[calculos[d].achou].apresentadora = calculos[d].atual
    BY <2>1 DEF Faixa, AchadaCoerente
  <2> QED BY <1>2, <1>3, <2>1, <2>2, <2>3 DEF Existe
<1>6. ASSUME NEW o \in Lives, NEW a \in Apresentadoras, TemVenda(o, a)' PROVE TemVenda(o, a)
  BY <1>2, <1>3, <1>6 DEF TemVenda, Existe
<1>7. ASSUME NEW o \in Lives, NEW a \in Apresentadoras, NEW B \in SUBSET OrigemOuNula, Leu(o, a, B)'
      PROVE  Leu(o, a, B)
  <2>1. ASSUME NEW v \in Vendas \ {w}, LinhaLeu(v, o, a, B)' PROVE LinhaLeu(v, o, a, B)
    BY <1>2, <2>1 DEF LinhaLeu, Existe
  <2>2. ASSUME LinhaLeu(w, o, a, B)' PROVE CalculoLeu(c, o, a, B)
    BY <1>2, <1>3, <2>2 DEF LinhaLeu, CalculoLeu
  <2>3. ASSUME NEW d \in Calculos, CalculoLeu(d, o, a, B)' PROVE CalculoLeu(d, o, a, B)
    BY <2>3 DEF CalculoLeu, NadaLido, Em
  <2> QED BY <1>7, <2>1, <2>2, <2>3 DEF Leu
<1>8. Contam'
  BY <1>6, <1>7, ConstantesAssumption, ContamMantido DEF Faixa
<1> QED BY <1>4, <1>5, <1>8 DEF Faixa

LEMMA FaixaGravar == ASSUME Tipo, Faixa, NEW c \in Calculos, Gravar(c) PROVE Faixa'
<1>1. Acabam /\ calculos[c].fase = "gravar" /\ UNCHANGED lives
  BY DEF Gravar, Acabam, Acabou
<1>2. AposFim /\ NadaLido /\ NadaAchado
  BY <1>1, TerminarMantem, ProximaMantem DEF Gravar
<1>3. CASE UNCHANGED vendas
  BY <1>1, <1>2, <1>3, LinhasIguais, FaixaMantida
<1>4. CASE calculos[c].achou # NULL /\ AtualizarAchada(c)
  BY <1>1, <1>2, <1>4, FaixaAtualizarAchada
<1>5. CASE Inserir(calculos[c].live, calculos[c].atual, "motor", calculos[c].base)
  <2>1. calculos[c].live \in Lives
    BY <1>1 DEF Tipo, CalculoCoerente
  <2>2. LinhasMantidas
    BY <1>5, <2>1, InserirLinhas
  <2> QED BY <1>1, <1>2, <2>2, FaixaMantida
<1> QED BY <1>3, <1>4, <1>5 DEF Gravar

LEMMA FaixaLives ==
  ASSUME Tipo, Faixa, NEW l \in Lives,
         \/ IniciarLive(l) \/ EncerrarLive(l) \/ FinalizarPeloPoll(l) \/ CriarLiveManual(l)
         \/ EditarLive(l) \/ ExcluirLive(l) \/ \E a \in ComConta : MudarEquipe(l, a)
  PROVE  Faixa'
<1>1. /\ \A m \in Lives \ {l} : lives'[m].status = lives[m].status
      /\ lives'[l].status = lives[l].status \/ lives[l].status \in {"ausente", "em_andamento"}
         \/ lives'[l].status = "excluida"
  BY ZenonT(60) DEF IniciarLive, EncerrarLive, FinalizarPeloPoll, CriarLiveManual, EditarLive, ExcluirLive,
         MudarEquipe, Tipo, TypeOK, LiveRow
<1>2. Acabam
  BY <1>1 DEF Acabam, Acabou
<1>3. CASE EncerrarLive(l)
  <2>1. ~Acabou(l) /\ Acabou(l)'
    BY <1>3 DEF EncerrarLive, Acabou, Tipo, TypeOK, LiveRow
  <2>2. lives[l].principal \in ApresentadoraOuNula
    BY ConstantesAssumption DEF Tipo, TypeOK, LiveRow, ApresentadoraOuNula
  <2>3. AposFim /\ NadaLido /\ NadaAchado
    BY <1>2, <1>3, <2>1, DispararMantem DEF EncerrarLive, Recalcular
  <2> QED BY <1>2, <1>3, <2>1, <2>2, <2>3, FaixaLancar DEF EncerrarLive
<1>4. CASE CriarLiveManual(l)
  <2>1. ~Acabou(l) /\ Acabou(l)'
    BY <1>4 DEF CriarLiveManual, Acabou, Tipo, TypeOK, LiveRow
  <2>2. AposFim /\ NadaLido /\ NadaAchado
    BY <1>2, <1>4, CalculosIguais DEF CriarLiveManual
  <2> QED BY <1>2, <1>4, <2>1, <2>2, FaixaLancar DEF CriarLiveManual
<1>5. CASE EditarLive(l)
  <2>1. Acabou(l)'
    BY <1>1, <1>5 DEF EditarLive, Acabou
  <2>2. AposFim /\ NadaLido /\ NadaAchado
    BY <1>2, <1>5, <2>1, CalculosIguais, DispararMantem DEF EditarLive, Recalcular
  <2> QED BY <1>2, <1>5, <2>2, LinhasIguais, FaixaMantida DEF EditarLive
<1>6. CASE UNCHANGED <<vendas, calculos>>
  BY <1>2, <1>6, LinhasIguais, CalculosIguais, FaixaMantida
<1> QED BY <1>3, <1>4, <1>5, <1>6 DEF IniciarLive, FinalizarPeloPoll, ExcluirLive, MudarEquipe

LEMMA FaixaCalculo ==
  ASSUME Tipo, Faixa, NEW c \in Calculos,
         LerLive(c) \/ LerEquipe(c) \/ Somar(c) \/ Buscar(c) \/ Gravar(c) \/ Falhar(c)
  PROVE  Faixa'
<1>1. CASE LerLive(c) \/ LerEquipe(c) \/ Falhar(c)
  <2>1. Acabam /\ LinhasMantidas /\ calculos[c].fase # "livre"
    BY <1>1, LinhasIguais DEF LerLive, LerEquipe, Falhar, Acabam, Acabou
  <2>2. CASE Terminar(c)
    BY <2>1, <2>2, TerminarMantem, FaixaMantida
  <2>3. CASE ~Terminar(c)
    <3>1. calculos'[c].fase \in {"equipe", "somar"} /\ calculos'[c].live = calculos[c].live
          /\ \A d \in Calculos \ {c} : calculos'[d] = calculos[d]
      BY <1>1, <2>3 DEF LerLive, LerEquipe, Falhar, Tipo, TypeOK, CalculoRow
    <3>2. calculos[c].live \in Lives /\ Acabou(calculos[c].live)
      BY <2>1 DEF Tipo, CalculoCoerente, Faixa, SoDepoisDoFim
    <3>3. Acabou(calculos[c].live)'
      BY <2>1, <3>1, <3>2 DEF Acabam, Acabou
    <3> QED BY <2>1, <3>1, <3>2, <3>3, CalculoPasso, FaixaMantida DEF Em
  <2> QED BY <2>2, <2>3
<1> QED BY <1>1, FaixaSomar, FaixaBuscar, FaixaGravar

LEMMA FaixaResto ==
  ASSUME Tipo, Faixa,
         \/ \E x \in Videos : \/ \E a \in ApresentadoraOuNula : CriarVideo(x, a) \/ EditarVideo(x, a)
                              \/ ExcluirVideo(x)
         \/ \E o \in Origens, a \in ApresentadoraOuNula : LancarPorMao(o, a)
         \/ \E v \in Vendas : \/ Aprovar(v) \/ Reprovar(v)
                              \/ \E a \in ApresentadoraOuNula : CorrigirVenda(v, a)
         \/ UNCHANGED vars
  PROVE  Faixa'
<1>1. Acabam /\ AposFim /\ NadaLido /\ NadaAchado
  <2>1. UNCHANGED <<lives, calculos>>
    BY DEF CriarVideo, EditarVideo, ExcluirVideo, LancarPorMao, Aprovar, Reprovar, CorrigirVenda, vars
  <2>2. Acabam
    BY <2>1 DEF Acabam, Acabou
  <2> QED BY <2>1, <2>2, CalculosIguais
<1>2. ASSUME NEW x \in Videos, NEW a \in ApresentadoraOuNula, CriarVideo(x, a) \/ EditarVideo(x, a)
      PROVE LinhasMantidas
  <2>1. x \notin Lives
    BY ConstantesAssumption
  <2> QED BY <1>2, <2>1, LinhasIguais, UpsertLinhas DEF CriarVideo, EditarVideo
<1>3. ASSUME NEW x \in Videos, ExcluirVideo(x) PROVE LinhasMantidas
  <2>1. x \notin Lives
    BY ConstantesAssumption
  <2>2. \A v \in Vendas : vendas'[v] = IF Existe(v) /\ vendas[v].origem = x THEN SemVenda ELSE vendas[v]
    BY <1>3 DEF ExcluirVideo
  <2> QED BY <2>1, <2>2 DEF LinhasMantidas, RotaDeLive, Existe, SemVenda, Faixa, SoDepoisDoFim
<1>4. ASSUME NEW o \in Origens, NEW a \in ApresentadoraOuNula, LancarPorMao(o, a) PROVE LinhasMantidas
  BY <1>4, UpsertLinhas DEF LancarPorMao
<1>5. ASSUME NEW v \in Vendas, Aprovar(v) \/ Reprovar(v) PROVE LinhasMantidas
  <2>1. /\ \A w \in Vendas \ {v} : vendas'[w] = vendas[w]
        /\ Existe(v) /\ vendas'[v].status # "ausente" /\ vendas'[v].origem = vendas[v].origem
        /\ vendas'[v].apresentadora = vendas[v].apresentadora /\ vendas'[v].criada = vendas[v].criada
        /\ vendas'[v].por = vendas[v].por /\ vendas'[v].base = vendas[v].base
    BY <1>5 DEF Aprovar, Reprovar, Tipo, TypeOK, VendaRow
  <2> QED BY <2>1 DEF LinhasMantidas, RotaDeLive, Existe, Faixa, SoDepoisDoFim
<1>6. ASSUME NEW v \in Vendas, NEW a \in ApresentadoraOuNula, CorrigirVenda(v, a) PROVE LinhasMantidas
  <2>1. /\ \A w \in Vendas \ {v} : vendas'[w] = vendas[w]
        /\ vendas'[v].status = vendas[v].status /\ vendas'[v].origem = vendas[v].origem
        /\ vendas'[v].criada = "mao" /\ vendas'[v].por = "mao"
    BY <1>6 DEF CorrigirVenda, Tipo, TypeOK, VendaRow
  <2> QED BY <2>1 DEF LinhasMantidas, RotaDeLive, Existe, Faixa, SoDepoisDoFim
<1>7. ASSUME UNCHANGED vars PROVE LinhasMantidas
  BY <1>7, LinhasIguais DEF vars
<1>8. LinhasMantidas
  BY <1>2, <1>3, <1>4, <1>5, <1>6, <1>7
<1> QED BY <1>1, <1>8, FaixaMantida

LEMMA FaixaNext == Tipo /\ Faixa /\ [Next]_vars => Faixa'
  BY FaixaLives, FaixaCalculo, FaixaResto DEF Next

LEMMA FaixaInit == Init => Faixa
  BY DEF Init, Faixa, SoDepoisDoFim, AchadaCoerente, Contam, TemVenda, Existe, SemVenda, Livre

LEMMA FaixaConta == Tipo /\ Faixa => UmaContaAOutra
<1> SUFFICES ASSUME Tipo, Faixa, NEW v \in Vendas, NEW w \in Vendas,
                    Existe(v), Existe(w), DoMotor(v), DoMotor(w),
                    vendas[v].apresentadora = vendas[w].apresentadora,
                    vendas[v].origem # vendas[w].origem
             PROVE  vendas[v].origem \in vendas[w].base \/ vendas[w].origem \in vendas[v].base
  BY DEF UmaContaAOutra
<1> DEFINE a == vendas[v].apresentadora
<1>1. vendas[v].origem \in Lives /\ vendas[w].origem \in Lives
  BY DEF DoMotor, Faixa, SoDepoisDoFim
<1>2. a \in Apresentadoras /\ vendas[v].base \in SUBSET OrigemOuNula /\ vendas[w].base \in SUBSET OrigemOuNula
  BY DEF DoMotor, Tipo, TypeOK, VendaRow, ApresentadoraOuNula
<1>3. TemVenda(vendas[v].origem, a) /\ TemVenda(vendas[w].origem, a)
  BY DEF TemVenda, DoMotor
<1>4. Leu(vendas[v].origem, a, vendas[v].base) /\ Leu(vendas[w].origem, a, vendas[w].base)
  BY DEF Leu, LinhaLeu, DoMotor
<1> QED BY <1>1, <1>2, <1>3, <1>4 DEF Faixa, Contam

(* Two sales of a presenter, each written with the end of its live and computed by the   *)
(* engine: one of the two counted the other, for any number of recalculations in flight  *)
(* in any order, with failures, changes of presenters and corrections of other rows by   *)
(* hand.  It rests on the INSERT of lives.js:912 in the transaction of the end.          *)
THEOREM UmaContaCorrect == Spec => []UmaContaAOutra
<1>1. Tipo /\ Faixa /\ [Next]_vars => (Tipo /\ Faixa)'
  BY TipoNext, FaixaNext
<1> QED BY <1>1, TipoInit, FaixaInit, FaixaConta, PTL DEF Spec

-----------------------------------------------------------------------------
(* That every presenter gets a row.  A recalculation owes a row to each presenter it has *)
(* not come to (Promete).  It may lose one to the unique index (Perdida) and stop, but   *)
(* who took the row owes the same presenters, so that one that is not lost is left until *)
(* all have theirs (Garantia).                                                           *)
LivreSemLive == \A c \in Calculos : calculos[c].fase = "livre" => calculos[c].live = NULL

LinhaUnica ==
  \A v, w \in Vendas :
    /\ Existe(v) /\ Existe(w)
    /\ vendas[v].origem = vendas[w].origem /\ vendas[v].apresentadora = vendas[w].apresentadora
    => v = w

Coberta(l, a) == VendasDe(l, a) # {}

Promete(c) ==
  IF calculos[c].fase \in {"live", "equipe"} THEN Equipe(calculos[c].live)
  ELSE calculos[c].fila \cup (IF calculos[c].fase = "somar" THEN {} ELSE {calculos[c].atual})

Perdida(c) ==
  /\ calculos[c].fase = "gravar"
  /\ VendasDe(calculos[c].live, calculos[c].atual) \ {calculos[c].achou} # {}

CalculoFirme(c, l) ==
  /\ calculos[c].fase = "equipe" => calculos[c].fila = {lives[l].principal} \ {NULL}
  /\ calculos[c].fase = "gravar" /\ calculos[c].achou # NULL
       => calculos[c].achou \in VendasDe(l, calculos[c].atual)
  /\ \A a \in Equipe(l) : Coberta(l, a) \/ a \in Promete(c)

Servida(l) ==
  /\ \A c \in EmCalculo(l) : CalculoFirme(c, l)
  /\ (\A a \in Equipe(l) : Coberta(l, a)) \/ (\E c \in EmCalculo(l) : ~Perdida(c))

Garantia(l) ==
  l \notin incertas => /\ Acabou(l)
                       /\ l \in ComMarca /\ lives[l].status = "encerrada" => Servida(l)

Cobertura == LivreSemLive /\ LinhaUnica /\ \A l \in Lives : Garantia(l)

(* A step that is not about live l. *)
LinhasDe(l) == \A a \in ApresentadoraOuNula : VendasDe(l, a)' = VendasDe(l, a)

CalculosDe(l) ==
  \A c \in Calculos : calculos'[c] = calculos[c] \/ (calculos[c].live # l /\ calculos'[c].live # l)

LEMMA EquipeTipo == ASSUME TypeOK, NEW l \in Lives PROVE Equipe(l) \subseteq ApresentadoraOuNula
BY ConstantesAssumption DEF TypeOK, LiveRow, Equipe, ApresentadoraOuNula

LEMMA GarantiaAlheia ==
  ASSUME Tipo, NEW l \in Lives, Garantia(l), l \in incertas => l \in incertas',
         lives'[l] = lives[l], LinhasDe(l), CalculosDe(l)
  PROVE  Garantia(l)'
<1> SUFFICES ASSUME l \notin incertas' PROVE Garantia(l)'
  BY DEF Garantia
<1>1. Acabou(l)'
  BY DEF Garantia, Acabou
<1> SUFFICES ASSUME l \in ComMarca, lives[l].status = "encerrada" PROVE Servida(l)'
  BY <1>1 DEF Garantia
<1>2. Servida(l)
  BY DEF Garantia
<1>3. Equipe(l)' = Equipe(l) /\ Equipe(l) \subseteq ApresentadoraOuNula
  BY EquipeTipo DEF Equipe, Tipo
<1>4. EmCalculo(l)' = EmCalculo(l) /\ \A c \in EmCalculo(l) : calculos'[c] = calculos[c]
  BY DEF EmCalculo, CalculosDe
<1>5. \A a \in Equipe(l) : Coberta(l, a)' <=> Coberta(l, a)
  BY <1>3 DEF Coberta, LinhasDe
<1>6. ASSUME NEW c \in EmCalculo(l)
      PROVE  CalculoFirme(c, l)' /\ (Perdida(c)' <=> Perdida(c))
  <2>1. c \in Calculos /\ calculos[c].live = l /\ calculos[c].atual \in ApresentadoraOuNula
    BY DEF EmCalculo, Tipo, TypeOK, CalculoRow
  <2>2. VendasDe(l, calculos[c].atual)' = VendasDe(l, calculos[c].atual)
    BY <2>1, <1>4 DEF LinhasDe, VendasDe, Existe
  <2>3. Promete(c)' = Promete(c)
    BY <2>1, <1>3, <1>4 DEF Promete
  <2>4. CalculoFirme(c, l)'
    BY <1>2, <1>3, <1>4, <1>5, <2>2, <2>3 DEF Servida, CalculoFirme
  <2>5. Perdida(c)' <=> Perdida(c)
    BY <1>4, <2>1, <2>2 DEF Perdida
  <2> QED BY <2>4, <2>5
<1> QED BY <1>2, <1>3, <1>4, <1>5, <1>6 DEF Servida

-----------------------------------------------------------------------------
(* The rows of the sales. *)
LEMMA InserirDe ==
  ASSUME Tipo, LinhaUnica, NEW o \in Origens, NEW a, NEW autor, NEW base, Inserir(o, a, autor, base)
  PROVE  /\ LinhaUnica'
         /\ \A m \in Lives : m # o => LinhasDe(m)
         /\ \A b : VendasDe(o, b) \subseteq VendasDe(o, b)'
         /\ \A b : b # a => VendasDe(o, b)' = VendasDe(o, b)
         /\ VendasDe(o, a)' # {}
<1>1. PICK v \in Vendas :
        /\ ~Existe(v) /\ vendas'[v].status = "pendente_aprovacao" /\ vendas'[v].origem = o
        /\ vendas'[v].apresentadora = a
        /\ \A w \in Vendas : w # v => vendas'[w] = vendas[w]
  BY DEF Inserir, Tipo, TypeOK
<1>2. Existe(v)' /\ \A w \in Vendas : w # v => (Existe(w)' <=> Existe(w))
  BY <1>1 DEF Existe
<1>3. VendasDe(o, a) = {}
  BY DEF Inserir
<1>4. LinhaUnica'
  BY <1>1, <1>2, <1>3 DEF LinhaUnica, VendasDe
<1>5. \A m \in Lives : m # o => LinhasDe(m)
  BY <1>1, <1>2 DEF LinhasDe, VendasDe
<1> QED BY <1>1, <1>2, <1>4, <1>5 DEF VendasDe

(* An UPDATE that gives no row to another presenter. *)
LEMMA MesmasLinhas ==
  ASSUME \A w \in Vendas : /\ Existe(w)' <=> Existe(w)
                           /\ vendas'[w].origem = vendas[w].origem
                           /\ vendas'[w].apresentadora = vendas[w].apresentadora
  PROVE  /\ LinhaUnica => LinhaUnica'
         /\ \A o, b : VendasDe(o, b)' = VendasDe(o, b)
BY DEF LinhaUnica, VendasDe

LEMMA AtualizarDe ==
  ASSUME Tipo, LinhaUnica, NEW o, NEW a, NEW autor, Atualizar(o, a, autor)
  PROVE  LinhaUnica' /\ \A m \in Lives : LinhasDe(m)
<1>1. PICK v \in Vendas :
        vendas' = [vendas EXCEPT ![v].por = autor, ![v].base = {},
                                 ![v].criada = IF autor = "mao" THEN "mao" ELSE @]
  BY DEF Atualizar, VendasDe
<1>2. \A w \in Vendas : vendas'[w].status = vendas[w].status /\ vendas'[w].origem = vendas[w].origem
                        /\ vendas'[w].apresentadora = vendas[w].apresentadora
  <2> DEFINE k == IF autor = "mao" THEN "mao" ELSE vendas[v].criada
  <2>1. vendas' = [vendas EXCEPT ![v].por = autor, ![v].base = {}, ![v].criada = k]
    BY <1>1
  <2> HIDE DEF k
  <2> QED BY <2>1 DEF Tipo, TypeOK, VendaRow
<1> QED BY <1>2, MesmasLinhas DEF LinhasDe, Existe

LEMMA UpsertDe ==
  ASSUME Tipo, LinhaUnica, NEW o \in Origens, NEW a, NEW autor, UpsertVenda(o, a, autor)
  PROVE  LinhaUnica' /\ \A m \in Lives : m # o => LinhasDe(m)
<1>1. CASE Inserir(o, a, autor, {})
  BY <1>1, InserirDe
<1>2. CASE Atualizar(o, a, autor)
  BY <1>2, AtualizarDe
<1> QED BY <1>1, <1>2 DEF UpsertVenda

LEMMA IguaisDe ==
  ASSUME UNCHANGED vendas PROVE (LinhaUnica => LinhaUnica') /\ \A m \in Lives : LinhasDe(m)
BY DEF LinhaUnica, LinhasDe, VendasDe, Existe

LEMMA LancarDe ==
  ASSUME Tipo, LinhaUnica, NEW l \in Lives, NEW a, LancarVenda(l, a)
  PROVE  LinhaUnica' /\ \A m \in Lives : m # l => LinhasDe(m)
BY UpsertDe, IguaisDe DEF LancarVenda, Origens

-----------------------------------------------------------------------------
(* A recalculation that starts, and one that advances. *)
LEMMA PassoDe ==
  ASSUME Tipo, LivreSemLive, NEW c \in Calculos, NEW r, r.fase = "livre" => r.live = NULL,
         NEW l, calculos[c].live \in {l, NULL}, r.live \in {l, NULL},
         calculos' = [calculos EXCEPT ![c] = r]
  PROVE  LivreSemLive' /\ \A m \in Lives : m # l => CalculosDe(m)
BY ConstantesAssumption DEF Tipo, TypeOK, LivreSemLive, CalculosDe

(* A new recalculation owes every presenter a row: it serves its live if it is the only *)
(* one, or joins those that did.                                                        *)
LEMMA DispararServe ==
  ASSUME Tipo, Cobertura, NEW l \in Lives, Disparar(l)
  PROVE  /\ LivreSemLive' /\ \A m \in Lives : m # l => CalculosDe(m)
         /\ EmCalculo(l) = {} => Servida(l)'
         /\ l \notin incertas /\ Servida(l) /\ LinhasDe(l) /\ lives'[l] = lives[l] => Servida(l)'
<1>1. PICK c \in Calculos : calculos[c].fase = "livre"
                            /\ calculos' = [calculos EXCEPT ![c] = [Livre EXCEPT !.fase = "live", !.live = l]]
  BY DEF Disparar
<1> DEFINE r == [Livre EXCEPT !.fase = "live", !.live = l]
<1>2. r.fase = "live" /\ r.live = l
  BY DEF Livre
<1>3. calculos' = [calculos EXCEPT ![c] = r]
  BY <1>1
<1>4. calculos[c].live = NULL /\ LivreSemLive
  BY <1>1 DEF Cobertura, LivreSemLive
<1> HIDE DEF r
<1>5. LivreSemLive' /\ \A m \in Lives : m # l => CalculosDe(m)
  BY <1>2, <1>3, <1>4, ConstantesAssumption DEF LivreSemLive, CalculosDe, Tipo, TypeOK
<1>6. EmCalculo(l)' = EmCalculo(l) \cup {c} /\ calculos'[c] = r
      /\ \A d \in EmCalculo(l) : d \in Calculos /\ calculos'[d] = calculos[d]
  BY <1>2, <1>3, <1>4, ConstantesAssumption DEF EmCalculo, Tipo, TypeOK
<1>7. CalculoFirme(c, l)' /\ ~Perdida(c)'
  BY <1>2, <1>6 DEF CalculoFirme, Perdida, Promete
<1>8. EmCalculo(l) = {} => Servida(l)'
  BY <1>6, <1>7 DEF Servida
<1>9. ASSUME Servida(l), LinhasDe(l), lives'[l] = lives[l] PROVE Servida(l)'
  <2>1. Equipe(l)' = Equipe(l) /\ Equipe(l) \subseteq ApresentadoraOuNula
    BY <1>9, EquipeTipo DEF Equipe, Tipo
  <2>2. ASSUME NEW d \in EmCalculo(l) PROVE CalculoFirme(d, l)'
    <3>1. calculos'[d] = calculos[d] /\ calculos[d].live = l /\ calculos[d].atual \in ApresentadoraOuNula
      BY <1>6, <2>2 DEF EmCalculo, Tipo, TypeOK, CalculoRow
    <3>2. VendasDe(l, calculos[d].atual)' = VendasDe(l, calculos[d].atual)
      BY <1>9, <3>1 DEF LinhasDe, VendasDe, Existe
    <3>3. Promete(d)' = Promete(d)
      BY <2>1, <3>1 DEF Promete
    <3> QED BY <1>9, <2>1, <2>2, <3>1, <3>2, <3>3 DEF Servida, CalculoFirme, Coberta, LinhasDe
  <2> QED BY <1>6, <1>7, <2>2 DEF Servida
<1> QED BY <1>5, <1>8, <1>9

-----------------------------------------------------------------------------
(* The steps of a recalculation of live l; r is its row after the step. *)
LEMMA ServeDepois ==
  ASSUME Tipo, NEW c \in Calculos, NEW l \in Lives, calculos[c].live = l,
         Servida(l), lives'[l] = lives[l], \A a \in ApresentadoraOuNula : VendasDe(l, a) \subseteq VendasDe(l, a)',
         \A d \in Calculos : d # c => calculos'[d] = calculos[d],
         calculos'[c].live = l => CalculoFirme(c, l)',
         \/ calculos'[c].live = l /\ ~Perdida(c)'
         \/ \A a \in Equipe(l) : Coberta(l, a)'
         \/ /\ calculos'[c].live # l /\ Perdida(c)
            /\ \A a \in ApresentadoraOuNula : VendasDe(l, a)' = VendasDe(l, a)
  PROVE  Servida(l)'
<1>1. Equipe(l)' = Equipe(l) /\ Equipe(l) \subseteq ApresentadoraOuNula
  BY EquipeTipo DEF Equipe, Tipo
<1>2. EmCalculo(l)' \subseteq EmCalculo(l) /\ EmCalculo(l) \ {c} \subseteq EmCalculo(l)'
      /\ (c \in EmCalculo(l)' <=> calculos'[c].live = l)
  BY DEF EmCalculo
<1>3. ASSUME NEW d \in EmCalculo(l), d # c
      PROVE  CalculoFirme(d, l)' /\ (~Perdida(d) /\ LinhasDe(l) => ~Perdida(d)')
  <2>1. d \in Calculos /\ calculos'[d] = calculos[d] /\ calculos[d].live = l
    BY <1>3 DEF EmCalculo
  <2>2. PICK q \in ApresentadoraOuNula : calculos[d].atual = q
    BY <2>1 DEF Tipo, TypeOK, CalculoRow
  <2>3. Promete(d)' = Promete(d)
    BY <1>1, <2>1 DEF Promete
  <2>4. \A a \in Equipe(l) : Coberta(l, a) => Coberta(l, a)'
    BY <1>1 DEF Coberta
  <2>5. CalculoFirme(d, l)
    BY <1>3 DEF Servida
  <2>6. CalculoFirme(d, l)'
    BY <1>1, <2>1, <2>2, <2>3, <2>4, <2>5 DEF CalculoFirme
  <2>7. ~Perdida(d) /\ LinhasDe(l) => ~Perdida(d)'
    BY <2>1, <2>2 DEF Perdida, LinhasDe
  <2> QED BY <2>6, <2>7
<1>4. \A d \in EmCalculo(l)' : CalculoFirme(d, l)'
  BY <1>2, <1>3
<1>5. CASE calculos'[c].live = l /\ ~Perdida(c)'
  BY <1>2, <1>4, <1>5 DEF Servida
<1>6. CASE \A a \in Equipe(l) : Coberta(l, a)'
  BY <1>1, <1>4, <1>6 DEF Servida
<1>7. CASE /\ calculos'[c].live # l /\ Perdida(c)
           /\ \A a \in ApresentadoraOuNula : VendasDe(l, a)' = VendasDe(l, a)
  <2>1. (\A a \in Equipe(l) : Coberta(l, a)) => \A a \in Equipe(l) : Coberta(l, a)'
    BY <1>1 DEF Coberta
  <2>2. LinhasDe(l)
    BY <1>7 DEF LinhasDe
  <2>3. (\E d \in EmCalculo(l) : ~Perdida(d)) => \E d \in EmCalculo(l)' : ~Perdida(d)'
    BY <1>2, <1>3, <1>7, <2>2
  <2> QED BY <1>1, <1>4, <2>1, <2>3 DEF Servida
<1> QED BY <1>5, <1>6, <1>7

(* The end of the loop, and its next turn: whoever had to get a row at this turn has it. *)
LEMMA ProximaServe ==
  ASSUME Tipo, LivreSemLive, NEW c \in Calculos, NEW l \in Lives, calculos[c].live = l,
         calculos[c].fase \in {"buscar", "gravar"}, Servida(l), Proxima(c), lives'[l] = lives[l],
         \A a \in ApresentadoraOuNula : VendasDe(l, a) \subseteq VendasDe(l, a)',
         NEW q \in ApresentadoraOuNula, q = calculos[c].atual, Coberta(l, q)'
  PROVE  Servida(l)'
<1>1. \A a \in Equipe(l) : Coberta(l, a)' \/ a \in calculos[c].fila
  <2>1. CalculoFirme(c, l) /\ Promete(c) = calculos[c].fila \cup {calculos[c].atual}
    BY DEF Servida, EmCalculo, Promete
  <2> SUFFICES ASSUME NEW a \in Equipe(l), a \notin calculos[c].fila PROVE Coberta(l, a)'
    OBVIOUS
  <2>2. a \in ApresentadoraOuNula
    BY EquipeTipo DEF Tipo
  <2>3. Coberta(l, a) \/ a = calculos[c].atual
    BY <2>1 DEF CalculoFirme
  <2>4. Coberta(l, a) => Coberta(l, a)'
    BY <2>2 DEF Coberta
  <2> QED BY <2>3, <2>4
<1>2. Equipe(l)' = Equipe(l)
  BY DEF Equipe
<1>3. CASE calculos[c].fila = {}
  <2>1. calculos' = [calculos EXCEPT ![c] = Livre] /\ Livre.live = NULL
    BY <1>3 DEF Proxima, Terminar, Livre
  <2>2. calculos'[c].live # l /\ \A d \in Calculos : d # c => calculos'[d] = calculos[d]
    BY <2>1, ConstantesAssumption DEF Tipo, TypeOK
  <2> QED BY <1>1, <1>3, <2>2, ServeDepois
<1>4. CASE calculos[c].fila # {}
  <2> DEFINE r == [calculos[c] EXCEPT !.fase = "somar", !.atual = NULL, !.base = {}, !.achou = NULL]
  <2>1. calculos[c] \in CalculoRow
    BY DEF Tipo, TypeOK
  <2>2. calculos' = [calculos EXCEPT ![c] = r]
    BY <1>4, <2>1 DEF Proxima, CalculoRow
  <2>3. r.fase = "somar" /\ r.live = l /\ r.fila = calculos[c].fila
    BY <2>1 DEF CalculoRow
  <2> HIDE DEF r
  <2>4. calculos'[c] = r /\ \A d \in Calculos : d # c => calculos'[d] = calculos[d]
    BY <2>2 DEF Tipo, TypeOK
  <2>5. CalculoFirme(c, l)' /\ ~Perdida(c)'
    BY <1>1, <1>2, <2>3, <2>4 DEF CalculoFirme, Perdida, Promete
  <2> QED BY <2>3, <2>4, <2>5, ServeDepois
<1> QED BY <1>3, <1>4

(* The UPDATE by id of the engine, of a row of live l that nobody gave away. *)
LEMMA AchadaDe ==
  ASSUME Tipo, NEW c \in Calculos, calculos[c].achou \in Vendas,
         Existe(calculos[c].achou), AtualizarAchada(c)
  PROVE  /\ \A w \in Vendas : /\ Existe(w)' <=> Existe(w)
                              /\ vendas'[w].origem = vendas[w].origem
                              /\ w # calculos[c].achou => vendas'[w] = vendas[w]
         /\ vendas'[calculos[c].achou].apresentadora = calculos[c].atual
BY DEF AtualizarAchada, Existe, Tipo, TypeOK, VendaRow

(* A step of a recalculation keeps what its own live is owed. *)
LEMMA ServePasso ==
  ASSUME Tipo, Cobertura, NEW c \in Calculos, NEW l \in Lives, calculos[c].live = l,
         l \in ComMarca, lives[l].status = "encerrada", Servida(l), lives' = lives,
         LerLive(c) \/ LerEquipe(c) \/ Somar(c) \/ Buscar(c) \/ Gravar(c)
  PROVE  Servida(l)'
<1> DEFINE k == calculos[c]
<1>1. k \in CalculoRow /\ CalculoFirme(c, l) /\ c \in EmCalculo(l)
      /\ LivreSemLive /\ LinhaUnica
  BY DEF Tipo, TypeOK, Servida, EmCalculo, Cobertura
<1>2. Equipe(l)' = Equipe(l)
  BY DEF Equipe
<1>3. ASSUME vendas' = vendas
      PROVE  /\ \A a \in ApresentadoraOuNula : VendasDe(l, a) \subseteq VendasDe(l, a)'
             /\ \A a : Coberta(l, a)' <=> Coberta(l, a)
  BY <1>3 DEF VendasDe, Existe, Coberta
(* A step that only moves the recalculation. *)
<1>4. ASSUME vendas' = vendas, NEW r \in CalculoRow, calculos' = [calculos EXCEPT ![c] = r],
             r.live = l, r.fase # "gravar" \/ VendasDe(l, r.atual) \ {r.achou} = {},
             CalculoFirme(c, l)'
      PROVE  Servida(l)'
  <2>1. calculos'[c] = r /\ \A d \in Calculos : d # c => calculos'[d] = calculos[d]
    BY <1>4 DEF Tipo, TypeOK
  <2>2. ~Perdida(c)'
    BY <1>4, <2>1 DEF Perdida, VendasDe, Existe
  <2> QED BY <1>3, <1>4, <2>1, <2>2, ServeDepois
<1>5. CASE LerLive(c)
  <2> DEFINE f == {lives[l].principal} \ {NULL}
             r == [k EXCEPT !.fase = "equipe", !.fila = f]
  <2>1. calculos' = [calculos EXCEPT ![c].fase = "equipe", ![c].fila = f]
    BY <1>5 DEF LerLive
  <2>2. f \subseteq ApresentadoraOuNula
    BY ConstantesAssumption DEF Tipo, TypeOK, LiveRow, ApresentadoraOuNula
  <2>3. k.fase = "live" /\ Promete(c) = Equipe(l) /\ vendas' = vendas
    BY <1>5 DEF LerLive, Promete
  <2>4. f' = f
    OBVIOUS
  <2> HIDE DEF f
  <2>5. r \in CalculoRow /\ calculos' = [calculos EXCEPT ![c] = r] /\ r.live = l
        /\ r.fase = "equipe" /\ r.fila = f
    BY <1>1, <2>1, <2>2 DEF CalculoRow
  <2> HIDE DEF r
  <2>6. calculos'[c] = r
    BY <2>5 DEF Tipo, TypeOK
  <2>7. CalculoFirme(c, l)'
    BY <1>1, <1>2, <1>3, <2>3, <2>5, <2>6 DEF CalculoFirme, Promete, f
  <2> QED BY <1>4, <2>3, <2>5, <2>7
<1>6. CASE LerEquipe(c)
  <2> DEFINE r == [k EXCEPT !.fase = "somar", !.fila = Equipe(l)]
  <2>1. k.fila = {lives[l].principal} \ {NULL} /\ Promete(c) = Equipe(l) /\ vendas' = vendas
    BY <1>1, <1>6 DEF LerEquipe, CalculoFirme, Promete
  <2>2. calculos' = [calculos EXCEPT ![c].fase = "somar", ![c].fila = Equipe(l)]
    BY <1>6, <2>1 DEF LerEquipe, Equipe
  <2>3. Equipe(l) \subseteq ApresentadoraOuNula
    BY EquipeTipo DEF Tipo
  <2>4. r \in CalculoRow /\ calculos' = [calculos EXCEPT ![c] = r] /\ r.live = l
        /\ r.fase = "somar" /\ r.fila = Equipe(l)
    BY <1>1, <2>2, <2>3 DEF CalculoRow
  <2> HIDE DEF r
  <2>5. calculos'[c] = r
    BY <2>4 DEF Tipo, TypeOK
  <2>6. CalculoFirme(c, l)'
    BY <1>2, <2>4, <2>5 DEF CalculoFirme, Promete
  <2> QED BY <1>4, <2>1, <2>4, <2>6
<1>7. CASE Somar(c)
  <2>1. PICK a \in k.fila :
          calculos' = [calculos EXCEPT ![c].fase = "buscar", ![c].atual = a, ![c].fila = @ \ {a},
                         ![c].base = IF a = NULL THEN {} ELSE Acumulado(a, calculos[c].live)]
    BY <1>7 DEF Somar
  <2> DEFINE b == IF a = NULL THEN {} ELSE Acumulado(a, calculos[c].live)
             f == k.fila \ {a}
             r == [k EXCEPT !.fase = "buscar", !.atual = a, !.fila = f, !.base = b]
  <2>2. a \in ApresentadoraOuNula /\ f \subseteq ApresentadoraOuNula /\ f \cup {a} = k.fila
    BY <1>1 DEF CalculoRow
  <2>3. b \subseteq OrigemOuNula
    BY DEF Tipo, TypeOK, VendaRow, Acumulado
  <2>4. calculos' = [calculos EXCEPT ![c].fase = "buscar", ![c].atual = a, ![c].fila = f, ![c].base = b]
    BY <2>1
  <2>5. Promete(c) = k.fila /\ vendas' = vendas
    BY <1>7 DEF Somar, Promete
  <2> HIDE DEF b, f
  <2>6. r \in CalculoRow /\ calculos' = [calculos EXCEPT ![c] = r] /\ r.live = l
        /\ r.fase = "buscar" /\ r.fila = f /\ r.atual = a
    BY <1>1, <2>2, <2>3, <2>4 DEF CalculoRow
  <2> HIDE DEF r
  <2>7. calculos'[c] = r
    BY <2>6 DEF Tipo, TypeOK
  <2>8. Promete(c)' = Promete(c)
    BY <2>2, <2>5, <2>6, <2>7 DEF Promete
  <2>9. CalculoFirme(c, l)'
    BY <1>1, <1>2, <1>3, <2>5, <2>6, <2>7, <2>8 DEF CalculoFirme
  <2> QED BY <1>4, <2>5, <2>6, <2>9
<1>8. CASE Buscar(c)
  <2>1. k.fase = "buscar" /\ vendas' = vendas /\ k.atual \in ApresentadoraOuNula
    BY <1>1, <1>8 DEF Buscar, CalculoRow
  <2>2. ASSUME NEW v \in Vendas \cup {NULL}, VendasDe(l, k.atual) \ {v} = {},
               v # NULL => v \in VendasDe(l, k.atual),
               calculos' = [calculos EXCEPT ![c].fase = "gravar", ![c].achou = v]
        PROVE  Servida(l)'
    <3> DEFINE r == [k EXCEPT !.fase = "gravar", !.achou = v]
    <3>1. r \in CalculoRow /\ calculos' = [calculos EXCEPT ![c] = r] /\ r.live = l
          /\ r.fase = "gravar" /\ r.fila = k.fila /\ r.atual = k.atual /\ r.achou = v
      BY <1>1, <2>2 DEF CalculoRow
    <3> HIDE DEF r
    <3>2. calculos'[c] = r
      BY <3>1 DEF Tipo, TypeOK
    <3>3. Promete(c)' = Promete(c)
      BY <2>1, <3>1, <3>2 DEF Promete
    <3>4. v # NULL => v \in VendasDe(l, calculos[c].atual)'
      BY <2>1, <2>2, <3>1, <3>2 DEF VendasDe, Existe
    <3>5. CalculoFirme(c, l)'
      BY <1>1, <1>2, <1>3, <2>1, <3>1, <3>2, <3>3, <3>4 DEF CalculoFirme
    <3> QED BY <1>4, <2>1, <2>2, <3>1, <3>5
  <2>3. CASE VendasDe(l, k.atual) = {} /\ calculos' = [calculos EXCEPT ![c].fase = "gravar", ![c].achou = NULL]
    BY <2>2, <2>3
  <2>4. ASSUME NEW v \in VendasDe(l, k.atual),
               IF Intocavel(v) THEN Proxima(c)
               ELSE calculos' = [calculos EXCEPT ![c].fase = "gravar", ![c].achou = v]
        PROVE  Servida(l)'
    <3>1. CASE Proxima(c)
      <4>1. PICK q \in ApresentadoraOuNula : q = k.atual
        BY <2>1
      <4>2. Coberta(l, q)'
        BY <1>3, <2>1, <2>4, <4>1 DEF Coberta
      <4> QED BY <1>1, <1>3, <2>1, <3>1, <4>1, <4>2, ProximaServe
    <3>2. CASE calculos' = [calculos EXCEPT ![c].fase = "gravar", ![c].achou = v]
      <4>1. v \in Vendas /\ VendasDe(l, k.atual) \ {v} = {}
        BY <1>1, <2>4 DEF LinhaUnica, VendasDe
      <4> QED BY <2>2, <2>4, <3>2, <4>1
    <3> QED BY <2>4, <3>1, <3>2
  <2> QED BY <1>8, <2>3, <2>4 DEF Buscar
<1>9. CASE Gravar(c)
  <2>1. PICK q \in ApresentadoraOuNula : q = k.atual
    BY <1>1 DEF CalculoRow
  <2>2. k.fase = "gravar" /\ l \in Origens
    BY <1>9 DEF Gravar, Origens
  <2>3. CASE VendasDe(l, q) \ {k.achou} # {} /\ Terminar(c) /\ vendas' = vendas
    <3>1. Perdida(c) /\ Livre.live # l
      BY <2>1, <2>2, <2>3, ConstantesAssumption DEF Perdida, Livre
    <3>2. calculos'[c] = Livre /\ \A d \in Calculos : d # c => calculos'[d] = calculos[d]
      BY <2>3 DEF Terminar, Tipo, TypeOK
    <3>3. \A a \in ApresentadoraOuNula : VendasDe(l, a)' = VendasDe(l, a)
      BY <2>3 DEF VendasDe, Existe
    <3> QED BY <3>1, <3>2, <3>3, ServeDepois
  <2>4. CASE k.achou # NULL /\ AtualizarAchada(c) /\ Proxima(c)
    <3>1. k.achou \in VendasDe(l, q)
      BY <1>1, <2>1, <2>2, <2>4 DEF CalculoFirme
    <3>2. \A a : VendasDe(l, a)' = VendasDe(l, a)
      <4>1. k.achou \in Vendas /\ Existe(k.achou) /\ vendas[k.achou].apresentadora = k.atual
        BY <2>1, <3>1 DEF VendasDe
      <4> QED BY <2>4, <4>1, AchadaDe, MesmasLinhas
    <3>3. Coberta(l, q)'
      BY <3>1, <3>2 DEF Coberta
    <3> QED BY <1>1, <2>1, <2>2, <2>4, <3>2, <3>3, ProximaServe
  <2>5. CASE Inserir(l, q, "motor", k.base) /\ Proxima(c)
    <3>1. Coberta(l, q)' /\ \A a \in ApresentadoraOuNula : VendasDe(l, a) \subseteq VendasDe(l, a)'
      BY <1>1, <2>2, <2>5, InserirDe DEF Coberta
    <3> QED BY <1>1, <2>1, <2>2, <2>5, <3>1, ProximaServe
  <2> QED BY <1>9, <2>1, <2>3, <2>4, <2>5 DEF Gravar
<1> QED BY <1>5, <1>6, <1>7, <1>8, <1>9

-----------------------------------------------------------------------------
LEMMA CoberturaInit == Init => Cobertura
<1> SUFFICES ASSUME Init PROVE Cobertura
  OBVIOUS
<1>1. LivreSemLive /\ LinhaUnica
  BY DEF Init, LivreSemLive, LinhaUnica, Existe, Livre, SemVenda
<1> QED BY <1>1 DEF Init, Cobertura, Garantia

LEMMA CalculosParados ==
  ASSUME Cobertura, UNCHANGED calculos PROVE LivreSemLive' /\ \A m \in Lives : CalculosDe(m)
BY DEF Cobertura, LivreSemLive, CalculosDe

LEMMA CoberturaCalculo ==
  ASSUME Tipo, Faixa, Cobertura, NEW c \in Calculos,
         LerLive(c) \/ LerEquipe(c) \/ Somar(c) \/ Buscar(c) \/ Gravar(c) \/ Falhar(c)
  PROVE  Cobertura'
<1>1. PICK l \in Lives : l = calculos[c].live
  BY DEF LerLive, LerEquipe, Somar, Buscar, Gravar, Falhar, Tipo, CalculoCoerente
<1>2. \/ Terminar(c)
      \/ calculos'[c].fase # "livre" /\ calculos'[c].live = l /\ \A d \in Calculos \ {c} : calculos'[d] = calculos[d]
  <2>1. calculos \in [Calculos -> CalculoRow]
    BY DEF Tipo, TypeOK
  <2>2. CASE Proxima(c)
    <3> DEFINE r == [calculos[c] EXCEPT !.fase = "somar", !.atual = NULL, !.base = {}, !.achou = NULL]
    <3>1. r.fase = "somar" /\ r.live = l
      BY <1>1, <2>1 DEF CalculoRow
    <3>2. calculos' = [calculos EXCEPT ![c] = r] \/ Terminar(c)
      BY <2>1, <2>2 DEF Proxima, CalculoRow
    <3> HIDE DEF r
    <3> QED BY <2>1, <3>1, <3>2
  <2>3. CASE LerLive(c)
    BY <1>1, <2>1, <2>3 DEF LerLive, CalculoRow
  <2>4. CASE LerEquipe(c)
    BY <1>1, <2>1, <2>4 DEF LerEquipe, CalculoRow
  <2>5. CASE Somar(c)
    <3>1. PICK a \in calculos[c].fila :
            calculos' = [calculos EXCEPT ![c].fase = "buscar", ![c].atual = a, ![c].fila = @ \ {a},
                           ![c].base = IF a = NULL THEN {} ELSE Acumulado(a, calculos[c].live)]
      BY <2>5 DEF Somar
    <3> DEFINE b == IF a = NULL THEN {} ELSE Acumulado(a, calculos[c].live)
               f == calculos[c].fila \ {a}
               r == [calculos[c] EXCEPT !.fase = "buscar", !.atual = a, !.fila = f, !.base = b]
    <3>2. r.fase = "buscar" /\ r.live = l
      BY <1>1, <2>1 DEF CalculoRow
    <3>3. calculos' = [calculos EXCEPT ![c].fase = "buscar", ![c].atual = a, ![c].fila = f, ![c].base = b]
      BY <3>1
    <3> HIDE DEF b, f
    <3>4. calculos' = [calculos EXCEPT ![c] = r]
      BY <2>1, <3>3 DEF CalculoRow
    <3> HIDE DEF r
    <3> QED BY <2>1, <3>2, <3>4
  <2>6. CASE Buscar(c) /\ ~Proxima(c)
    BY <1>1, <2>1, <2>6 DEF Buscar, CalculoRow
  <2>7. CASE (Gravar(c) \/ Falhar(c)) /\ ~Proxima(c)
    BY <2>7 DEF Gravar, Falhar
  <2> QED BY <2>2, <2>3, <2>4, <2>5, <2>6, <2>7
<1>3. Terminar(c) => calculos'[c] = Livre /\ \A d \in Calculos \ {c} : calculos'[d] = calculos[d]
  BY DEF Terminar, Tipo, TypeOK
<1>4. LivreSemLive' /\ \A m \in Lives : m # l => CalculosDe(m)
  BY <1>1, <1>2, <1>3, ConstantesAssumption DEF Cobertura, LivreSemLive, CalculosDe, Livre
<1>5. LinhaUnica' /\ \A m \in Lives : m # l => LinhasDe(m)
  <2>1. CASE UNCHANGED vendas
    BY <2>1, IguaisDe DEF Cobertura
  <2>2. CASE Inserir(l, calculos[c].atual, "motor", calculos[c].base)
    BY <2>2, InserirDe DEF Cobertura, Origens
  <2>3. CASE Gravar(c) /\ calculos[c].achou # NULL /\ AtualizarAchada(c)
             /\ VendasDe(l, calculos[c].atual) \ {calculos[c].achou} = {}
    <3>1. calculos[c].achou \in Vendas /\ Existe(calculos[c].achou) /\ vendas[calculos[c].achou].origem = l
      BY <1>1, <2>3 DEF Gravar, Faixa, AchadaCoerente, Tipo, TypeOK, CalculoRow
    <3>2. /\ \A w \in Vendas : /\ Existe(w)' <=> Existe(w)
                               /\ vendas'[w].origem = vendas[w].origem
                               /\ w # calculos[c].achou => vendas'[w] = vendas[w]
          /\ vendas'[calculos[c].achou].apresentadora = calculos[c].atual
      BY <2>3, <3>1, AchadaDe
    <3>3. LinhaUnica'
      BY <2>3, <3>1, <3>2 DEF Cobertura, LinhaUnica, VendasDe
    <3>4. \A m \in Lives : m # l => LinhasDe(m)
      BY <3>1, <3>2 DEF LinhasDe, VendasDe
    <3> QED BY <3>3, <3>4
  <2> QED BY <1>1, <2>1, <2>2, <2>3 DEF LerLive, LerEquipe, Somar, Buscar, Gravar, Falhar
<1>6. lives' = lives /\ incertas \subseteq incertas'
  BY DEF LerLive, LerEquipe, Somar, Buscar, Gravar, Falhar
<1>7. \A m \in Lives : m # l => Garantia(m)'
  BY <1>4, <1>5, <1>6, GarantiaAlheia DEF Cobertura
<1>8. Garantia(l)'
  <2>1. CASE Falhar(c)
    BY <1>1, <2>1 DEF Falhar, Garantia
  <2>2. CASE LerLive(c) \/ LerEquipe(c) \/ Somar(c) \/ Buscar(c) \/ Gravar(c)
    <3>1. SUFFICES ASSUME l \notin incertas PROVE Garantia(l)'
      BY <1>6 DEF Garantia
    <3>2. Acabou(l)'
      BY <1>6, <3>1 DEF Cobertura, Garantia, Acabou
    <3>3. ASSUME l \in ComMarca, lives[l].status = "encerrada" PROVE Servida(l)'
      BY <1>1, <1>6, <2>2, <3>1, <3>3, ServePasso DEF Cobertura, Garantia
    <3> QED BY <1>6, <3>2, <3>3 DEF Garantia
  <2> QED BY <2>1, <2>2
<1> QED BY <1>4, <1>5, <1>7, <1>8 DEF Cobertura

LEMMA CoberturaLives ==
  ASSUME Tipo, Faixa, Cobertura, NEW l \in Lives,
         \/ IniciarLive(l) \/ EncerrarLive(l) \/ FinalizarPeloPoll(l) \/ CriarLiveManual(l)
         \/ EditarLive(l) \/ ExcluirLive(l) \/ \E a \in ComConta : MudarEquipe(l, a)
  PROVE  Cobertura'
<1>1. \A m \in Lives \ {l} : lives'[m] = lives[m] /\ (m \in incertas => m \in incertas')
  BY DEF IniciarLive, EncerrarLive, FinalizarPeloPoll, CriarLiveManual, EditarLive, ExcluirLive,
         MudarEquipe, Recalcular, Tipo, TypeOK
<1>2. LinhaUnica' /\ \A m \in Lives : m # l => LinhasDe(m)
  BY LancarDe, IguaisDe DEF IniciarLive, EncerrarLive, FinalizarPeloPoll, CriarLiveManual, EditarLive,
     ExcluirLive, MudarEquipe, Cobertura
<1>3. LivreSemLive' /\ \A m \in Lives : m # l => CalculosDe(m)
  BY CalculosParados, DispararServe DEF IniciarLive, EncerrarLive, FinalizarPeloPoll, CriarLiveManual,
     EditarLive, ExcluirLive, MudarEquipe, Recalcular
<1>4. \A m \in Lives : m # l => Garantia(m)'
  BY <1>1, <1>2, <1>3, GarantiaAlheia DEF Cobertura
<1>5. Garantia(l)
  BY DEF Cobertura
<1>6. ASSUME IniciarLive(l) \/ FinalizarPeloPoll(l) \/ CriarLiveManual(l) PROVE Garantia(l)'
  BY <1>5, <1>6 DEF IniciarLive, FinalizarPeloPoll, CriarLiveManual, Garantia, Acabou
<1>7. ASSUME EncerrarLive(l) PROVE Garantia(l)'
  <2>1. Disparar(l) /\ lives'[l].status = "encerrada"
    BY <1>7 DEF EncerrarLive, Recalcular, Tipo, TypeOK, LiveRow
  <2>2. EmCalculo(l) = {}
    <3> SUFFICES ASSUME NEW c \in Calculos, calculos[c].live = l PROVE FALSE
      BY DEF EmCalculo
    <3>1. calculos[c].fase # "livre"
      BY ConstantesAssumption DEF Cobertura, LivreSemLive
    <3> QED BY <1>7, <3>1 DEF EncerrarLive, Faixa, SoDepoisDoFim, Acabou
  <2> QED BY <2>1, <2>2, DispararServe DEF Garantia, Acabou
<1>8. ASSUME EditarLive(l) PROVE Garantia(l)'
  <2>1. lives[l].status = "encerrada" /\ lives'[l].status = "encerrada" /\ vendas' = vendas
    BY <1>8 DEF EditarLive, Tipo, TypeOK, LiveRow
  <2>2. LinhasDe(l)
    BY <2>1, IguaisDe
  <2>3. CASE EmCalculo(l) = {} /\ Recalcular(l)
    BY <2>1, <2>3, DispararServe DEF Recalcular, Garantia, Acabou
  <2>4. CASE EmCalculo(l) # {} /\ Recalcular(l) /\ lives' = lives
    <3>1. Disparar(l) /\ incertas' = incertas
      BY <2>4 DEF Recalcular
    <3>2. l \notin incertas /\ l \in ComMarca => Servida(l)'
      BY <1>5, <2>1, <2>2, <2>4, <3>1, DispararServe DEF Garantia
    <3> QED BY <2>1, <3>1, <3>2 DEF Garantia, Acabou
  <2>5. CASE incertas' = incertas \cup {l}
    BY <2>5 DEF Garantia
  <2> QED BY <1>8, <2>3, <2>4, <2>5 DEF EditarLive
<1>9. ASSUME ExcluirLive(l) PROVE Garantia(l)'
  <2>1. lives'[l].status = "excluida" /\ lives[l].status = "encerrada" /\ incertas' = incertas
    BY <1>9 DEF ExcluirLive, Tipo, TypeOK, LiveRow
  <2> QED BY <2>1 DEF Garantia, Acabou
<1>10. ASSUME \E a \in ComConta : MudarEquipe(l, a) PROVE Garantia(l)'
  BY <1>10 DEF MudarEquipe, Garantia
<1> QED BY <1>2, <1>3, <1>4, <1>6, <1>7, <1>8, <1>9, <1>10 DEF Cobertura

LEMMA CoberturaResto ==
  ASSUME Tipo, Cobertura,
         \/ \E x \in Videos : \/ \E a \in ApresentadoraOuNula : CriarVideo(x, a) \/ EditarVideo(x, a)
                              \/ ExcluirVideo(x)
         \/ \E o \in Origens, a \in ApresentadoraOuNula : LancarPorMao(o, a)
         \/ \E v \in Vendas : \/ Aprovar(v) \/ Reprovar(v)
                              \/ \E a \in ApresentadoraOuNula : CorrigirVenda(v, a)
         \/ UNCHANGED vars
  PROVE  Cobertura'
<1> DEFINE Livra(m) == LinhasDe(m) \/ m \in incertas'
<1>1. UNCHANGED <<lives, calculos>> /\ incertas \subseteq incertas'
  BY DEF CriarVideo, EditarVideo, ExcluirVideo, LancarPorMao, Aprovar, Reprovar, CorrigirVenda, vars
<1>2. ASSUME NEW x \in Videos, NEW a \in ApresentadoraOuNula, CriarVideo(x, a) \/ EditarVideo(x, a)
      PROVE  LinhaUnica' /\ \A m \in Lives : Livra(m)
  BY <1>2, UpsertDe, IguaisDe, ConstantesAssumption DEF CriarVideo, EditarVideo, Cobertura, Origens
<1>3. ASSUME NEW x \in Videos, ExcluirVideo(x) PROVE LinhaUnica' /\ \A m \in Lives : Livra(m)
  <2>1. x \notin Lives /\ NULL \notin Lives
    BY ConstantesAssumption
  <2>2. \A v \in Vendas : vendas'[v] = IF Existe(v) /\ vendas[v].origem = x THEN SemVenda ELSE vendas[v]
    BY <1>3 DEF ExcluirVideo
  <2>3. \A v \in Vendas : Existe(v)' => Existe(v) /\ vendas'[v] = vendas[v]
    BY <2>2 DEF Existe, SemVenda
  <2>4. \A v \in Vendas : Existe(v) /\ vendas[v].origem # x => vendas'[v] = vendas[v]
    BY <2>2
  <2> QED BY <2>1, <2>3, <2>4 DEF Cobertura, LinhaUnica, LinhasDe, VendasDe, Existe
<1>4. ASSUME NEW o \in Origens, NEW a \in ApresentadoraOuNula, LancarPorMao(o, a)
      PROVE  LinhaUnica' /\ \A m \in Lives : Livra(m)
  BY <1>4, UpsertDe DEF LancarPorMao, Cobertura
<1>5. ASSUME NEW v \in Vendas, Aprovar(v) \/ Reprovar(v) PROVE LinhaUnica' /\ \A m \in Lives : Livra(m)
  <2>1. \A w \in Vendas : /\ Existe(w)' <=> Existe(w)
                          /\ vendas'[w].origem = vendas[w].origem
                          /\ vendas'[w].apresentadora = vendas[w].apresentadora
    BY <1>5 DEF Aprovar, Reprovar, Existe, Tipo, TypeOK, VendaRow
  <2> QED BY <2>1, MesmasLinhas DEF Cobertura, LinhasDe
<1>6. ASSUME NEW v \in Vendas, NEW a \in ApresentadoraOuNula, CorrigirVenda(v, a)
      PROVE  LinhaUnica' /\ \A m \in Lives : Livra(m)
  <2>1. /\ \A w \in Vendas : /\ Existe(w)' <=> Existe(w)
                             /\ vendas'[w].origem = vendas[w].origem
                             /\ w # v => vendas'[w] = vendas[w]
        /\ vendas'[v].apresentadora = a /\ Existe(v) /\ VendasDe(vendas[v].origem, a) \subseteq {v}
    BY <1>6 DEF CorrigirVenda, Existe, Tipo, TypeOK, VendaRow
  <2>2. LinhaUnica'
    BY <2>1 DEF Cobertura, LinhaUnica, VendasDe
  <2>3. ASSUME NEW m \in Lives PROVE Livra(m)
    <3>1. CASE vendas[v].origem = m
      BY <1>6, <3>1 DEF CorrigirVenda
    <3>2. CASE vendas[v].origem # m
      BY <2>1, <3>2 DEF LinhasDe, VendasDe
    <3> QED BY <3>1, <3>2
  <2> QED BY <2>2, <2>3
<1>7. ASSUME UNCHANGED vars PROVE LinhaUnica' /\ \A m \in Lives : Livra(m)
  BY <1>7, IguaisDe DEF vars, Cobertura
<1>8. LinhaUnica' /\ \A m \in Lives : Livra(m)
  BY <1>2, <1>3, <1>4, <1>5, <1>6, <1>7
<1>9. ASSUME NEW m \in Lives PROVE Garantia(m)'
  <2>1. CASE LinhasDe(m)
    BY <1>1, <2>1, CalculosParados, GarantiaAlheia DEF Cobertura
  <2>2. CASE m \in incertas'
    BY <2>2 DEF Garantia
  <2> QED BY <1>8, <2>1, <2>2
<1> QED BY <1>1, <1>8, <1>9, CalculosParados DEF Cobertura

(* When the recalculations of a live are over, every presenter has a row, however many of *)
(* them raced on the unique index and stopped half done, unless one failed otherwise, the *)
(* presenters changed without a recalculation, or somebody entered the sale by hand.      *)
THEOREM TodasCorrect == Spec => []TodasComComissao
<1>1. Init => Tipo /\ Faixa /\ Cobertura
  BY TipoInit, FaixaInit, CoberturaInit
<1>2. Tipo /\ Faixa /\ Cobertura /\ [Next]_vars => (Tipo /\ Faixa /\ Cobertura)'
  BY TipoNext, FaixaNext, CoberturaCalculo, CoberturaLives, CoberturaResto DEF Next
<1>3. Cobertura => TodasComComissao
  BY ConstantesAssumption DEF Cobertura, Garantia, Servida, TodasComComissao, Coberta
<1> QED BY <1>1, <1>2, <1>3, PTL DEF Spec
=============================================================================
