------------------------------ MODULE Comissoes ------------------------------
(***************************************************************************)
(* Attributed sales and their commissions: the sale written with the end   *)
(* of a live, the recalculation started after the COMMIT and not awaited,  *)
(* sales of videos, corrections by hand, approval and rejection.           *)
(*                                                                         *)
(* A recalculation of services/commission-engine.js is a process of its    *)
(* own: every statement autocommits, and between any two of them any other *)
(* handler or recalculation may run.  Amounts are left out.  What stands   *)
(* for the commission of a row is who computed it last and, for the        *)
(* engine, the sales that counted towards the presenter's bracket.  All    *)
(* sales are of one month.                                                 *)
(***************************************************************************)
EXTENDS FiniteSets

CONSTANTS
  Lives,            \* ids that rows of lives can take
  Videos,           \* ids that rows of video_registros can take
  Apresentadoras,   \* rows of apresentadoras
  ComConta,         \* those with a user_id
  ComMarca,         \* lives whose client has an active marca
  Vendas,           \* bound: ids that rows of vendas_atribuidas can take
  Calculos,         \* bound: recalculations in flight at once
  Eventualidades,   \* what may happen besides the normal run, see below
  NULL

(* 'falha': a statement of a recalculation fails or its process dies; 'mao': a sale is  *)
(* entered or corrected by hand; 'equipe': the presenters of an ended live change;      *)
(* 'poll': the TikTok poll ends a live; 'decisao': sales are approved and rejected;     *)
(* 'exclusao': an ended live is deleted.                                                *)
EventualidadesPossiveis == {"falha", "mao", "equipe", "poll", "decisao", "exclusao"}

ASSUME ConstantesAssumption ==
  /\ ComConta \subseteq Apresentadoras
  /\ ComMarca \subseteq Lives
  /\ Lives \cap Videos = {}
  /\ Eventualidades \subseteq EventualidadesPossiveis
  /\ NULL \notin Lives \cup Videos \cup Apresentadoras \cup Vendas

VARIABLES
  lives,      \* row per live, with its presenters
  videos,     \* videos that are registered, and those that were
  vendas,     \* row per attributed sale
  calculos,   \* recalculations in flight
  firmes,     \* history: sales approved while no recalculation was about to write them
  incertas    \* history: lives whose last recalculation may not cover its presenters

vars == <<lives, videos, vendas, calculos, firmes, incertas>>

Origens == Lives \cup Videos

ApresentadoraOuNula == Apresentadoras \cup {NULL}

LiveRow == [status: {"ausente", "em_andamento", "encerrada", "excluida"},
            principal: ComConta \cup {NULL},   \* the presenter lives.apresentador_id leads to
            segundas: SUBSET ComConta]         \* those of live_apresentadores

VideoStatus == {"ausente", "registrado", "excluido"}

VendaStatus == {"ausente", "pendente_aprovacao", "aprovada", "reprovada"}

(* Who wrote a row: the handler of the live or video, the engine, or a person.          *)
Autores == {"rota", "motor", "mao"}

OrigemOuNula == Origens \cup {NULL}

VendaRow == [status: VendaStatus, origem: OrigemOuNula, apresentadora: ApresentadoraOuNula,
             criada: Autores, por: Autores, base: SUBSET OrigemOuNula]

CalculoRow == [fase: {"livre", "live", "equipe", "somar", "buscar", "gravar"},
               live: Lives \cup {NULL}, fila: SUBSET ApresentadoraOuNula,
               atual: ApresentadoraOuNula, base: SUBSET OrigemOuNula, achou: Vendas \cup {NULL}]

TypeOK ==
  /\ lives \in [Lives -> LiveRow]
  /\ videos \in [Videos -> VideoStatus]
  /\ vendas \in [Vendas -> VendaRow]
  /\ calculos \in [Calculos -> CalculoRow]
  /\ firmes \subseteq Vendas
  /\ incertas \subseteq Lives

SemVenda == [status |-> "ausente", origem |-> NULL, apresentadora |-> NULL,
             criada |-> "rota", por |-> "rota", base |-> {}]

Livre == [fase |-> "livre", live |-> NULL, fila |-> {}, atual |-> NULL, base |-> {}, achou |-> NULL]

Init ==
  /\ lives = [l \in Lives |-> [status |-> "ausente", principal |-> NULL, segundas |-> {}]]
  /\ videos = [x \in Videos |-> "ausente"]
  /\ vendas = [v \in Vendas |-> SemVenda]
  /\ calculos = [c \in Calculos |-> Livre]
  /\ firmes = {}
  /\ incertas = Lives

Ocorre(e) == e \in Eventualidades

-----------------------------------------------------------------------------
(* vendas_atribuidas.  The unique index admits one row per origin and presenter, and    *)
(* one per origin without presenter.                                                    *)

Existe(v) == vendas[v].status # "ausente"

VendasDe(o, a) == {v \in Vendas : Existe(v) /\ vendas[v].origem = o /\ vendas[v].apresentadora = a}

Inserir(o, a, autor, base) ==
  /\ VendasDe(o, a) = {}
  /\ \E v \in Vendas :
       /\ ~Existe(v)
       /\ vendas' = [vendas EXCEPT ![v] = [status |-> "pendente_aprovacao", origem |-> o,
                       apresentadora |-> a, criada |-> autor, por |-> autor, base |-> base]]

(* upsertVendaAtribuida: the amounts are replaced whatever the status, which stays. *)
Atualizar(o, a, autor) ==
  \E v \in VendasDe(o, a) :
    vendas' = [vendas EXCEPT ![v].por = autor, ![v].base = {},
                             ![v].criada = IF autor = "mao" THEN "mao" ELSE @]

UpsertVenda(o, a, autor) == Inserir(o, a, autor, {}) \/ Atualizar(o, a, autor)

(* The sale of a live, written in the transaction that ends it; none without a marca. *)
LancarVenda(l, a) ==
  IF l \in ComMarca THEN UpsertVenda(l, a, "rota") ELSE UNCHANGED vendas

-----------------------------------------------------------------------------
(* Lives.  calcularComissoesDaLive is called after the COMMIT and nobody waits for it.  *)

EmCalculo(l) == {c \in Calculos : calculos[c].live = l}

Disparar(l) ==
  \E c \in Calculos : /\ calculos[c].fase = "livre"
                      /\ calculos' = [calculos EXCEPT ![c] = [Livre EXCEPT !.fase = "live", !.live = l]]

Recalcular(l) ==
  /\ Disparar(l)
  /\ incertas' = IF EmCalculo(l) = {} THEN incertas \ {l} ELSE incertas

(* The user who starts the live is its presenter, if presenter at all. *)
IniciarLive(l) ==
  /\ lives[l].status = "ausente"
  /\ \E p \in ComConta \cup {NULL} :
       lives' = [lives EXCEPT ![l].status = "em_andamento", ![l].principal = p]
  /\ UNCHANGED <<videos, vendas, calculos, firmes, incertas>>

EncerrarLive(l) ==
  /\ lives[l].status = "em_andamento"
  /\ lives' = [lives EXCEPT ![l].status = "encerrada"]
  /\ LancarVenda(l, lives[l].principal)
  /\ Recalcular(l)
  /\ UNCHANGED <<videos, firmes>>

(* The poll ends the live without a sale and without a recalculation. *)
FinalizarPeloPoll(l) ==
  /\ Ocorre("poll")
  /\ lives[l].status = "em_andamento"
  /\ lives' = [lives EXCEPT ![l].status = "encerrada"]
  /\ UNCHANGED <<videos, vendas, calculos, firmes, incertas>>

(* A live entered by hand has its sale for the first presenter, even one without a      *)
(* user, whom the columns of the live cannot name; it is not recalculated.              *)
CriarLiveManual(l) ==
  /\ lives[l].status = "ausente"
  /\ \E a \in ApresentadoraOuNula, s \in ApresentadoraOuNula :
       /\ lives' = [lives EXCEPT ![l] = [status |-> "encerrada",
                      principal |-> IF a \in ComConta THEN a ELSE NULL,
                      segundas |-> {s} \cap ComConta]]
       /\ LancarVenda(l, a)
  /\ UNCHANGED <<videos, calculos, firmes, incertas>>

(* PATCH of an ended live: with new amounts it recalculates, with new presenters alone  *)
(* it does not.  The rows of presenters that leave stay.                                *)
EditarLive(l) ==
  /\ lives[l].status = "encerrada"
  /\ \/ Recalcular(l) /\ UNCHANGED lives
     \/ /\ Ocorre("equipe")
        /\ \E p \in ComConta \cup {lives[l].principal}, s \in {{}} \cup {{a} : a \in ComConta} :
             lives' = [lives EXCEPT ![l].principal = p, ![l].segundas = s]
        /\ \/ EmCalculo(l) = {} /\ Recalcular(l)
           \/ /\ (EmCalculo(l) # {} /\ Disparar(l)) \/ UNCHANGED calculos
              /\ incertas' = incertas \cup {l}
  /\ UNCHANGED <<videos, vendas, firmes>>

ExcluirLive(l) ==
  /\ Ocorre("exclusao")
  /\ lives[l].status = "encerrada"
  /\ lives' = [lives EXCEPT ![l].status = "excluida", ![l].segundas = {}]
  /\ UNCHANGED <<videos, vendas, calculos, firmes, incertas>>

(* Presenters added to and taken from a live that is on the air or over. *)
MudarEquipe(l, a) ==
  /\ lives[l].status \in {"em_andamento", "encerrada"}
  /\ lives[l].status = "encerrada" => Ocorre("equipe")
  /\ \/ lives' = [lives EXCEPT ![l].segundas = @ \cup {a}]
     \/ a \in lives[l].segundas /\ lives' = [lives EXCEPT ![l].segundas = @ \ {a}]
  /\ incertas' = incertas \cup {l}
  /\ UNCHANGED <<videos, vendas, calculos, firmes>>

-----------------------------------------------------------------------------
(* One recalculation.  The presenters come in no order. *)

Terminar(c) == calculos' = [calculos EXCEPT ![c] = Livre]

(* Mutant: the loop returns where it should continue. *)
MutProxima(c) == Terminar(c)

Proxima(c) ==
  IF calculos[c].fila = {} THEN Terminar(c)
  ELSE calculos' = [calculos EXCEPT ![c].fase = "somar", ![c].atual = NULL, ![c].base = {}, ![c].achou = NULL]

LerLive(c) ==
  LET l == calculos[c].live IN
  /\ calculos[c].fase = "live"
  /\ IF lives[l].status = "encerrada" /\ l \in ComMarca
     THEN calculos' = [calculos EXCEPT ![c].fase = "equipe", ![c].fila = {lives[l].principal} \ {NULL}]
     ELSE Terminar(c)
  /\ UNCHANGED <<lives, videos, vendas, firmes, incertas>>

(* Without any presenter there is one row, of nobody. *)
LerEquipe(c) ==
  LET todas == calculos[c].fila \cup lives[calculos[c].live].segundas IN
  /\ calculos[c].fase = "equipe"
  /\ calculos' = [calculos EXCEPT ![c].fase = "somar", ![c].fila = IF todas = {} THEN {NULL} ELSE todas]
  /\ UNCHANGED <<lives, videos, vendas, firmes, incertas>>

(* Mutant: the sum counts only what the engine has computed. *)
MutAcumulado(a, l) ==
  {vendas[v].origem : v \in {w \in Vendas : /\ Existe(w) /\ vendas[w].apresentadora = a
                                            /\ vendas[w].origem # l /\ vendas[w].por = "motor"}}

(* gmvAcumuladoMes: every sale of the presenter but those of this live. *)
Acumulado(a, l) ==
  {vendas[v].origem : v \in {w \in Vendas : /\ Existe(w) /\ vendas[w].apresentadora = a
                                            /\ vendas[w].origem # l}}

Somar(c) ==
  /\ calculos[c].fase = "somar"
  /\ \E a \in calculos[c].fila :
       calculos' = [calculos EXCEPT ![c].fase = "buscar", ![c].atual = a, ![c].fila = @ \ {a},
                      ![c].base = IF a = NULL THEN {} ELSE Acumulado(a, calculos[c].live)]
  /\ UNCHANGED <<lives, videos, vendas, firmes, incertas>>

(* Mutant: an approved row is recalculated like any other. *)
MutIntocavel(v) == FALSE

Intocavel(v) == vendas[v].status = "aprovada"

(* The row of this presenter, if any; an approved one is skipped. *)
Buscar(c) ==
  LET suas == VendasDe(calculos[c].live, calculos[c].atual) IN
  /\ calculos[c].fase = "buscar"
  /\ \/ suas = {} /\ calculos' = [calculos EXCEPT ![c].fase = "gravar", ![c].achou = NULL]
     \/ \E v \in suas : IF Intocavel(v) THEN Proxima(c)
                        ELSE calculos' = [calculos EXCEPT ![c].fase = "gravar", ![c].achou = v]
  /\ UNCHANGED <<lives, videos, vendas, firmes, incertas>>

(* Mutant: a status that the CHECK of migration 083 does not know. *)
MutAtualizarAchada(c) ==
  vendas' = [vendas EXCEPT ![calculos[c].achou].apresentadora = calculos[c].atual,
                           ![calculos[c].achou].por = "motor",
                           ![calculos[c].achou].base = calculos[c].base,
                           ![calculos[c].achou].status = "pendente"]

AtualizarAchada(c) ==
  vendas' = [vendas EXCEPT ![calculos[c].achou].apresentadora = calculos[c].atual,
                           ![calculos[c].achou].por = "motor",
                           ![calculos[c].achou].base = calculos[c].base,
                           ![calculos[c].achou].status = "pendente_aprovacao"]

(* The UPDATE is by id, whatever has become of the row; the INSERT, and the UPDATE of a *)
(* row that was given to another presenter, may meet the unique index, and the error    *)
(* ends the whole recalculation.                                                        *)
Gravar(c) ==
  LET outras == VendasDe(calculos[c].live, calculos[c].atual) \ {calculos[c].achou} IN
  /\ calculos[c].fase = "gravar"
  /\ \/ outras # {} /\ Terminar(c) /\ UNCHANGED vendas
     \/ outras = {} /\ calculos[c].achou # NULL /\ AtualizarAchada(c) /\ Proxima(c)
     \/ /\ outras = {} /\ calculos[c].achou = NULL
        /\ Inserir(calculos[c].live, calculos[c].atual, "motor", calculos[c].base)
        /\ Proxima(c)
  /\ UNCHANGED <<lives, videos, firmes, incertas>>

Falhar(c) ==
  /\ Ocorre("falha")
  /\ calculos[c].fase # "livre"
  /\ Terminar(c)
  /\ incertas' = incertas \cup {calculos[c].live}
  /\ UNCHANGED <<lives, videos, vendas, firmes>>

-----------------------------------------------------------------------------
(* Videos: the sale is written, and deleted, in the transaction of the video. *)

CriarVideo(x, a) ==
  /\ videos[x] = "ausente"
  /\ videos' = [videos EXCEPT ![x] = "registrado"]
  /\ UpsertVenda(x, a, "rota") \/ UNCHANGED vendas      \* no amount, no sale
  /\ UNCHANGED <<lives, calculos, firmes, incertas>>

EditarVideo(x, a) ==
  /\ videos[x] = "registrado"
  /\ UpsertVenda(x, a, "rota") \/ UNCHANGED vendas
  /\ UNCHANGED <<lives, videos, calculos, firmes, incertas>>

ExcluirVideo(x) ==
  LET suas == {v \in Vendas : Existe(v) /\ vendas[v].origem = x} IN
  /\ videos[x] = "registrado"
  /\ videos' = [videos EXCEPT ![x] = "excluido"]
  /\ vendas' = [v \in Vendas |-> IF v \in suas THEN SemVenda ELSE vendas[v]]
  /\ firmes' = firmes \ suas
  /\ UNCHANGED <<lives, calculos, incertas>>

-----------------------------------------------------------------------------
(* By hand.  origem_id is not looked up, so that a sale may precede its live. *)

LancarPorMao(o, a) ==
  /\ Ocorre("mao")
  /\ UpsertVenda(o, a, "mao")
  /\ incertas' = incertas \cup ({o} \cap Lives)
  /\ UNCHANGED <<lives, videos, calculos, firmes>>

(* The PATCH writes back every amount, and may give the row to another presenter. *)
CorrigirVenda(v, a) ==
  /\ Ocorre("mao")
  /\ Existe(v)
  /\ VendasDe(vendas[v].origem, a) \subseteq {v}
  /\ vendas' = [vendas EXCEPT ![v].apresentadora = a, ![v].por = "mao", ![v].base = {}, ![v].criada = "mao"]
  /\ incertas' = incertas \cup ({vendas[v].origem} \cap Lives)
  /\ UNCHANGED <<lives, videos, calculos, firmes>>

(* Recalculations that are going to write the row they have read. *)
Visada(v) == {c \in Calculos : calculos[c].fase = "gravar" /\ calculos[c].achou = v}

Aprovar(v) ==
  /\ Ocorre("decisao")
  /\ Existe(v)
  /\ vendas[v].status # "aprovada"
  /\ vendas' = [vendas EXCEPT ![v].status = "aprovada"]
  /\ firmes' = IF Visada(v) = {} THEN firmes \cup {v} ELSE firmes
  /\ UNCHANGED <<lives, videos, calculos, incertas>>

Reprovar(v) ==
  /\ Ocorre("decisao")
  /\ Existe(v)
  /\ vendas[v].status # "reprovada"
  /\ vendas' = [vendas EXCEPT ![v].status = "reprovada"]
  /\ firmes' = firmes \ {v}
  /\ UNCHANGED <<lives, videos, calculos, incertas>>

-----------------------------------------------------------------------------
Next ==
  \/ \E l \in Lives :
       \/ IniciarLive(l) \/ EncerrarLive(l) \/ FinalizarPeloPoll(l) \/ CriarLiveManual(l)
       \/ EditarLive(l) \/ ExcluirLive(l)
       \/ \E a \in ComConta : MudarEquipe(l, a)
  \/ \E c \in Calculos : LerLive(c) \/ LerEquipe(c) \/ Somar(c) \/ Buscar(c) \/ Gravar(c) \/ Falhar(c)
  \/ \E x \in Videos :
       \/ \E a \in ApresentadoraOuNula : CriarVideo(x, a) \/ EditarVideo(x, a)
       \/ ExcluirVideo(x)
  \/ \E o \in Origens, a \in ApresentadoraOuNula : LancarPorMao(o, a)
  \/ \E v \in Vendas :
       \/ Aprovar(v) \/ Reprovar(v)
       \/ \E a \in ApresentadoraOuNula : CorrigirVenda(v, a)

Spec == Init /\ [][Next]_vars

-----------------------------------------------------------------------------
(* Two sales of one presenter, both written with the end of their live, never corrected *)
(* by hand and last computed by the engine: at least one of the two counted the other   *)
(* towards the bracket, however the recalculations, in flight together and overtaking   *)
(* each other, interleave.  The engine alone could not ensure it: it is the sale        *)
(* inserted in the transaction of lives.js:912, before the recalculation starts.        *)
DoMotor(v) == vendas[v].criada = "rota" /\ vendas[v].por = "motor" /\ vendas[v].apresentadora # NULL

UmaContaAOutra ==
  \A v, w \in Vendas :
    /\ Existe(v) /\ Existe(w) /\ DoMotor(v) /\ DoMotor(w)
    /\ vendas[v].apresentadora = vendas[w].apresentadora
    /\ vendas[v].origem # vendas[w].origem
    => vendas[v].origem \in vendas[w].base \/ vendas[w].origem \in vendas[v].base

(* When the recalculations of a live are over, every presenter of the live has a row,   *)
(* although two that race lose one of them to the unique index, half done: the loser's  *)
(* presenters are the winner's.  Not promised after a failure, a change of presenters   *)
(* without recalculation, or a hand in the rows.                                        *)
Equipe(l) == LET todas == ({lives[l].principal} \ {NULL}) \cup lives[l].segundas
             IN IF todas = {} THEN {NULL} ELSE todas

TodasComComissao ==
  \A l \in ComMarca \ incertas :
    lives[l].status = "encerrada" /\ EmCalculo(l) = {} => \A a \in Equipe(l) : VendasDe(l, a) # {}

(* An approval given when no recalculation had already read the row as open (commission-  *)
(* engine.js:141-150) is undone by a rejection only, never by a recalculation.            *)
AprovacaoFirme == \A v \in firmes : vendas[v].status = "aprovada"
=============================================================================
