-------------------------- MODULE ConnectorManager --------------------------
(***************************************************************************)
(* services/tiktok-connector-manager.js: the in-memory map of TikTok       *)
(* connections that a reconciliation keeps equal to the lives in progress. *)
(*                                                                         *)
(* The process is single-threaded: an action runs from one resumption of   *)
(* an await to the next, so what a call read before an await may be stale  *)
(* after it.  syncLives runs from the cron and after every start of a      *)
(* live; stopConnector runs inside it, after the end of a live and on      *)
(* streamEnd.  The counters of a connection are one number, the events it  *)
(* has received.  The optional package is taken as installed.              *)
(***************************************************************************)
EXTENDS Naturals, FiniteSets

CONSTANTS
  Lives,
  Conexoes,        \* bound: connections alive at the same time
  Sincronias,      \* calls of syncLives: the cron's and those after a start
  Paradas,         \* calls of stopConnector outside syncLives
  Cron,            \* the cron's call, one at a time by _pollRunning
  MAX_CONNECTORS,
  MaxEventos,      \* bound: events a connection receives
  NULL

ASSUME ManagerAssumption ==
  /\ Cron \in Sincronias
  /\ Sincronias \cap Paradas = {}
  /\ MAX_CONNECTORS \in Nat \ {0}
  /\ MaxEventos \in Nat
  /\ NULL \notin Lives \cup Conexoes \cup Nat

VARIABLES
  ativas,     \* database: the lives the query of syncLives returns
  snapshots,  \* database: events counted by the last row of live_snapshots, per live
  mapa,       \* _liveMap: the connection of each live, or NULL
  conexoes,   \* the connections, and the state their handlers close over
  chamadas    \* the calls in flight

vars == <<ativas, snapshots, mapa, conexoes, chamadas>>

Chamadores == Sincronias \cup Paradas

(* 'abandonada' is a connection stopped before its connect() has settled. *)
StatusConexao == {"fora", "conectando", "abandonada", "ligada", "caiu"}

(* 'gravando' is state.flushing with the count the INSERT in flight carries. *)
ConexaoRow == [status: StatusConexao,
               live: Lives \cup {NULL}, eventos: Nat, dirty: BOOLEAN,
               gravando: Nat \cup {NULL}, timer: BOOLEAN]

ChamadaRow == [pc: {"livre", "parar", "iniciar", "produtos", "encerrou", "flush",
                    "final", "desligando"},
               live: Lives \cup {NULL}, conexao: Conexoes \cup {NULL},
               lidas: SUBSET Lives, faltam: SUBSET Lives, valor: Nat]

TypeOK ==
  /\ ativas \subseteq Lives
  /\ snapshots \in [Lives -> Nat]
  /\ mapa \in [Lives -> Conexoes \cup {NULL}]
  /\ conexoes \in [Conexoes -> ConexaoRow]
  /\ chamadas \in [Chamadores -> ChamadaRow]

ConexaoFora == [status |-> "fora", live |-> NULL, eventos |-> 0, dirty |-> FALSE,
                gravando |-> NULL, timer |-> FALSE]

ChamadaLivre == [pc |-> "livre", live |-> NULL, conexao |-> NULL, lidas |-> {},
                 faltam |-> {}, valor |-> 0]

Init ==
  /\ ativas = {}
  /\ snapshots = [l \in Lives |-> 0]
  /\ mapa = [l \in Lives |-> NULL]
  /\ conexoes = [x \in Conexoes |-> ConexaoFora]
  /\ chamadas = [p \in Chamadores |-> ChamadaLivre]

NoMapa == {l \in Lives : mapa[l] # NULL}

-----------------------------------------------------------------------------
(* The lives, as the query of syncLives sees them. *)

(* A start commits, or a release is repaired, and syncLives is called without waiting. *)
LiveEntra(l) ==
  /\ l \notin ativas
  /\ ativas' = ativas \cup {l}
  /\ UNCHANGED <<snapshots, mapa, conexoes, chamadas>>

(* The cabine of the live is released: nobody calls the manager. *)
LiveSai(l) ==
  /\ l \in ativas
  /\ ativas' = ativas \ {l}
  /\ UNCHANGED <<snapshots, mapa, conexoes, chamadas>>

(* PATCH encerrar has committed; it will look at the map when it resumes. *)
Encerrar(q, l) ==
  /\ chamadas[q].pc = "livre"
  /\ l \in ativas
  /\ ativas' = ativas \ {l}
  /\ chamadas' = [chamadas EXCEPT ![q] = [@ EXCEPT !.pc = "encerrou", !.live = l]]
  /\ UNCHANGED <<snapshots, mapa, conexoes>>

-----------------------------------------------------------------------------
(* stopConnector *)

(* Mutant: the timer of the flush is left running. *)
MutParar(p, l) ==
  LET x == mapa[l]
      grava == conexoes[x].dirty /\ conexoes[x].gravando = NULL
  IN /\ conexoes' = [conexoes EXCEPT
                       ![x] = [@ EXCEPT !.gravando = IF grava THEN conexoes[x].eventos ELSE @]]
     /\ chamadas' = [chamadas EXCEPT
                       ![p] = [@ EXCEPT !.pc = IF grava THEN "flush" ELSE "final",
                                        !.live = l, !.conexao = x,
                                        !.valor = conexoes[x].eventos]]
     /\ UNCHANGED <<ativas, snapshots, mapa>>

(* Up to its first await: the entry is captured, its timer cleared, and the INSERT of *)
(* the last snapshot sent unless there is nothing new or another one is in flight.    *)
Parar(p, l) ==
  LET x == mapa[l]
      grava == conexoes[x].dirty /\ conexoes[x].gravando = NULL
  IN /\ conexoes' = [conexoes EXCEPT
                       ![x] = [@ EXCEPT !.timer = FALSE,
                                        !.gravando = IF grava THEN conexoes[x].eventos
                                                     ELSE conexoes[x].gravando]]
     /\ chamadas' = [chamadas EXCEPT
                       ![p] = [@ EXCEPT !.pc = IF grava THEN "flush" ELSE "final",
                                        !.live = l, !.conexao = x,
                                        !.valor = conexoes[x].eventos]]
     /\ UNCHANGED <<ativas, snapshots, mapa>>

(* Mutant: the row is built from the state the 'finally' has reset. *)
MutGravado(x, ok) ==
  /\ conexoes' = [conexoes EXCEPT ![x] = [@ EXCEPT !.gravando = NULL,
                                                   !.dirty = IF ok THEN FALSE ELSE @]]
  /\ snapshots' = IF ok THEN [snapshots EXCEPT ![conexoes[x].live] = conexoes'[x].gravando]
                  ELSE snapshots

(* The end of an INSERT into live_snapshots.  What arrived while it was in flight *)
(* is marked clean with the rest; a failure leaves the state dirty.               *)
Gravado(x, ok) ==
  /\ snapshots' = IF ok THEN [snapshots EXCEPT ![conexoes[x].live] = conexoes[x].gravando]
                  ELSE snapshots
  /\ conexoes' = [conexoes EXCEPT ![x] = [@ EXCEPT !.gravando = NULL,
                                                   !.dirty = ~ok /\ conexoes[x].dirty]]

PararGravou(p) ==
  LET x == chamadas[p].conexao
  IN /\ chamadas[p].pc = "flush"
     /\ \E ok \in BOOLEAN : Gravado(x, ok)
     /\ chamadas' = [chamadas EXCEPT ![p] = [@ EXCEPT !.pc = "final",
                                                      !.valor = conexoes[x].eventos]]
     /\ UNCHANGED <<ativas, mapa>>

(* final_* written with 'valor'; listeners removed, disconnect() called. *)
PararFinal(p) ==
  LET x == chamadas[p].conexao
  IN /\ chamadas[p].pc = "final"
     /\ conexoes' = [conexoes EXCEPT ![x].status = IF @ = "conectando" THEN "abandonada"
                                                   ELSE "fora"]
     /\ chamadas' = [chamadas EXCEPT ![p].pc = "desligando"]
     /\ UNCHANGED <<ativas, snapshots, mapa>>

(* The entry is deleted by live, whichever connection is there by now. *)
PararFim(p) ==
  /\ chamadas[p].pc = "desligando"
  /\ mapa' = [mapa EXCEPT ![chamadas[p].live] = NULL]
  /\ chamadas' = [chamadas EXCEPT
                    ![p] = IF p \in Sincronias
                           THEN [@ EXCEPT !.pc = "parar", !.live = NULL, !.conexao = NULL]
                           ELSE ChamadaLivre]
  /\ UNCHANGED <<ativas, snapshots, conexoes>>

(* PATCH encerrar resumes: stopConnector if the live is in the map. *)
PararAposEncerrar(q) ==
  /\ chamadas[q].pc = "encerrou"
  /\ IF mapa[chamadas[q].live] # NULL
     THEN Parar(q, chamadas[q].live)
     ELSE /\ chamadas' = [chamadas EXCEPT ![q] = ChamadaLivre]
          /\ UNCHANGED <<ativas, snapshots, mapa, conexoes>>

-----------------------------------------------------------------------------
(* syncLives *)

Consultar(p) ==
  /\ chamadas[p].pc = "livre"
  /\ chamadas' = [chamadas EXCEPT ![p] = [@ EXCEPT !.pc = "parar", !.lidas = ativas]]
  /\ UNCHANGED <<ativas, snapshots, mapa, conexoes>>

(* Mutant: the lives that left the query are not stopped. *)
MutSobrando(p) == {}

Sobrando(p) == NoMapa \ chamadas[p].lidas

(* The loop over the map visits entries added while it runs. *)
PararSobrando(p) ==
  /\ chamadas[p].pc = "parar"
  /\ \E l \in Sobrando(p) : Parar(p, l)

(* Mutant: the limit is looked at one connector late. *)
MutPodeIniciar(l) == mapa[l] = NULL /\ Cardinality(NoMapa) <= MAX_CONNECTORS

(* Mutant: the connector about to start is counted already. *)
MutLimiteBaixo(l) == mapa[l] = NULL /\ Cardinality(NoMapa) + 1 < MAX_CONNECTORS

(* The refusals before the first await of startConnector. *)
PodeIniciar(l) == mapa[l] = NULL /\ Cardinality(NoMapa) < MAX_CONNECTORS

(* The loop over the rows, whose order is the database's: it passes over those that *)
(* have a connector or find the map full, and waits for the first it can start.     *)
Percorrer(p, faltam) ==
  \/ \E l \in faltam : \E passadas \in SUBSET (faltam \ {l}) :
       /\ PodeIniciar(l)
       /\ \A m \in passadas : ~PodeIniciar(m)
       /\ chamadas' = [chamadas EXCEPT
                         ![p] = [@ EXCEPT !.pc = "produtos", !.live = l,
                                          !.faltam = faltam \ (passadas \cup {l})]]
  \/ /\ \A l \in faltam : ~PodeIniciar(l)
     /\ chamadas' = [chamadas EXCEPT ![p] = ChamadaLivre]

IniciarFaltando(p) ==
  /\ \/ /\ chamadas[p].pc = "parar" /\ Sobrando(p) = {}
        /\ Percorrer(p, chamadas[p].lidas)
     \/ chamadas[p].pc = "iniciar" /\ Percorrer(p, chamadas[p].faltam)
  /\ UNCHANGED <<ativas, snapshots, mapa, conexoes>>

(* Ids are recycled: one that nothing refers to, a forgotten connection's only when *)
(* all the others are taken.                                                        *)
IdLivre(x) ==
  /\ \A l \in Lives : mapa[l] # x
  /\ \A p \in Chamadores : chamadas[p].conexao # x
  /\ conexoes[x].gravando = NULL
  /\ conexoes[x].status = "fora" \/ \A y \in Conexoes : conexoes[y].status # "fora"

(* After the last await of startConnector: the entry is set without a second look. *)
Registrar(p) ==
  LET l == chamadas[p].live
  IN /\ chamadas[p].pc = "produtos"
     /\ \E x \in Conexoes :
          /\ IdLivre(x)
          /\ conexoes' = [conexoes EXCEPT ![x] = [ConexaoFora EXCEPT !.status = "conectando",
                                                                     !.live = l, !.timer = TRUE]]
          /\ mapa' = [mapa EXCEPT ![l] = x]
     /\ chamadas' = [chamadas EXCEPT ![p] = [@ EXCEPT !.pc = "iniciar", !.live = NULL]]
     /\ UNCHANGED <<ativas, snapshots>>

-----------------------------------------------------------------------------
(* The handlers of a connection. *)

Conectou(x) ==
  /\ conexoes[x].status \in {"conectando", "abandonada"}
  /\ conexoes' = [conexoes EXCEPT ![x].status = IF @ = "conectando" THEN "ligada" ELSE "fora"]
  /\ UNCHANGED <<ativas, snapshots, mapa, chamadas>>

(* connect() is rejected: again the entry is deleted by live. *)
NaoConectou(x) ==
  /\ conexoes[x].status \in {"conectando", "abandonada"}
  /\ conexoes' = [conexoes EXCEPT ![x] = [@ EXCEPT !.status = "fora", !.timer = FALSE]]
  /\ mapa' = [mapa EXCEPT ![conexoes[x].live] = NULL]
  /\ UNCHANGED <<ativas, snapshots, chamadas>>

(* like, social, chat, gift, share and roomUser *)
Receber(x) ==
  /\ conexoes[x].status = "ligada"
  /\ conexoes[x].eventos < MaxEventos
  /\ conexoes' = [conexoes EXCEPT ![x] = [@ EXCEPT !.eventos = conexoes[x].eventos + 1,
                                                   !.dirty = TRUE]]
  /\ UNCHANGED <<ativas, snapshots, mapa, chamadas>>

(* 'disconnected': the handler marks the entry as reconnecting, a field that nothing *)
(* reads, and leaves it in the map.                                                  *)
Cair(x) ==
  /\ conexoes[x].status = "ligada"
  /\ conexoes' = [conexoes EXCEPT ![x].status = "caiu"]
  /\ UNCHANGED <<ativas, snapshots, mapa, chamadas>>

StreamEnd(q, x) ==
  /\ conexoes[x].status = "ligada"
  /\ chamadas[q].pc = "livre"
  /\ mapa[conexoes[x].live] # NULL
  /\ Parar(q, conexoes[x].live)

(* The periodic flush, of the connection that is in the map. *)
Flush(x) ==
  /\ conexoes[x].timer
  /\ mapa[conexoes[x].live] = x
  /\ conexoes[x].dirty /\ conexoes[x].gravando = NULL
  /\ conexoes' = [conexoes EXCEPT ![x].gravando = conexoes[x].eventos]
  /\ UNCHANGED <<ativas, snapshots, mapa, chamadas>>

FlushGravou(x) ==
  /\ conexoes[x].gravando # NULL
  /\ \A p \in Chamadores : ~(chamadas[p].pc = "flush" /\ chamadas[p].conexao = x)
  /\ \E ok \in BOOLEAN : Gravado(x, ok)
  /\ UNCHANGED <<ativas, mapa, chamadas>>

-----------------------------------------------------------------------------
Sincronizar(p) ==
  Consultar(p) \/ PararSobrando(p) \/ IniciarFaltando(p) \/ Registrar(p)

ContinuarParada(p) ==
  PararGravou(p) \/ PararFinal(p) \/ PararFim(p)

Conexao(x) ==
  \/ Conectou(x) \/ NaoConectou(x) \/ Receber(x) \/ Cair(x)
  \/ Flush(x) \/ FlushGravou(x)
  \/ \E q \in Paradas : StreamEnd(q, x)

Next ==
  \/ \E l \in Lives : LiveEntra(l) \/ LiveSai(l)
  \/ \E q \in Paradas, l \in Lives : Encerrar(q, l)
  \/ \E q \in Paradas : PararAposEncerrar(q)
  \/ \E p \in Sincronias : Sincronizar(p)
  \/ \E p \in Chamadores : ContinuarParada(p)
  \/ \E x \in Conexoes : Conexao(x)

Spec == Init /\ [][Next]_vars

(* The cron fires every 60 seconds; queries and disconnect() settle, and so does *)
(* connect().  TikTok owes nothing else, and the calls after a start may never   *)
(* come.                                                                         *)
Fairness ==
  /\ WF_vars(Sincronizar(Cron))
  /\ \A p \in Sincronias \ {Cron} :
       WF_vars(PararSobrando(p) \/ IniciarFaltando(p) \/ Registrar(p))
  /\ \A q \in Paradas : WF_vars(PararAposEncerrar(q))
  /\ \A p \in Chamadores : WF_vars(ContinuarParada(p))
  /\ \A x \in Conexoes : WF_vars(Conectou(x) \/ NaoConectou(x)) /\ WF_vars(FlushGravou(x))

FairSpec == Spec /\ Fairness

-----------------------------------------------------------------------------
(* Properties *)

(* The calls between the look at the map and the entry they set. *)
Registrando == {p \in Sincronias : chamadas[p].pc = "produtos"}

(* The limit of startConnector is looked at before an await, the entry is set after it, *)
(* and nothing keeps the syncLives of the cron and those of lives.js after each start   *)
(* apart.  The excess is bounded all the same: one connector for each call that can     *)
(* overlap another, so that the limit is exact when the cron's call is alone.           *)
RespeitaLimite ==
  Cardinality(NoMapa) + Cardinality(Registrando)
    <= MAX_CONNECTORS + Cardinality(Sincronias) - 1

(* The metrics a stop is about to write to the live cover every snapshot its own *)
(* connection has in flight: skipping a flush that is under way loses nothing,   *)
(* unless a second stop of the same connection is in flight.                     *)
FinalCobreFlush ==
  \A p \in Chamadores :
    LET x == chamadas[p].conexao
    IN /\ chamadas[p].pc = "final" /\ conexoes[x].gravando # NULL
       /\ \A q \in Chamadores \ {p} : chamadas[q].conexao # x
       => chamadas[p].valor >= conexoes[x].gravando

(* A live that has left for good leaves the map, whatever calls were in flight. *)
SaiDoMapa ==
  \A l \in Lives : <>[](l \notin ativas) => <>[](mapa[l] = NULL)

(* A live that stays in progress is always given an entry again, whatever stops, *)
(* failed connects and late deletions took its entry away.                       *)
VoltaAoMapa ==
  \A l \in Lives : <>[](l \in ativas) => []<>(mapa[l] # NULL)
=============================================================================
