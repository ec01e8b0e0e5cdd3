------------------------------ MODULE Transmissao ------------------------------
(***************************************************************************)
(* The live toolkit of a running live: a manager's browser keeps a         *)
(* response open, and what the connection of the live writes to            *)
(* live_snapshots is sent to it through a listener of the emitter.         *)
(*                                                                         *)
(* One live, one connection.  The handlers run in one thread: a step goes  *)
(* from one resumption of an await to the next, and what the emitter calls *)
(* it calls at once.  The counters of the live are one number that grows.  *)
(***************************************************************************)
EXTENDS Naturals

CONSTANTS
  Espectadores,  \* bound: requests for the stream
  MaxContagem    \* bound of the counters

VARIABLES
  noAr,          \* the live is in progress
  contagem,      \* the counters in memory
  dirty,         \* counted since the last INSERT was answered
  gravada,       \* those of the last row of live_snapshots
  flush,         \* the flush: at rest, its INSERT in flight or answered, with what it carries
  pedidos,       \* row per request
  ouvintes       \* requests whose listener and heartbeat are registered

vars == <<noAr, contagem, dirty, gravada, flush, pedidos, ouvintes>>

PedidoRow == [pc: {"fora", "consultando", "lendo", "lido", "aberto"},
              presente: BOOLEAN,      \* the browser is there
              lida: 0..MaxContagem,   \* what the handler read
              vista: 0..MaxContagem,  \* the last counters the browser got
              avisado: BOOLEAN,       \* the handler waits for 'close', and it has not come before
              perdeu: BOOLEAN]        \* history: a flush ended between the read and the listener

TypeOK ==
  /\ noAr \in BOOLEAN /\ dirty \in BOOLEAN
  /\ contagem \in 0..MaxContagem /\ gravada \in 0..MaxContagem
  /\ flush \in [pc: {"parado", "gravando", "gravado"}, valor: 0..MaxContagem]
  /\ pedidos \in [Espectadores -> PedidoRow]
  /\ ouvintes \subseteq Espectadores

Fora == [pc |-> "fora", presente |-> FALSE, lida |-> 0, vista |-> 0, avisado |-> FALSE, perdeu |-> FALSE]

FlushParado == [pc |-> "parado", valor |-> 0]

Init ==
  /\ noAr = TRUE /\ dirty = FALSE
  /\ contagem = 0 /\ gravada = 0
  /\ flush = FlushParado
  /\ pedidos = [e \in Espectadores |-> Fora]
  /\ ouvintes = {}

-----------------------------------------------------------------------------
(* The connection of the live. *)

Receber ==
  /\ contagem < MaxContagem
  /\ contagem' = contagem + 1 /\ dirty' = TRUE
  /\ UNCHANGED <<noAr, gravada, flush, pedidos, ouvintes>>

(* Timer or stop: dirty, and no other flush under way. *)
Flush ==
  /\ flush = FlushParado
  /\ dirty
  /\ flush' = [pc |-> "gravando", valor |-> contagem]
  /\ UNCHANGED <<noAr, contagem, dirty, gravada, pedidos, ouvintes>>

Gravar(ok) ==
  /\ flush.pc = "gravando"
  /\ IF ok THEN gravada' = flush.valor /\ flush' = [flush EXCEPT !.pc = "gravado"]
     ELSE flush' = FlushParado /\ UNCHANGED gravada
  /\ UNCHANGED <<noAr, contagem, dirty, pedidos, ouvintes>>

(* The answer of the INSERT: what was counted meanwhile is marked clean with it.  The      *)
(* counters of now are emitted; nothing is written to a closed response.                   *)
Emitir ==
  /\ flush.pc = "gravado"
  /\ flush' = FlushParado /\ dirty' = FALSE
  /\ pedidos' = [e \in Espectadores |->
       CASE e \in ouvintes /\ pedidos[e].presente -> [pedidos[e] EXCEPT !.vista = contagem, !.perdeu = FALSE]
         [] pedidos[e].pc = "lido" -> [pedidos[e] EXCEPT !.perdeu = TRUE]
         [] OTHER -> pedidos[e]]
  /\ UNCHANGED <<noAr, contagem, gravada, ouvintes>>

(* The live ends: the responses stay open, and events come until its connection is stopped. *)
Encerrar ==
  /\ noAr
  /\ noAr' = FALSE
  /\ UNCHANGED <<contagem, dirty, gravada, flush, pedidos, ouvintes>>

-----------------------------------------------------------------------------
(* GET /v1/lives/:liveId/stream; /events is the same without the snapshot. *)

Pedir(e) ==
  /\ pedidos[e] = Fora
  /\ pedidos' = [pedidos EXCEPT ![e].pc = "consultando", ![e].presente = TRUE]
  /\ UNCHANGED <<noAr, contagem, dirty, gravada, flush, ouvintes>>

(* 404 if the live is not on the air. *)
Consultar(e) ==
  /\ pedidos[e].pc = "consultando"
  /\ pedidos' = [pedidos EXCEPT ![e] = IF noAr THEN [@ EXCEPT !.pc = "lendo"] ELSE Fora]
  /\ UNCHANGED <<noAr, contagem, dirty, gravada, flush, ouvintes>>

LerSnapshot(e) ==
  /\ pedidos[e].pc = "lendo"
  /\ pedidos' = [pedidos EXCEPT ![e].pc = "lido", ![e].lida = gravada]
  /\ UNCHANGED <<noAr, contagem, dirty, gravada, flush, ouvintes>>

(* The snapshot that was read is sent, the listener and the heartbeat are registered, and *)
(* the handler waits for the end of the connection, which may have come already.          *)
Abrir(e) ==
  /\ pedidos[e].pc = "lido"
  /\ pedidos' = [pedidos EXCEPT ![e].pc = "aberto", ![e].vista = pedidos[e].lida,
                                ![e].avisado = pedidos[e].presente]
  /\ ouvintes' = ouvintes \cup {e}
  /\ UNCHANGED <<noAr, contagem, dirty, gravada, flush>>

(* The browser leaves, at any moment. *)
Sair(e) ==
  /\ pedidos[e].presente
  /\ pedidos' = [pedidos EXCEPT ![e].presente = FALSE]
  /\ UNCHANGED <<noAr, contagem, dirty, gravada, flush, ouvintes>>

(* Mutant: the listeners of the live are removed, not this one. *)
MutSemOuvinte(e) == {}

(* emitter.off(eventName, handler) *)
SemOuvinte(e) == ouvintes \ {e}

Limpar(e) ==
  /\ pedidos[e].pc = "aberto" /\ pedidos[e].avisado /\ ~pedidos[e].presente
  /\ ouvintes' = SemOuvinte(e)
  /\ pedidos' = [pedidos EXCEPT ![e] = Fora]
  /\ UNCHANGED <<noAr, contagem, dirty, gravada, flush>>

Next ==
  \/ Receber \/ Flush \/ Emitir \/ Encerrar \/ (\E ok \in BOOLEAN : Gravar(ok))
  \/ \E e \in Espectadores : Pedir(e) \/ Consultar(e) \/ LerSnapshot(e) \/ Abrir(e) \/ Sair(e) \/ Limpar(e)

Spec == Init /\ [][Next]_vars

-----------------------------------------------------------------------------
(* Who watches a live has every snapshot that was stored, or is about to get it, whoever  *)
(* else comes and goes, unless a flush ended after the request read and before it         *)
(* listened, and then until the next one; and only who watches has a listener, unless the *)
(* browser had left before the handler waited for its end (tiktok.js:426, 502).           *)
EspectadorEmDia ==
  \A e \in Espectadores :
    /\ pedidos[e].pc = "aberto" /\ pedidos[e].presente =>
         /\ e \in ouvintes
         /\ pedidos[e].vista >= gravada \/ flush.pc = "gravado" \/ pedidos[e].perdeu
    /\ e \in ouvintes => pedidos[e].pc = "aberto" /\ (pedidos[e].avisado \/ ~pedidos[e].presente)
=============================================================================
