------------------------------- MODULE Entorno -------------------------------
(***************************************************************************)
(* The parts around the lives and their billing.  The modules keep no      *)
(* state in common, so a behaviour takes each of them by itself: cenario,  *)
(* chosen at the start, names the one that moves.                          *)
(***************************************************************************)
EXTENDS Funil, Naturals, Sequences

CONSTANTS
  Pedidos,                                                   \* bound: requests in flight, of every part
  Usuarios,                                                  \* Convites
  Titulares, Sessoes, Links, MaxVersao,                      \* Sessoes; its users are Titulares
  Solicitacoes, Horarios,                                    \* Reservas
  Itens,                                                     \* Trocas
  Unidades, Contas, MaxRemocoes,                             \* TikTokConta
  Regras, Inicios, Destinos, Citados, Criacoes, Edicoes, MaxEventos, MaxSeries,   \* Series
  Espectadores, MaxContagem,                                 \* Transmissao
  Categorias, Slugs, Artigos, Reordenacoes, Ordens, MaxOrdem \* Conhecimento

VARIABLES
  cenario,
  cUsuarios, cClientes, cPedidos, cAceites, cDisputados,
  sUsuarios, sSessoes, sLinks, sPedidos,
  rSolicitacoes, rPedidos,
  tGrade, tAcesso, tPedidos, tDados, tParalelo,
  kTenants, kRemovidas, kEventos, kPedidos,
  gEventos, gPedidos, gSeries,
  vNoAr, vContagem, vDirty, vGravada, vFlush, vPedidos, vOuvintes,
  bCategorias, bArtigos, bPedidos, bUltima, bMexidas

(* The bounds and the days are numbers; an interval asked for has its ends in order; the   *)
(* ids of a reorder are those of categories.                                               *)
EntornoAssumption ==
  /\ MaxVersao \in Nat \ {0} /\ MaxRemocoes \in Nat /\ MaxContagem \in Nat /\ MaxOrdem \in Nat
  /\ MaxEventos \in Nat /\ Inicios \subseteq Nat /\ Destinos \subseteq Nat /\ Citados \subseteq 1..MaxEventos
  /\ Horarios \subseteq {h \in Nat \X Nat : h[1] < h[2]}
  /\ \A ids \in Ordens : ids \in Seq(Categorias) /\ ids # <<>> /\ Len(ids) <= MaxOrdem
  /\ NULL \notin Usuarios \cup Clientes \cup Titulares \cup Sessoes \cup Solicitacoes \cup Unidades \cup Contas
  /\ NULL \notin Horarios \cup Slugs \cup [conta : Contas, numero : 0..MaxRemocoes]

ASSUME EntornoConstantes == EntornoAssumption

-----------------------------------------------------------------------------
C == INSTANCE Convites WITH
       usuarios <- cUsuarios, clientes <- cClientes, pedidos <- cPedidos, aceites <- cAceites,
       disputados <- cDisputados

S == INSTANCE Sessoes WITH
       Usuarios <- Titulares,
       usuarios <- sUsuarios, sessoes <- sSessoes, links <- sLinks, pedidos <- sPedidos

R == INSTANCE Reservas WITH solicitacoes <- rSolicitacoes, pedidos <- rPedidos

T == INSTANCE Trocas WITH
       grade <- tGrade, acesso <- tAcesso, pedidos <- tPedidos, dados <- tDados, paralelo <- tParalelo

K == INSTANCE TikTokConta WITH
       tenants <- kTenants, removidas <- kRemovidas, eventos <- kEventos, pedidos <- kPedidos

G == INSTANCE Series WITH eventos <- gEventos, pedidos <- gPedidos, series <- gSeries

V == INSTANCE Transmissao WITH
       noAr <- vNoAr, contagem <- vContagem, dirty <- vDirty, gravada <- vGravada, flush <- vFlush,
       pedidos <- vPedidos, ouvintes <- vOuvintes

B == INSTANCE Conhecimento WITH
       categorias <- bCategorias, artigos <- bArtigos, pedidos <- bPedidos, ultima <- bUltima,
       mexidas <- bMexidas

(* The recurrences asked for are such that the loop computes what is meant by them. *)
Calendario == \A inicio \in Inicios, r \in Regras : G!DiasConformes(inicio, r)

ASSUME CalendarioConforme == Calendario

convites == <<cUsuarios, cClientes, cPedidos, cAceites, cDisputados>>

sessoes == <<sUsuarios, sSessoes, sLinks, sPedidos>>

reservas == <<rSolicitacoes, rPedidos>>

trocas == <<tGrade, tAcesso, tPedidos, tDados, tParalelo>>

tiktok == <<kTenants, kRemovidas, kEventos, kPedidos>>

agenda == <<gEventos, gPedidos, gSeries>>

transmissao == <<vNoAr, vContagem, vDirty, vGravada, vFlush, vPedidos, vOuvintes>>

conhecimento == <<bCategorias, bArtigos, bPedidos, bUltima, bMexidas>>

Estado == <<cenario, vars, convites, sessoes, reservas, trocas, tiktok, agenda, transmissao, conhecimento>>

-----------------------------------------------------------------------------
Cenarios ==
  {"funil", "convites", "sessoes", "reservas", "trocas", "tiktok", "agenda", "transmissao", "conhecimento"}

InitEntorno ==
  /\ cenario \in Cenarios
  /\ Init /\ C!Init /\ S!Init /\ R!Init /\ T!Init /\ K!Init /\ G!Init /\ V!Init /\ B!Init
  /\ cenario # "funil" => ~replay   \* no initial state twice

Mover(c) ==
  /\ cenario = c
  /\ UNCHANGED cenario
  /\ c # "funil" => UNCHANGED vars
  /\ c # "convites" => UNCHANGED convites
  /\ c # "sessoes" => UNCHANGED sessoes
  /\ c # "reservas" => UNCHANGED reservas
  /\ c # "trocas" => UNCHANGED trocas
  /\ c # "tiktok" => UNCHANGED tiktok
  /\ c # "agenda" => UNCHANGED agenda
  /\ c # "transmissao" => UNCHANGED transmissao
  /\ c # "conhecimento" => UNCHANGED conhecimento

NextEntorno ==
  \/ Mover("funil") /\ Next
  \/ Mover("convites") /\ C!Next
  \/ Mover("sessoes") /\ S!Next
  \/ Mover("reservas") /\ R!Next
  \/ Mover("trocas") /\ T!Next
  \/ Mover("tiktok") /\ K!Next
  \/ Mover("agenda") /\ G!Next
  \/ Mover("transmissao") /\ V!Next
  \/ Mover("conhecimento") /\ B!Next

SpecEntorno == InitEntorno /\ [][NextEntorno]_Estado

-----------------------------------------------------------------------------
(* Every part keeps its variables within their types. *)
TiposDoEntorno ==
  /\ TypeOK /\ C!TypeOK /\ S!TypeOK /\ R!TypeOK /\ T!TypeOK
  /\ K!TypeOK /\ G!TypeOK /\ V!TypeOK /\ B!TypeOK

(* The properties of the parts, as their modules state them. *)

(* An account is accepted once, a cancellation deletes an accepted one only if it had read *)
(* it before (usuarios.js:496), and a partner is the user of its client (usuarios.js:124). *)
ConvitesEmOrdem == C!ContaAceitaFica /\ C!ParceiroTemCliente

(* A session that can be renewed is of an active user and of its version, or about to be   *)
(* revoked (auth.js:103), and one link of recovery at a time is usable (auth.js:263).      *)
SessoesEmOrdem == S!SessaoValida /\ S!LinkUnico

(* Approved requests of a cabine do not overlap but by approvals in flight together, and a *)
(* refusal does not undo an approval it could have seen (solicitacoes.js:114, 189).        *)
CabineSemConflito == R!CabineSemConflito

(* What is stored is the last set that was sent, for the units of a manager as long as no  *)
(* two replacements overlapped (regional_managers.js:127).                                 *)
UltimoConjunto == T!UltimoConjunto

(* A unit keeps the token of a removed account only while the removal is on its way, or if *)
(* it was written after the removal (tiktok.js:257).                                       *)
ContaDesligada == K!ContaDesligada

(* The k-th occurrence a recurrence inserted is on the k-th day it means unless a body     *)
(* moved it, and what a request that failed left out is the end of the series              *)
(* (agenda.js:288).                                                                        *)
SerieConforme == G!SerieConforme

(* Who watches a live is up to date or missed what was emitted between its read and its    *)
(* listener, and only who watches has a listener (routes/tiktok.js:502).                   *)
EspectadorEmDia == V!EspectadorEmDia

(* The order of the categories is the whole of the last one that committed                 *)
(* (knowledge.js:219).                                                                     *)
OrdemInteira == B!OrdemInteira
=============================================================================
