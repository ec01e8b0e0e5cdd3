-------------------------------- MODULE Sessoes --------------------------------
(***************************************************************************)
(* The sessions of a user: login, renewal and end, the version that makes  *)
(* the tokens of a user obsolete, the recovery of the password, and the    *)
(* deactivation of users.                                                  *)
(*                                                                         *)
(* Every statement autocommits but those of PATCH /v1/tenants/:id/status.  *)
(* A session stands for its refresh token; the access token that goes with *)
(* it carries the version the request read, and is compared on every use.  *)
(***************************************************************************)
EXTENDS Naturals, FiniteSets

CONSTANTS
  Usuarios,   \* rows of users, all of one unit, that can log in
  Sessoes,    \* bound: ids that rows of refresh_tokens can take
  Links,      \* bound: ids that rows of password_reset_tokens can take
  Pedidos,    \* bound: requests in flight
  MaxVersao,  \* bound of token_version
  NULL

VARIABLES
  usuarios,   \* row per user
  sessoes,    \* row per session; tardia is history, see Atrasados
  links,      \* links of recovery; paralelo is history
  pedidos     \* requests in flight; tardio is history

vars == <<usuarios, sessoes, links, pedidos>>

Versoes == 1..MaxVersao

UsuarioRow == [ativo: BOOLEAN, versao: Versoes]

SessaoRow == [dono: Usuarios \cup {NULL}, valida: BOOLEAN, versao: Versoes, tardia: BOOLEAN]

LinkRow == [dono: Usuarios \cup {NULL}, usado: BOOLEAN, paralelo: BOOLEAN]

PedidoRow == [pc: {"livre", "emitir", "girar", "revogar", "desativar", "invalidar", "gravar", "redefinir"},
              usuario: Usuarios \cup {NULL}, sessao: Sessoes \cup {NULL}, versao: Versoes, tardio: BOOLEAN]

TypeOK ==
  /\ usuarios \in [Usuarios -> UsuarioRow]
  /\ sessoes \in [Sessoes -> SessaoRow]
  /\ links \in [Links -> LinkRow]
  /\ pedidos \in [Pedidos -> PedidoRow]

Livre == [pc |-> "livre", usuario |-> NULL, sessao |-> NULL, versao |-> 1, tardio |-> FALSE]

Init ==
  /\ usuarios = [u \in Usuarios |-> [ativo |-> TRUE, versao |-> 1]]
  /\ sessoes = [s \in Sessoes |-> [dono |-> NULL, valida |-> FALSE, versao |-> 1, tardia |-> FALSE]]
  /\ links = [l \in Links |-> [dono |-> NULL, usado |-> FALSE, paralelo |-> FALSE]]
  /\ pedidos = [p \in Pedidos |-> Livre]

-----------------------------------------------------------------------------
Comecar(p, pc, u) ==
  /\ pedidos[p].pc = "livre"
  /\ pedidos' = [pedidos EXCEPT ![p] = [Livre EXCEPT !.pc = pc, !.usuario = u]]

Seguir(p, pc, proximo) == pedidos[p].pc = pc /\ pedidos' = [pedidos EXCEPT ![p].pc = proximo]

Terminar(p, pc) == pedidos[p].pc = pc /\ pedidos' = [pedidos EXCEPT ![p] = Livre]

EmCurso(u, pc) == {p \in Pedidos : pedidos[p].usuario = u /\ pedidos[p].pc = pc}

(* The requests about to open a session of these users are late for what ends their      *)
(* sessions now.                                                                         *)
Atrasados(quem) ==
  [p \in Pedidos |->
     IF pedidos[p].usuario \in quem /\ pedidos[p].pc \in {"girar", "emitir"}
     THEN [pedidos[p] EXCEPT !.tardio = TRUE] ELSE pedidos[p]]

(* UPDATE refresh_tokens SET revogado = true, or the DELETE of the rows. *)
Revogadas(quem) ==
  [s \in Sessoes |-> IF sessoes[s].dono \in quem THEN [sessoes[s] EXCEPT !.valida = FALSE] ELSE sessoes[s]]

(* What every request with an access token of the session is asked (_verifyTokenVersion). *)
VersaoAtual(s) == usuarios[sessoes[s].dono].versao <= sessoes[s].versao

-----------------------------------------------------------------------------
(* Login, and the acceptance of an invitation, read the user, sign, and store the session. *)
Entrar(p, u) ==
  /\ usuarios[u].ativo
  /\ pedidos[p].pc = "livre"
  /\ pedidos' = [pedidos EXCEPT ![p] = [Livre EXCEPT !.pc = "emitir", !.usuario = u, !.versao = usuarios[u].versao]]
  /\ UNCHANGED <<usuarios, sessoes, links>>

Emitir(p, s) ==
  LET d == pedidos[p] IN
  /\ Terminar(p, "emitir")
  /\ sessoes[s].dono = NULL
  /\ sessoes' = [sessoes EXCEPT ![s] = [dono |-> d.usuario, valida |-> TRUE, versao |-> d.versao, tardia |-> d.tardio]]
  /\ UNCHANGED <<usuarios, links>>

(* Mutant: a renewal does not look at the user. *)
MutPodeRenovar(s) == sessoes[s].valida

PodeRenovar(s) == sessoes[s].valida /\ usuarios[sessoes[s].dono].ativo

LerRenovacao(p, s) ==
  LET u == sessoes[s].dono IN
  /\ PodeRenovar(s)
  /\ pedidos[p].pc = "livre"
  /\ pedidos' = [pedidos EXCEPT ![p] = [Livre EXCEPT !.pc = "girar", !.usuario = u, !.sessao = s, !.versao = usuarios[u].versao]]
  /\ UNCHANGED <<usuarios, sessoes, links>>

(* By id: two renewals of one session may both get here. *)
Girar(p) ==
  /\ Seguir(p, "girar", "emitir")
  /\ sessoes' = [sessoes EXCEPT ![pedidos[p].sessao].valida = FALSE]
  /\ UNCHANGED <<usuarios, links>>

Sair(u) ==
  /\ sessoes' = Revogadas({u})
  /\ pedidos' = Atrasados({u})
  /\ UNCHANGED <<usuarios, links>>

(* A new password, by the user or by a manager: the version stays. *)
TrocarSenha(p, u) ==
  /\ Comecar(p, "revogar", u)
  /\ UNCHANGED <<usuarios, sessoes, links>>

ForcarSaida(p, u) ==
  /\ usuarios[u].versao < MaxVersao
  /\ Comecar(p, "revogar", u)
  /\ usuarios' = [usuarios EXCEPT ![u].versao = @ + 1]
  /\ UNCHANGED <<sessoes, links>>

(* The last statement of the two above and of Redefinir. *)
Revogar(p) ==
  LET u == pedidos[p].usuario IN
  /\ pedidos[p].pc = "revogar"
  /\ pedidos' = [Atrasados({u}) EXCEPT ![p] = Livre]
  /\ sessoes' = Revogadas({u})
  /\ UNCHANGED <<usuarios, links>>

-----------------------------------------------------------------------------
(* Recovery of the password. *)

(* At most three links within the hour: the size of Links is below it. *)
PedirLink(p, u) ==
  /\ usuarios[u].ativo
  /\ Comecar(p, "invalidar", u)
  /\ UNCHANGED <<usuarios, sessoes, links>>

Invalidados(u) ==
  [l \in Links |-> IF links[l].dono = u THEN [links[l] EXCEPT !.usado = TRUE] ELSE links[l]]

InvalidarLinks(p) ==
  /\ Seguir(p, "invalidar", "gravar")
  /\ links' = Invalidados(pedidos[p].usuario)
  /\ UNCHANGED <<usuarios, sessoes>>

GravarLink(p, l) ==
  LET u == pedidos[p].usuario IN
  /\ Terminar(p, "gravar")
  /\ links[l].dono = NULL
  /\ links' = [links EXCEPT ![l] = [dono |-> u, usado |-> FALSE, paralelo |-> EmCurso(u, "gravar") # {p}]]
  /\ UNCHANGED <<usuarios, sessoes>>

(* UPDATE ... RETURNING: a link is used once. *)
UsarLink(p, l) ==
  /\ links[l].dono # NULL /\ ~links[l].usado
  /\ Comecar(p, "redefinir", links[l].dono)
  /\ links' = [links EXCEPT ![l].usado = TRUE]
  /\ UNCHANGED <<usuarios, sessoes>>

Redefinir(p) ==
  LET u == pedidos[p].usuario IN
  /\ Seguir(p, "redefinir", "revogar")
  /\ IF usuarios[u].ativo
     THEN usuarios[u].versao < MaxVersao /\ usuarios' = [usuarios EXCEPT ![u].versao = @ + 1]
     ELSE UNCHANGED usuarios
  /\ UNCHANGED <<sessoes, links>>

-----------------------------------------------------------------------------
(* DELETE of a user and PATCH ativo = false: the sessions first, the user after. *)
Desativar(p, u) ==
  /\ pedidos[p].pc = "livre"
  /\ pedidos' = [Atrasados({u}) EXCEPT ![p] = [Livre EXCEPT !.pc = "desativar", !.usuario = u]]
  /\ sessoes' = Revogadas({u})
  /\ UNCHANGED <<usuarios, links>>

(* Sessions opened between the two statements are late as well. *)
ConcluirDesativacao(p) ==
  LET u == pedidos[p].usuario IN
  /\ pedidos[p].pc = "desativar"
  /\ pedidos' = [Atrasados({u}) EXCEPT ![p] = Livre]
  /\ usuarios' = [usuarios EXCEPT ![u].ativo = FALSE]
  /\ sessoes' = [s \in Sessoes |->
       IF sessoes[s].dono = u THEN [sessoes[s] EXCEPT !.tardia = sessoes[s].valida] ELSE sessoes[s]]
  /\ UNCHANGED links

Reativar(u) ==
  /\ ~usuarios[u].ativo
  /\ usuarios' = [usuarios EXCEPT ![u].ativo = TRUE]
  /\ UNCHANGED <<sessoes, links, pedidos>>

(* One transaction for the unit and all its users. *)
MudarUnidade(ativo) ==
  /\ \E u \in Usuarios : usuarios[u].ativo # ativo
  /\ usuarios' = [u \in Usuarios |-> [usuarios[u] EXCEPT !.ativo = ativo]]
  /\ IF ativo THEN UNCHANGED <<sessoes, pedidos>> ELSE sessoes' = Revogadas(Usuarios) /\ pedidos' = Atrasados(Usuarios)
  /\ UNCHANGED links

Next ==
  \/ \E p \in Pedidos :
       \/ \E u \in Usuarios :
            Entrar(p, u) \/ TrocarSenha(p, u) \/ ForcarSaida(p, u) \/ PedirLink(p, u) \/ Desativar(p, u)
       \/ \E s \in Sessoes : Emitir(p, s) \/ LerRenovacao(p, s)
       \/ \E l \in Links : GravarLink(p, l) \/ UsarLink(p, l)
       \/ Girar(p) \/ Revogar(p) \/ InvalidarLinks(p) \/ Redefinir(p) \/ ConcluirDesativacao(p)
  \/ \E u \in Usuarios : Sair(u) \/ Reativar(u)
  \/ \E ativo \in BOOLEAN : MudarUnidade(ativo)

Spec == Init /\ [][Next]_vars

-----------------------------------------------------------------------------
(* A session that can be renewed belongs to an active user and to the current version of  *)
(* the account, but for sessions that were being opened when the others were ended, and   *)
(* for the time between a new version and the revocation that follows it.                 *)
SessaoValida ==
  \A s \in Sessoes :
    LET u == sessoes[s].dono IN
    sessoes[s].valida /\ ~sessoes[s].tardia =>
      /\ usuarios[u].ativo
      /\ VersaoAtual(s) \/ EmCurso(u, "revogar") # {}

(* A user has one usable link of recovery, the last one asked for, unless two requests    *)
(* had both invalidated the earlier links before either stored its own.                   *)
LinkUnico ==
  \A l, m \in Links :
    links[l].dono # NULL /\ links[l].dono = links[m].dono /\ ~links[l].usado /\ ~links[m].usado /\ l # m =>
      links[l].paralelo \/ links[m].paralelo
=============================================================================
