------------------------------- MODULE Convites -------------------------------
(***************************************************************************)
(* Users of a unit: their invitation with the link to a client, its        *)
(* acceptance, resend and cancellation, and the change of their status.    *)
(*                                                                         *)
(* The statements of these handlers autocommit (withTenant opens no        *)
(* transaction), except in POST /v1/usuarios/convidar and in PATCH         *)
(* /v1/tenants/:id/status.  The sessions of the users are in Sessoes; a    *)
(* PATCH of the role changes nothing that is kept here.                    *)
(***************************************************************************)
EXTENDS Naturals, FiniteSets

CONSTANTS
  Usuarios,   \* bound: ids that rows of users can take, all of one unit
  Clientes,   \* rows of clientes
  Pedidos,    \* bound: requests in flight
  NULL

VARIABLES
  usuarios,   \* row per user; para (history): the client it was invited to
  clientes,   \* clientes.user_id
  pedidos,    \* requests in flight
  aceites,    \* history: invitations accepted per user
  disputados  \* history: users that accepted while a cancellation was in flight

vars == <<usuarios, clientes, pedidos, aceites, disputados>>

UsuarioRow == [estado: {"ausente", "presente", "apagado"}, ativo: BOOLEAN, para: Clientes \cup {NULL},
               convite: {"nenhum", "valido", "expirado"},
               aceito: BOOLEAN]    \* primeiro_acesso

PedidoRow == [pc: {"livre", "convidar", "reenviar", "cancelar"}, alvo: Usuarios \cup Clientes \cup {NULL}]

TypeOK ==
  /\ usuarios \in [Usuarios -> UsuarioRow]
  /\ clientes \in [Clientes -> Usuarios \cup {NULL}]
  /\ pedidos \in [Pedidos -> PedidoRow]
  /\ aceites \in [Usuarios -> Nat]
  /\ disputados \subseteq Usuarios

Livre == [pc |-> "livre", alvo |-> NULL]

SemUsuario == [estado |-> "ausente", ativo |-> TRUE, para |-> NULL, convite |-> "nenhum", aceito |-> FALSE]

Init ==
  /\ usuarios = [u \in Usuarios |-> SemUsuario]
  /\ clientes = [c \in Clientes |-> NULL]
  /\ pedidos = [p \in Pedidos |-> Livre]
  /\ aceites = [u \in Usuarios |-> 0]
  /\ disputados = {}

-----------------------------------------------------------------------------
Presente(u) == usuarios[u].estado = "presente"

Comecar(p, pc, alvo) == pedidos[p].pc = "livre" /\ pedidos' = [pedidos EXCEPT ![p] = [pc |-> pc, alvo |-> alvo]]

Terminar(p, pc) == pedidos[p].pc = pc /\ pedidos' = [pedidos EXCEPT ![p] = Livre]

(* With the mailer off, or a password given by hand, there is no invitation to accept. *)
Novo(c) ==
  {[SemUsuario EXCEPT !.estado = "presente", !.para = c, !.convite = i] : i \in {"nenhum", "valido"}}

(* The role and, if it is cliente_parceiro, the client are checked first. *)
PedirConvite(p, c) ==
  /\ clientes[c] = NULL
  /\ Comecar(p, "convidar", c)
  /\ UNCHANGED <<usuarios, clientes, aceites, disputados>>

(* Mutant: the UPDATE of the client does not ask for user_id IS NULL. *)
MutAindaLivre(c) == TRUE

AindaLivre(c) == clientes[c] = NULL

(* The client went to another request: ROLLBACK, 409. *)
Convidar(p, u) ==
  LET c == pedidos[p].alvo IN
  /\ Terminar(p, "convidar")
  /\ usuarios[u].estado = "ausente"
  /\ IF AindaLivre(c)
     THEN /\ \E row \in Novo(c) : usuarios' = [usuarios EXCEPT ![u] = row]
          /\ clientes' = [clientes EXCEPT ![c] = u]
     ELSE UNCHANGED <<usuarios, clientes>>
  /\ UNCHANGED <<aceites, disputados>>

(* Other roles, and the owner that POST /v1/tenants creates together with the unit. *)
CriarConta(u) ==
  /\ usuarios[u].estado = "ausente"
  /\ \E row \in Novo(NULL) : usuarios' = [usuarios EXCEPT ![u] = row]
  /\ UNCHANGED <<clientes, pedidos, aceites, disputados>>

-----------------------------------------------------------------------------
(* Mutant: the acceptance does not look at primeiro_acesso. *)
MutPodeAceitar(u) == Presente(u) /\ usuarios[u].ativo /\ usuarios[u].convite = "valido"

PodeAceitar(u) == Presente(u) /\ usuarios[u].ativo /\ usuarios[u].convite = "valido" /\ ~usuarios[u].aceito

ACancelar(u) == \E p \in Pedidos : pedidos[p] = [pc |-> "cancelar", alvo |-> u]

(* One UPDATE ... RETURNING. *)
Aceitar(u) ==
  /\ PodeAceitar(u)
  /\ usuarios' = [usuarios EXCEPT ![u].convite = "nenhum", ![u].aceito = TRUE]
  /\ aceites' = [aceites EXCEPT ![u] = @ + 1]
  /\ disputados' = IF ACancelar(u) THEN disputados \cup {u} ELSE disputados
  /\ UNCHANGED <<clientes, pedidos>>

Expirar(u) ==
  /\ usuarios[u].convite = "valido"
  /\ usuarios' = [usuarios EXCEPT ![u].convite = "expirado"]
  /\ UNCHANGED <<clientes, pedidos, aceites, disputados>>

(* Also what a bulk resend asks of each id before it goes on to the next. *)
PodeReenviar(u) == Presente(u) /\ ~usuarios[u].aceito

LerReenvio(p, u) ==
  /\ PodeReenviar(u)
  /\ Comecar(p, "reenviar", u)
  /\ UNCHANGED <<usuarios, clientes, aceites, disputados>>

(* By id: the user may have accepted, or be gone, in the meantime.                       *)
Reenviar(p) ==
  LET u == pedidos[p].alvo IN
  /\ Terminar(p, "reenviar")
  /\ usuarios' = IF Presente(u) THEN [usuarios EXCEPT ![u].convite = "valido"] ELSE usuarios
  /\ UNCHANGED <<clientes, aceites, disputados>>

(* Mutant: the cancellation does not look at primeiro_acesso. *)
MutPodeCancelar(u) == Presente(u)

PodeCancelar(u) == Presente(u) /\ ~usuarios[u].aceito

LerCancelamento(p, u) ==
  /\ PodeCancelar(u)
  /\ Comecar(p, "cancelar", u)
  /\ UNCHANGED <<usuarios, clientes, aceites, disputados>>

(* DELETE by id; ON DELETE SET NULL frees the client. *)
CancelarConvite(p) ==
  LET u == pedidos[p].alvo IN
  /\ Terminar(p, "cancelar")
  /\ usuarios' = [usuarios EXCEPT ![u].estado = "apagado"]
  /\ clientes' = [c \in Clientes |-> IF clientes[c] = u THEN NULL ELSE clientes[c]]
  /\ UNCHANGED <<aceites, disputados>>

-----------------------------------------------------------------------------
(* PATCH and DELETE /v1/usuarios/:id. *)
MudarStatus(u, ativo) ==
  /\ Presente(u) /\ usuarios[u].ativo # ativo
  /\ usuarios' = [usuarios EXCEPT ![u].ativo = ativo]
  /\ UNCHANGED <<clientes, pedidos, aceites, disputados>>

(* PATCH /v1/tenants/:id/status: everybody comes back with the unit, users that had been *)
(* deactivated one by one included.                                                      *)
MudarUnidade(ativo) ==
  /\ \E u \in Usuarios : Presente(u) /\ usuarios[u].ativo # ativo
  /\ usuarios' = [u \in Usuarios |-> IF Presente(u) THEN [usuarios[u] EXCEPT !.ativo = ativo] ELSE usuarios[u]]
  /\ UNCHANGED <<clientes, pedidos, aceites, disputados>>

Next ==
  \/ \E p \in Pedidos :
       \/ \E c \in Clientes : PedirConvite(p, c)
       \/ \E u \in Usuarios : Convidar(p, u) \/ LerReenvio(p, u) \/ LerCancelamento(p, u)
       \/ Reenviar(p) \/ CancelarConvite(p)
  \/ \E u \in Usuarios : CriarConta(u) \/ Aceitar(u) \/ Expirar(u) \/ (\E ativo \in BOOLEAN : MudarStatus(u, ativo))
  \/ \E ativo \in BOOLEAN : MudarUnidade(ativo)

Spec == Init /\ [][Next]_vars

-----------------------------------------------------------------------------
(* An account is accepted once, whatever resends are in flight, and an account that was   *)
(* accepted is not deleted by the cancellation of its invitation, unless that had read    *)
(* the invitation as pending before the acceptance (usuarios.js:496, 510).                *)
ContaAceitaFica ==
  \A u \in Usuarios :
    /\ aceites[u] <= 1
    /\ usuarios[u].estado = "apagado" /\ usuarios[u].aceito => u \in disputados

(* A partner that was invited for a client is the user of that client as long as it      *)
(* exists: invitations for one client, cancellations and a client that changes hands in  *)
(* between never leave it with an account that sees nothing.                             *)
ParceiroTemCliente ==
  \A u \in Usuarios : Presente(u) /\ usuarios[u].para # NULL => clientes[usuarios[u].para] = u
=============================================================================
