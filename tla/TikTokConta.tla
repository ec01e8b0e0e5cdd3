------------------------------ MODULE TikTokConta ------------------------------
(***************************************************************************)
(* The TikTok account of each unit: connected through OAuth, renewed by    *)
(* the nightly job and by the poll, disconnected by the webhook that says  *)
(* the authorization was removed at TikTok.                                *)
(*                                                                         *)
(* A token stands for the pair of tokens of one answer of TikTok; their    *)
(* encryption at rest gives back what was stored and is left out.  TikTok  *)
(* is external: an account counts the removals of its authorization, and a *)
(* token is good as long as none came after it.                            *)
(***************************************************************************)
EXTENDS Naturals, FiniteSets

CONSTANTS
  Unidades,    \* rows of tenants
  Contas,      \* accounts of TikTok
  MaxRemocoes, \* bound: removals per account
  Pedidos,     \* bound: callbacks, renewals and webhook deliveries in flight
  NULL

VARIABLES
  tenants,     \* row per unit
  removidas,   \* at TikTok: removals of each account's authorization
  eventos,     \* authorization.removed not delivered yet
  pedidos      \* requests in flight

vars == <<tenants, removidas, eventos, pedidos>>

Token == [conta: Contas, numero: 0..MaxRemocoes]

(* tardio is history: the token was written by a request that a removal or another writer *)
(* of the unit had overtaken, or its removal was lost.                                    *)
TenantRow == [token: Token \cup {NULL}, expira: BOOLEAN,   \* within seven days, or it has
              conta: Contas \cup {NULL}, tardio: BOOLEAN]  \* tiktok_user_id

PedidoRow == [pc: {"livre", "callback", "renovar", "gravar", "limpar"},
              unidade: Unidades \cup {NULL}, token: Token \cup {NULL}, tardio: BOOLEAN]

TypeOK ==
  /\ tenants \in [Unidades -> TenantRow]
  /\ removidas \in [Contas -> 0..MaxRemocoes]
  /\ eventos \subseteq Contas \X (1..MaxRemocoes)
  /\ pedidos \in [Pedidos -> PedidoRow]

Livre == [pc |-> "livre", unidade |-> NULL, token |-> NULL, tardio |-> FALSE]

Init ==
  /\ tenants = [t \in Unidades |-> [token |-> NULL, expira |-> FALSE, conta |-> NULL, tardio |-> FALSE]]
  /\ removidas = [a \in Contas |-> 0]
  /\ eventos = {}
  /\ pedidos = [p \in Pedidos |-> Livre]

-----------------------------------------------------------------------------
TokenNovo(a) == [conta |-> a, numero |-> removidas[a]]

Retirado(k) == k.numero < removidas[k.conta]

Comecar(p, pc, t, k, tardio) ==
  /\ pedidos[p].pc = "livre"
  /\ pedidos' = [pedidos EXCEPT ![p] = [pc |-> pc, unidade |-> t, token |-> k, tardio |-> tardio]]

(* p ends, and the renewals of its unit are overtaken by what it writes. *)
TerminarEscrita(p) ==
  pedidos' = [q \in Pedidos |->
    IF q = p THEN Livre
    ELSE IF pedidos[q].unidade = pedidos[p].unidade /\ pedidos[q].pc \in {"renovar", "gravar"}
         THEN [pedidos[q] EXCEPT !.tardio = TRUE]
         ELSE pedidos[q]]

(* At TikTok. *)
Remover(a) ==
  /\ removidas[a] < MaxRemocoes
  /\ removidas' = [removidas EXCEPT ![a] = @ + 1]
  /\ eventos' = eventos \cup {<<a, removidas[a] + 1>>}
  /\ UNCHANGED <<tenants, pedidos>>

-----------------------------------------------------------------------------
(* GET /v1/tiktok/callback: the unit comes from the signed state, the code is exchanged, *)
(* the answer stored.                                                                    *)

TrocarCodigo(p, t, a) ==
  /\ Comecar(p, "callback", t, TokenNovo(a), FALSE)
  /\ UNCHANGED <<tenants, removidas, eventos>>

(* Mutant: the account is not stored with the tokens. *)
MutContaGravada(p) == tenants[pedidos[p].unidade].conta

ContaGravada(p) == pedidos[p].token.conta

GravarCallback(p) ==
  /\ pedidos[p].pc = "callback"
  /\ tenants' = [tenants EXCEPT ![pedidos[p].unidade] =
       [token |-> pedidos[p].token, expira |-> FALSE, conta |-> ContaGravada(p), tardio |-> pedidos[p].tardio]]
  /\ TerminarEscrita(p)
  /\ UNCHANGED <<removidas, eventos>>

(* The token approaches its end, which the nightly job looks for and the poll meets. *)
Envelhecer(t) ==
  /\ tenants[t].token # NULL /\ ~tenants[t].expira
  /\ tenants' = [tenants EXCEPT ![t].expira = TRUE]
  /\ UNCHANGED <<removidas, eventos, pedidos>>

(* The job and the poll read the tokens of all units before they renew one by one; the   *)
(* poll renews on any 401, that of a withdrawn token included.                           *)
LerParaRenovar(p, t) ==
  LET r == tenants[t] IN
  /\ r.token # NULL
  /\ r.expira \/ Retirado(r.token)
  /\ Comecar(p, "renovar", t, r.token, r.tardio)
  /\ UNCHANGED <<tenants, removidas, eventos>>

Renovar(p) ==
  /\ pedidos[p].pc = "renovar"
  /\ ~Retirado(pedidos[p].token)
  /\ pedidos' = [pedidos EXCEPT ![p].pc = "gravar"]
  /\ UNCHANGED <<tenants, removidas, eventos>>

(* By id, whatever the row has become; the account is left as it is. *)
GravarRenovacao(p) ==
  LET t == pedidos[p].unidade IN
  /\ pedidos[p].pc = "gravar"
  /\ tenants' = [tenants EXCEPT ![t].token = pedidos[p].token, ![t].expira = FALSE, ![t].tardio = pedidos[p].tardio]
  /\ TerminarEscrita(p)
  /\ UNCHANGED <<removidas, eventos>>

(* TikTok refuses, no key to encrypt with, no database: logged, nothing stored. *)
Desistir(p) ==
  /\ pedidos[p].pc \in {"callback", "renovar", "gravar"}
  /\ pedidos' = [pedidos EXCEPT ![p] = Livre]
  /\ UNCHANGED <<tenants, removidas, eventos>>

-----------------------------------------------------------------------------
(* POST /v1/tiktok/webhook: always answered 200, whatever fails. *)

DaConta(a) == {t \in Unidades : tenants[t].conta = a}

(* The removal is lost on these units, and on the tokens that have not been stored yet. *)
Esquecer(unidades) ==
  tenants' = [t \in Unidades |-> IF t \in unidades THEN [tenants[t] EXCEPT !.tardio = TRUE] ELSE tenants[t]]

Ultrapassados(a, exceto) ==
  [p \in Pedidos |->
    IF p \notin exceto /\ pedidos[p].token # NULL /\ pedidos[p].token.conta = a
    THEN [pedidos[p] EXCEPT !.tardio = TRUE] ELSE pedidos[p]]

(* SELECT ... LIMIT 1: an error, no unit, or one of the units of the account. *)
ReceberRemocao(p, e) ==
  LET a == e[1] IN
  /\ e \in eventos
  /\ eventos' = eventos \ {e}
  /\ \/ Esquecer(DaConta(a)) /\ pedidos' = Ultrapassados(a, {})
     \/ /\ pedidos[p].pc = "livre"
        /\ \E t \in DaConta(a) :
             /\ Esquecer(DaConta(a) \ {t})
             /\ pedidos' = [Ultrapassados(a, {p}) EXCEPT ![p] = [Livre EXCEPT !.pc = "limpar", !.unidade = t]]
  /\ UNCHANGED removidas

(* The account stays. *)
LimparTokens(p) ==
  /\ pedidos[p].pc = "limpar"
  /\ tenants' = [tenants EXCEPT ![pedidos[p].unidade] =
       [token |-> NULL, expira |-> FALSE, conta |-> @.conta, tardio |-> FALSE]]
  /\ TerminarEscrita(p)
  /\ UNCHANGED <<removidas, eventos>>

FalharRemocao(p) ==
  /\ pedidos[p].pc = "limpar"
  /\ Esquecer({pedidos[p].unidade})
  /\ pedidos' = [pedidos EXCEPT ![p] = Livre]
  /\ UNCHANGED <<removidas, eventos>>

-----------------------------------------------------------------------------
Next ==
  \/ \E p \in Pedidos :
       \/ \E t \in Unidades : LerParaRenovar(p, t) \/ (\E a \in Contas : TrocarCodigo(p, t, a))
       \/ \E e \in eventos : ReceberRemocao(p, e)
       \/ GravarCallback(p) \/ Renovar(p) \/ GravarRenovacao(p) \/ Desistir(p)
       \/ LimparTokens(p) \/ FalharRemocao(p)
  \/ \E t \in Unidades : Envelhecer(t)
  \/ \E a \in Contas : Remover(a)

Spec == Init /\ [][Next]_vars

-----------------------------------------------------------------------------
(* A unit does not go on with the token of an account whose authorization was removed: it *)
(* has lost it, or the event is on its way, unless the event failed (tiktok.js:267), went *)
(* to another unit of the same account (tiktok.js:244), or a callback or a renewal that   *)
(* held a token from before stored it afterwards (services/tiktok.js:118).                *)
ContaDesligada ==
  \A t \in Unidades :
    LET k == tenants[t].token IN
    k # NULL /\ Retirado(k) /\ ~tenants[t].tardio =>
      \/ \E n \in 1..MaxRemocoes : n > k.numero /\ <<k.conta, n>> \in eventos
      \/ \E p \in Pedidos : pedidos[p].pc = "limpar" /\ pedidos[p].unidade = t
=============================================================================
