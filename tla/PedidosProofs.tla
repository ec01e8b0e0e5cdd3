---------------------------- MODULE PedidosProofs ----------------------------
(***************************************************************************)
(* Four parts of Entorno whose requests run side by side: invitations,     *)
(* sessions, requests for a cabine and replaced sets, for every number of  *)
(* requests in flight, of users and of rows.                               *)
(***************************************************************************)
EXTENDS Entorno, TLAPS

-----------------------------------------------------------------------------
(* The invitations. *)

LEMMA NuloForaConvites == NULL \notin Usuarios \cup Clientes
BY EntornoConstantes DEF EntornoAssumption

(* A request in flight is about a client or a user, by what it does. *)
Alvos ==
  \A p \in Pedidos :
    /\ cPedidos[p].pc = "convidar" => cPedidos[p].alvo \in Clientes
    /\ cPedidos[p].pc \in {"reenviar", "cancelar"} => cPedidos[p].alvo \in Usuarios

(* A row counts one acceptance from the moment it is accepted, and none when it is new. *)
Aceites ==
  \A u \in Usuarios :
    /\ cAceites[u] = IF cUsuarios[u].aceito THEN 1 ELSE 0
    /\ cUsuarios[u].estado = "ausente" => ~cUsuarios[u].aceito

(* Only a cancellation that had read the row before deletes an accepted one. *)
Cancelamentos ==
  /\ \A u \in Usuarios : cUsuarios[u].estado = "apagado" /\ cUsuarios[u].aceito => u \in cDisputados
  /\ \A p \in Pedidos : LET u == cPedidos[p].alvo IN
       cPedidos[p].pc = "cancelar" /\ cUsuarios[u].aceito => u \in cDisputados

(* The inductive invariant of Convites. *)
IndInvConvites == C!TypeOK /\ Alvos /\ Aceites /\ Cancelamentos /\ C!ParceiroTemCliente

LEMMA InitInvConvites == C!Init => IndInvConvites
BY DEF C!Init, IndInvConvites, C!TypeOK, Alvos, Aceites, Cancelamentos, C!ParceiroTemCliente, C!Presente,
       C!UsuarioRow, C!PedidoRow, C!Livre, C!SemUsuario

(* A request begins and nothing else changes. *)
LEMMA Comeca ==
  ASSUME IndInvConvites, NEW p \in Pedidos, NEW pc \in {"convidar", "reenviar", "cancelar"}, NEW x, C!Comecar(p, pc, x),
         pc = "convidar" => x \in Clientes,
         pc # "convidar" => x \in Usuarios,
         pc = "cancelar" => ~cUsuarios[x].aceito,
         UNCHANGED <<cUsuarios, cClientes, cAceites, cDisputados>>
  PROVE  IndInvConvites'
<1> DEFINE row == [pc |-> pc, alvo |-> x]
<1>1. row \in C!PedidoRow /\ row.pc = pc /\ row.alvo = x
  BY DEF C!PedidoRow
<1>2. cPedidos' = [cPedidos EXCEPT ![p] = row]
  BY DEF C!Comecar
<1> HIDE DEF row
<1>3. C!TypeOK'
  BY <1>1, <1>2 DEF IndInvConvites, C!TypeOK
<1>4. cPedidos'[p] = row /\ \A q \in Pedidos \ {p} : cPedidos'[q] = cPedidos[q]
  BY <1>2 DEF IndInvConvites, C!TypeOK
<1>5. Alvos' /\ Cancelamentos'
  BY <1>1, <1>4 DEF IndInvConvites, Alvos, Cancelamentos
<1>6. Aceites' /\ C!ParceiroTemCliente'
  BY DEF IndInvConvites, Aceites, C!ParceiroTemCliente, C!Presente
<1> QED
  BY <1>3, <1>5, <1>6 DEF IndInvConvites

(* A request ends. *)
LEMMA Termina ==
  ASSUME C!TypeOK, NEW p \in Pedidos, NEW pc, C!Terminar(p, pc)
  PROVE  /\ cPedidos' \in [Pedidos -> C!PedidoRow] /\ cPedidos[p].pc = pc
         /\ cPedidos'[p].pc = "livre" /\ \A q \in Pedidos \ {p} : cPedidos'[q] = cPedidos[q]
BY DEF C!TypeOK, C!Terminar, C!Livre, C!PedidoRow

LEMMA PassoConvidar ==
  ASSUME IndInvConvites, NEW p \in Pedidos, NEW u \in Usuarios, C!Convidar(p, u)
  PROVE  IndInvConvites'
<1> DEFINE c == cPedidos[p].alvo
<1>1. /\ cPedidos' \in [Pedidos -> C!PedidoRow] /\ cPedidos[p].pc = "convidar"
      /\ cPedidos'[p].pc = "livre" /\ \A q \in Pedidos \ {p} : cPedidos'[q] = cPedidos[q]
  BY Termina DEF C!Convidar, IndInvConvites
<1>2. c \in Clientes
  BY <1>1 DEF IndInvConvites, Alvos
<1>3. UNCHANGED <<cAceites, cDisputados>> /\ cUsuarios[u].estado = "ausente"
  BY DEF C!Convidar
<1>4. Alvos'
  BY <1>1 DEF IndInvConvites, Alvos
<1>5. CASE C!AindaLivre(c)
  <2>1. PICK row \in C!Novo(c) : cUsuarios' = [cUsuarios EXCEPT ![u] = row]
    BY <1>5 DEF C!Convidar
  <2>2. /\ row \in C!UsuarioRow /\ row.estado = "presente" /\ row.para = c /\ row.aceito = FALSE
    BY <1>2, <2>1 DEF C!Novo, C!SemUsuario, C!UsuarioRow
  <2>3. cClientes' = [cClientes EXCEPT ![c] = u] /\ cClientes[c] = NULL
    BY <1>5 DEF C!Convidar, C!AindaLivre
  <2>4. cUsuarios'[u] = row /\ \A v \in Usuarios \ {u} : cUsuarios'[v] = cUsuarios[v]
    BY <2>1 DEF IndInvConvites, C!TypeOK
  <2>5. cClientes'[c] = u /\ \A d \in Clientes \ {c} : cClientes'[d] = cClientes[d]
    BY <1>2, <2>3 DEF IndInvConvites, C!TypeOK
  <2>6. C!TypeOK'
    BY <1>1, <1>2, <1>3, <2>1, <2>2, <2>3 DEF IndInvConvites, C!TypeOK
  <2>7. Aceites'
    BY <1>3, <2>2, <2>4 DEF IndInvConvites, Aceites
  <2>8. Cancelamentos'
    BY <1>1, <1>3, <2>2, <2>4 DEF IndInvConvites, Cancelamentos, Alvos
  <2>9. C!ParceiroTemCliente'
    <3> SUFFICES ASSUME NEW v \in Usuarios, C!Presente(v)', cUsuarios'[v].para # NULL
                 PROVE  cClientes'[cUsuarios'[v].para] = v
      BY DEF C!ParceiroTemCliente
    <3>1. CASE v = u
      BY <3>1, <2>2, <2>4, <2>5
    <3>2. CASE v # u
      <4>1. C!Presente(v) /\ cUsuarios[v].para = cUsuarios'[v].para
        BY <3>2, <2>4 DEF C!Presente
      <4>2. cUsuarios[v].para \in Clientes
        BY <4>1 DEF IndInvConvites, C!TypeOK, C!UsuarioRow
      <4>3. cClientes[cUsuarios[v].para] = v
        BY <4>1 DEF IndInvConvites, C!ParceiroTemCliente
      <4> QED
        BY <4>1, <4>2, <4>3, <2>3, <2>5, NuloForaConvites
    <3> QED
      BY <3>1, <3>2
  <2> QED
    BY <1>4, <2>6, <2>7, <2>8, <2>9 DEF IndInvConvites
<1>6. CASE ~C!AindaLivre(c)
  <2>1. UNCHANGED <<cUsuarios, cClientes>>
    BY <1>6 DEF C!Convidar
  <2>2. C!TypeOK' /\ Aceites' /\ C!ParceiroTemCliente'
    BY <1>1, <1>3, <2>1 DEF IndInvConvites, C!TypeOK, Aceites, C!ParceiroTemCliente, C!Presente
  <2>3. Cancelamentos'
    BY <1>1, <1>3, <2>1 DEF IndInvConvites, Cancelamentos
  <2> QED
    BY <1>4, <2>2, <2>3 DEF IndInvConvites
<1> QED
  BY <1>5, <1>6

(* Steps that write one user and leave whom it was invited for. *)
UmUsuario(u, row) ==
  /\ cUsuarios' = [cUsuarios EXCEPT ![u] = row]
  /\ row \in C!UsuarioRow
  /\ row.para = cUsuarios[u].para

LEMMA UsuarioMuda ==
  ASSUME IndInvConvites, NEW u \in Usuarios, NEW row, UmUsuario(u, row)
  PROVE  /\ cUsuarios' \in [Usuarios -> C!UsuarioRow] /\ cUsuarios'[u] = row
         /\ \A v \in Usuarios \ {u} : cUsuarios'[v] = cUsuarios[v]
BY DEF IndInvConvites, C!TypeOK, UmUsuario

LEMMA PassoCriarConta ==
  ASSUME IndInvConvites, NEW u \in Usuarios, C!CriarConta(u)
  PROVE  IndInvConvites'
<1>1. PICK row \in C!Novo(NULL) : cUsuarios' = [cUsuarios EXCEPT ![u] = row]
  BY DEF C!CriarConta
<1>2. row \in C!UsuarioRow /\ row.estado = "presente" /\ row.para = NULL /\ row.aceito = FALSE
  BY <1>1 DEF C!Novo, C!SemUsuario, C!UsuarioRow
<1>3. cUsuarios'[u] = row /\ \A v \in Usuarios \ {u} : cUsuarios'[v] = cUsuarios[v]
  BY <1>1 DEF IndInvConvites, C!TypeOK
<1>4. UNCHANGED <<cClientes, cPedidos, cAceites, cDisputados>> /\ cUsuarios[u].estado = "ausente"
  BY DEF C!CriarConta
<1>5. C!TypeOK' /\ Alvos'
  BY <1>1, <1>2, <1>4 DEF IndInvConvites, C!TypeOK, Alvos
<1>6. Aceites'
  BY <1>2, <1>3, <1>4 DEF IndInvConvites, Aceites
<1>7. Cancelamentos'
  BY <1>2, <1>3, <1>4 DEF IndInvConvites, Cancelamentos, Alvos
<1>8. C!ParceiroTemCliente'
  BY <1>2, <1>3, <1>4 DEF IndInvConvites, C!ParceiroTemCliente, C!Presente
<1> QED
  BY <1>5, <1>6, <1>7, <1>8 DEF IndInvConvites

LEMMA PassoAceitar ==
  ASSUME IndInvConvites, NEW u \in Usuarios, C!Aceitar(u)
  PROVE  IndInvConvites'
<1> DEFINE row == [cUsuarios[u] EXCEPT !.convite = "nenhum", !.aceito = TRUE]
<1>1. cUsuarios[u] \in C!UsuarioRow
  BY DEF IndInvConvites, C!TypeOK
<1>2. /\ row \in C!UsuarioRow /\ row.estado = cUsuarios[u].estado /\ row.para = cUsuarios[u].para /\ row.aceito = TRUE
  BY <1>1 DEF C!UsuarioRow
<1>3. cUsuarios' = [cUsuarios EXCEPT ![u] = row]
  BY <1>1 DEF C!Aceitar, IndInvConvites, C!TypeOK
<1> HIDE DEF row
<1>4. cUsuarios'[u] = row /\ \A v \in Usuarios \ {u} : cUsuarios'[v] = cUsuarios[v]
  BY <1>3 DEF IndInvConvites, C!TypeOK
<1>5. /\ UNCHANGED <<cClientes, cPedidos>> /\ cUsuarios[u].estado = "presente" /\ ~cUsuarios[u].aceito
      /\ cAceites' = [cAceites EXCEPT ![u] = cAceites[u] + 1]
      /\ cDisputados' = IF C!ACancelar(u) THEN cDisputados \cup {u} ELSE cDisputados
  BY DEF C!Aceitar, C!PodeAceitar, C!Presente
<1>6. C!TypeOK'
  BY <1>2, <1>3, <1>5 DEF IndInvConvites, C!TypeOK
<1>7. Alvos'
  BY <1>5 DEF IndInvConvites, Alvos
<1>8. Aceites'
  <2>1. cAceites[u] = 0 /\ cAceites'[u] = 1
    BY <1>5 DEF IndInvConvites, Aceites, C!TypeOK
  <2>2. \A v \in Usuarios \ {u} : cAceites'[v] = cAceites[v]
    BY <1>5 DEF IndInvConvites, C!TypeOK
  <2> QED
    BY <2>1, <2>2, <1>2, <1>4, <1>5 DEF IndInvConvites, Aceites
<1>9. Cancelamentos'
  <2>1. \A v \in Usuarios : cUsuarios'[v].estado = "apagado" /\ cUsuarios'[v].aceito => v \in cDisputados'
    BY <1>2, <1>4, <1>5 DEF IndInvConvites, Cancelamentos
  <2>2. ASSUME NEW p \in Pedidos, cPedidos'[p].pc = "cancelar", cUsuarios'[cPedidos'[p].alvo].aceito
        PROVE  cPedidos'[p].alvo \in cDisputados'
    <3>1. cPedidos[p].pc = "cancelar" /\ cPedidos[p].alvo \in Usuarios /\ cPedidos'[p] = cPedidos[p]
      BY <2>2, <1>5 DEF IndInvConvites, Alvos
    <3>2. CASE cPedidos[p].alvo = u
      <4>1. cPedidos[p] = [pc |-> "cancelar", alvo |-> u]
        BY <3>1, <3>2 DEF IndInvConvites, C!TypeOK, C!PedidoRow
      <4> QED
        BY <4>1, <3>1, <3>2, <1>5 DEF C!ACancelar
    <3>3. CASE cPedidos[p].alvo # u
      BY <3>1, <3>3, <2>2, <1>4, <1>5 DEF IndInvConvites, Cancelamentos
    <3> QED
      BY <3>2, <3>3
  <2> QED
    BY <2>1, <2>2 DEF Cancelamentos
<1>10. C!ParceiroTemCliente'
  BY <1>2, <1>4, <1>5 DEF IndInvConvites, C!ParceiroTemCliente, C!Presente
<1> QED
  BY <1>6, <1>7, <1>8, <1>9, <1>10 DEF IndInvConvites

(* What a user is invited for, whether it is there and what it accepted are as before. *)
LEMMA SoConvite ==
  ASSUME IndInvConvites, cUsuarios' \in [Usuarios -> C!UsuarioRow], cPedidos' \in [Pedidos -> C!PedidoRow],
         \A u \in Usuarios : /\ cUsuarios'[u].estado = cUsuarios[u].estado
                             /\ cUsuarios'[u].para = cUsuarios[u].para
                             /\ cUsuarios'[u].aceito = cUsuarios[u].aceito,
         \A p \in Pedidos : cPedidos'[p] = cPedidos[p] \/ cPedidos'[p].pc = "livre",
         UNCHANGED <<cClientes, cAceites, cDisputados>>
  PROVE  IndInvConvites'
<1>1. C!TypeOK'
  BY DEF IndInvConvites, C!TypeOK
<1>2. Alvos'
  BY DEF IndInvConvites, Alvos
<1>3. Aceites'
  BY DEF IndInvConvites, Aceites
<1>4. Cancelamentos'
  BY <1>2 DEF IndInvConvites, Cancelamentos, Alvos
<1>5. C!ParceiroTemCliente'
  BY DEF IndInvConvites, C!ParceiroTemCliente, C!Presente
<1> QED
  BY <1>1, <1>2, <1>3, <1>4, <1>5 DEF IndInvConvites

LEMMA PassoCancelar ==
  ASSUME IndInvConvites, NEW p \in Pedidos, C!CancelarConvite(p)
  PROVE  IndInvConvites'
<1> DEFINE u == cPedidos[p].alvo
           row == [cUsuarios[u] EXCEPT !.estado = "apagado"]
<1>1. /\ cPedidos' \in [Pedidos -> C!PedidoRow] /\ cPedidos[p].pc = "cancelar"
      /\ cPedidos'[p].pc = "livre" /\ \A q \in Pedidos \ {p} : cPedidos'[q] = cPedidos[q]
  BY Termina DEF C!CancelarConvite, IndInvConvites
<1>2. u \in Usuarios
  BY <1>1 DEF IndInvConvites, Alvos
<1>3. row \in C!UsuarioRow /\ row.estado = "apagado" /\ row.aceito = cUsuarios[u].aceito
  BY <1>2 DEF IndInvConvites, C!TypeOK, C!UsuarioRow
<1>4. cUsuarios' = [cUsuarios EXCEPT ![u] = row]
  BY <1>2 DEF C!CancelarConvite, IndInvConvites, C!TypeOK
<1> HIDE DEF row
<1>5. cUsuarios'[u] = row /\ \A v \in Usuarios \ {u} : cUsuarios'[v] = cUsuarios[v]
  BY <1>2, <1>4 DEF IndInvConvites, C!TypeOK
<1>6. /\ cClientes' = [c \in Clientes |-> IF cClientes[c] = u THEN NULL ELSE cClientes[c]]
      /\ UNCHANGED <<cAceites, cDisputados>>
  BY DEF C!CancelarConvite
<1>7. C!TypeOK'
  BY <1>1, <1>2, <1>3, <1>4, <1>6 DEF IndInvConvites, C!TypeOK
<1>8. Alvos'
  BY <1>1 DEF IndInvConvites, Alvos
<1>9. Aceites'
  BY <1>3, <1>5, <1>6 DEF IndInvConvites, Aceites
<1>10. Cancelamentos'
  BY <1>1, <1>2, <1>3, <1>5, <1>6 DEF IndInvConvites, Cancelamentos, Alvos
<1>11. C!ParceiroTemCliente'
  <2> SUFFICES ASSUME NEW v \in Usuarios, C!Presente(v)', cUsuarios'[v].para # NULL
               PROVE  cClientes'[cUsuarios'[v].para] = v
    BY DEF C!ParceiroTemCliente
  <2>1. v # u /\ cUsuarios'[v] = cUsuarios[v] /\ C!Presente(v)
    BY <1>3, <1>5 DEF C!Presente
  <2>2. cUsuarios[v].para \in Clientes /\ cClientes[cUsuarios[v].para] = v
    BY <2>1 DEF IndInvConvites, C!TypeOK, C!UsuarioRow, C!ParceiroTemCliente
  <2> QED
    BY <2>1, <2>2, <1>6
<1> QED
  BY <1>7, <1>8, <1>9, <1>10, <1>11 DEF IndInvConvites

LEMMA PassoReenviar ==
  ASSUME IndInvConvites, NEW p \in Pedidos, C!Reenviar(p)
  PROVE  IndInvConvites'
<1> DEFINE u == cPedidos[p].alvo
<1>1. /\ cPedidos' \in [Pedidos -> C!PedidoRow] /\ cPedidos[p].pc = "reenviar"
      /\ cPedidos'[p].pc = "livre" /\ \A q \in Pedidos \ {p} : cPedidos'[q] = cPedidos[q]
  BY Termina DEF C!Reenviar, IndInvConvites
<1>2. u \in Usuarios
  BY <1>1 DEF IndInvConvites, Alvos
<1>3. /\ cUsuarios' \in [Usuarios -> C!UsuarioRow]
      /\ \A v \in Usuarios : /\ cUsuarios'[v].estado = cUsuarios[v].estado
                             /\ cUsuarios'[v].para = cUsuarios[v].para
                             /\ cUsuarios'[v].aceito = cUsuarios[v].aceito
  BY <1>2 DEF IndInvConvites, C!TypeOK, C!UsuarioRow, C!Reenviar
<1> QED
  BY <1>1, <1>3, SoConvite DEF C!Reenviar

LEMMA PassoUsuario ==
  ASSUME IndInvConvites, NEW u \in Usuarios,
         C!Expirar(u) \/ (\E ativo \in BOOLEAN : C!MudarStatus(u, ativo))
  PROVE  IndInvConvites'
<1>1. /\ cUsuarios' \in [Usuarios -> C!UsuarioRow]
      /\ \A v \in Usuarios : /\ cUsuarios'[v].estado = cUsuarios[v].estado
                             /\ cUsuarios'[v].para = cUsuarios[v].para
                             /\ cUsuarios'[v].aceito = cUsuarios[v].aceito
  BY DEF IndInvConvites, C!TypeOK, C!UsuarioRow, C!Expirar, C!MudarStatus
<1>2. UNCHANGED <<cClientes, cPedidos, cAceites, cDisputados>>
  BY DEF C!Expirar, C!MudarStatus
<1> QED
  BY <1>1, <1>2, SoConvite DEF IndInvConvites, C!TypeOK

LEMMA PassoUnidadeConvites ==
  ASSUME IndInvConvites, NEW ativo \in BOOLEAN, C!MudarUnidade(ativo)
  PROVE  IndInvConvites'
<1>1. /\ cUsuarios' \in [Usuarios -> C!UsuarioRow]
      /\ \A v \in Usuarios : /\ cUsuarios'[v].estado = cUsuarios[v].estado
                             /\ cUsuarios'[v].para = cUsuarios[v].para
                             /\ cUsuarios'[v].aceito = cUsuarios[v].aceito
  BY DEF IndInvConvites, C!TypeOK, C!UsuarioRow, C!MudarUnidade
<1> QED
  BY <1>1, SoConvite DEF C!MudarUnidade, IndInvConvites, C!TypeOK

LEMMA PassoNextConvites == IndInvConvites /\ [C!Next]_convites => IndInvConvites'
<1> SUFFICES ASSUME IndInvConvites, [C!Next]_convites PROVE IndInvConvites'
  OBVIOUS
<1>1. ASSUME NEW p \in Pedidos, NEW c \in Clientes, C!PedirConvite(p, c) PROVE IndInvConvites'
  BY <1>1, Comeca DEF C!PedirConvite
<1>2. ASSUME NEW p \in Pedidos, NEW u \in Usuarios, C!Convidar(p, u) PROVE IndInvConvites'
  BY <1>2, PassoConvidar
<1>3. ASSUME NEW p \in Pedidos, NEW u \in Usuarios, C!LerReenvio(p, u) PROVE IndInvConvites'
  BY <1>3, Comeca DEF C!LerReenvio
<1>4. ASSUME NEW p \in Pedidos, NEW u \in Usuarios, C!LerCancelamento(p, u) PROVE IndInvConvites'
  BY <1>4, Comeca DEF C!LerCancelamento, C!PodeCancelar
<1>5. ASSUME NEW p \in Pedidos, C!Reenviar(p) PROVE IndInvConvites'
  BY <1>5, PassoReenviar
<1>6. ASSUME NEW p \in Pedidos, C!CancelarConvite(p) PROVE IndInvConvites'
  BY <1>6, PassoCancelar
<1>7. ASSUME NEW u \in Usuarios, C!CriarConta(u) PROVE IndInvConvites'
  BY <1>7, PassoCriarConta
<1>8. ASSUME NEW u \in Usuarios, C!Aceitar(u) PROVE IndInvConvites'
  BY <1>8, PassoAceitar
<1>9. ASSUME NEW u \in Usuarios, C!Expirar(u) \/ (\E ativo \in BOOLEAN : C!MudarStatus(u, ativo)) PROVE IndInvConvites'
  BY <1>9, PassoUsuario
<1>10. ASSUME NEW ativo \in BOOLEAN, C!MudarUnidade(ativo) PROVE IndInvConvites'
  BY <1>10, PassoUnidadeConvites
<1>11. CASE UNCHANGED convites
  BY <1>11 DEF convites, IndInvConvites, C!TypeOK, Alvos, Aceites, Cancelamentos, C!ParceiroTemCliente, C!Presente
<1> QED
  BY <1>1, <1>2, <1>3, <1>4, <1>5, <1>6, <1>7, <1>8, <1>9, <1>10, <1>11 DEF C!Next

LEMMA SpecInvConvites == C!Spec => []IndInvConvites
<1>1. IndInvConvites /\ [C!Next]_(C!vars) => IndInvConvites'
  BY PassoNextConvites DEF convites, C!vars
<1> QED BY InitInvConvites, <1>1, PTL DEF C!Spec

LEMMA InvPropsConvites == IndInvConvites => C!TypeOK /\ C!ContaAceitaFica /\ C!ParceiroTemCliente
BY DEF IndInvConvites, Aceites, Cancelamentos, C!ContaAceitaFica

(* However many invitations, resends, cancellations and acceptances are in flight, an      *)
(* account is accepted once, a cancellation takes an accepted one only if it had read it   *)
(* before, and a partner stays the user of the client it was invited for.                  *)
THEOREM ConvitesCorrect == C!Spec => []ConvitesEmOrdem
<1>1. IndInvConvites => ConvitesEmOrdem
  BY InvPropsConvites DEF ConvitesEmOrdem
<1> QED BY SpecInvConvites, <1>1, PTL

-----------------------------------------------------------------------------
(* The sessions. *)

LEMMA NumeroVersao == MaxVersao \in Nat \ {0}
BY EntornoConstantes DEF EntornoAssumption

LEMMA NuloForaSessoes == NULL \notin Titulares \cup Sessoes
BY EntornoConstantes DEF EntornoAssumption

(* What a session of version v needs of its user. *)
Revogando(u) == \E p \in Pedidos : sPedidos[p].usuario = u /\ sPedidos[p].pc = "revogar"

(* Its version is of now, or the family of the user is about to be revoked. *)
FirmeSessoes(u, v) == sUsuarios[u].ativo /\ (sUsuarios[u].versao <= v \/ Revogando(u))

(* A session opened in time whose user no longer admits it is about to be revoked. *)
SessaoFirme(s) == sSessoes[s].valida /\ ~sSessoes[s].tardia => FirmeSessoes(sSessoes[s].dono, sSessoes[s].versao)

(* It holds of a session that is about to be opened too. *)
Abrindo(p) == sPedidos[p].pc \in {"girar", "emitir"} /\ ~sPedidos[p].tardio

(* The same of the session that a request is about to write. *)
AberturaFirme(p) == Abrindo(p) => FirmeSessoes(sPedidos[p].usuario, sPedidos[p].versao)

(* Requests and sessions are of a user. *)
Donos ==
  /\ \A p \in Pedidos : sPedidos[p].pc # "livre" => sPedidos[p].usuario \in Titulares
  /\ \A s \in Sessoes : sSessoes[s].valida => sSessoes[s].dono \in Titulares

(* While a link is about to be stored, only links stored in parallel to it are usable. *)
Gravando(u) == \E p \in Pedidos : sPedidos[p].usuario = u /\ sPedidos[p].pc = "gravar"

(* A link that can still change the password of u. *)
Utilizavel(l, u) == sLinks[l].dono = u /\ ~sLinks[l].usado

(* Of two usable links of a user, one was stored in parallel to another. *)
LinksFirmes ==
  \A u \in Titulares :
    /\ Gravando(u) => \A l \in Links : Utilizavel(l, u) => sLinks[l].paralelo
    /\ \A l, m \in Links : Utilizavel(l, u) /\ Utilizavel(m, u) /\ l # m => sLinks[l].paralelo \/ sLinks[m].paralelo

(* The inductive invariant of Sessoes. *)
IndInvSessoes ==
  /\ S!TypeOK /\ Donos /\ LinksFirmes
  /\ \A s \in Sessoes : SessaoFirme(s)
  /\ \A p \in Pedidos : AberturaFirme(p)

LEMMA LivreTipoSessoes == S!Livre \in S!PedidoRow /\ S!Livre.pc = "livre"
BY NumeroVersao DEF S!Livre, S!PedidoRow, S!Versoes

LEMMA LivreCom ==
  ASSUME NEW u \in Titulares, NEW pc \in {"revogar", "redefinir", "invalidar", "desativar"}
  PROVE  LET row == [S!Livre EXCEPT !.pc = pc, !.usuario = u] IN row \in S!PedidoRow /\ row.pc = pc /\ row.usuario = u
<1>1. 1 \in S!Versoes
  BY NumeroVersao DEF S!Versoes
<1> QED BY <1>1 DEF S!Livre, S!PedidoRow

LEMMA InitInvSessoes == S!Init => IndInvSessoes
<1> SUFFICES ASSUME S!Init PROVE IndInvSessoes
  OBVIOUS
<1>2. S!TypeOK
  BY LivreTipoSessoes, NumeroVersao DEF S!Init, S!TypeOK, S!UsuarioRow, S!SessaoRow, S!LinkRow, S!Versoes
<1>3. \A p \in Pedidos : sPedidos[p].pc = "livre"
  BY LivreTipoSessoes DEF S!Init
<1>4. Donos /\ (\A s \in Sessoes : SessaoFirme(s)) /\ (\A p \in Pedidos : AberturaFirme(p))
  BY <1>3 DEF S!Init, Donos, SessaoFirme, AberturaFirme, Abrindo
<1>5. LinksFirmes
  BY <1>3, NuloForaSessoes DEF S!Init, LinksFirmes, Gravando, Utilizavel
<1> QED BY <1>2, <1>4, <1>5 DEF IndInvSessoes

-----------------------------------------------------------------------------
(* A step that leaves the users but those of quem as they are. *)
Poupa(quem) == \A u \in Titulares \ quem : \A v \in S!Versoes : FirmeSessoes(u, v) => FirmeSessoes(u, v)'

(* A step opens no session, and leaves those of others as they are. *)
SessaoFica(s, quem) ==
  sSessoes'[s].valida /\ ~sSessoes'[s].tardia =>
    /\ sSessoes[s].valida /\ ~sSessoes[s].tardia /\ sSessoes[s].dono \notin quem
    /\ sSessoes'[s].dono = sSessoes[s].dono /\ sSessoes'[s].versao = sSessoes[s].versao

(* A step begins no opening, and leaves those of others as they are. *)
AberturaFica(p, quem) ==
  Abrindo(p)' =>
    /\ Abrindo(p) /\ sPedidos[p].usuario \notin quem
    /\ sPedidos'[p].usuario = sPedidos[p].usuario /\ sPedidos'[p].versao = sPedidos[p].versao

LEMMA SessaoSegue ==
  ASSUME IndInvSessoes, NEW s \in Sessoes, NEW quem, Poupa(quem), SessaoFica(s, quem)
  PROVE  SessaoFirme(s)'
<1> SUFFICES ASSUME sSessoes'[s].valida, ~sSessoes'[s].tardia
             PROVE  FirmeSessoes(sSessoes[s].dono, sSessoes[s].versao)'
  BY DEF SessaoFirme
<1>1. PICK u \in Titulares \ quem, v \in S!Versoes : u = sSessoes[s].dono /\ v = sSessoes[s].versao
  BY DEF IndInvSessoes, S!TypeOK, S!SessaoRow, Donos, SessaoFica
<1>2. FirmeSessoes(u, v)
  BY <1>1 DEF IndInvSessoes, SessaoFirme, SessaoFica
<1>3. FirmeSessoes(u, v)' /\ sSessoes'[s].dono = u /\ sSessoes'[s].versao = v
  BY <1>1, <1>2 DEF Poupa, SessaoFica
<1> QED BY <1>3 DEF FirmeSessoes, Revogando

LEMMA AberturaSegue ==
  ASSUME IndInvSessoes, NEW p \in Pedidos, NEW quem, Poupa(quem), AberturaFica(p, quem)
  PROVE  AberturaFirme(p)'
<1> SUFFICES ASSUME Abrindo(p)'
             PROVE  FirmeSessoes(sPedidos[p].usuario, sPedidos[p].versao)'
  BY DEF AberturaFirme
<1>1. PICK u \in Titulares \ quem, v \in S!Versoes : u = sPedidos[p].usuario /\ v = sPedidos[p].versao
  BY DEF IndInvSessoes, S!TypeOK, S!PedidoRow, Donos, AberturaFica, Abrindo
<1>2. FirmeSessoes(u, v)
  BY <1>1 DEF IndInvSessoes, AberturaFirme, AberturaFica
<1>3. FirmeSessoes(u, v)' /\ sPedidos'[p].usuario = u /\ sPedidos'[p].versao = v
  BY <1>1, <1>2 DEF Poupa, AberturaFica
<1> QED BY <1>3 DEF FirmeSessoes, Revogando

(* One request takes a new row. *)
UmPedidoSessoes(p, row) ==
  /\ sPedidos' = [sPedidos EXCEPT ![p] = row]
  /\ row \in S!PedidoRow
  /\ row.pc # "livre" => row.usuario \in Titulares
  /\ sPedidos[p].pc # "revogar"

LEMMA PedidoMudaSessoes ==
  ASSUME IndInvSessoes, NEW p \in Pedidos, NEW row, UmPedidoSessoes(p, row)
  PROVE  /\ sPedidos' \in [Pedidos -> S!PedidoRow] /\ sPedidos'[p] = row
         /\ \A q \in Pedidos \ {p} : sPedidos'[q] = sPedidos[q]
         /\ \A q \in Pedidos : sPedidos'[q].pc # "livre" => sPedidos'[q].usuario \in Titulares
         /\ \A u \in Titulares : Revogando(u) => Revogando(u)'
         /\ \A q \in Pedidos \ {p} : AberturaFica(q, {})
<1>1. /\ sPedidos' \in [Pedidos -> S!PedidoRow] /\ sPedidos'[p] = row
      /\ \A q \in Pedidos \ {p} : sPedidos'[q] = sPedidos[q]
  BY DEF IndInvSessoes, S!TypeOK, UmPedidoSessoes
<1>2. \A q \in Pedidos : sPedidos'[q].pc # "livre" => sPedidos'[q].usuario \in Titulares
  BY <1>1 DEF UmPedidoSessoes, IndInvSessoes, Donos
<1>3. \A u \in Titulares : Revogando(u) => Revogando(u)'
  BY <1>1 DEF Revogando, UmPedidoSessoes
<1>4. \A q \in Pedidos \ {p} : AberturaFica(q, {})
  BY <1>1 DEF AberturaFica, Abrindo
<1> QED BY <1>1, <1>2, <1>3, <1>4

(* A request goes on: no users, sessions or links written, no link about to be stored. *)
LEMMA Neutro ==
  ASSUME IndInvSessoes, NEW p \in Pedidos, NEW row, UmPedidoSessoes(p, row), row.pc # "gravar",
         Poupa({}), sUsuarios' \in [Titulares -> S!UsuarioRow], UNCHANGED <<sSessoes, sLinks>>,
         AberturaFirme(p)'
  PROVE  IndInvSessoes'
<1>1. /\ sPedidos' \in [Pedidos -> S!PedidoRow] /\ sPedidos'[p] = row
      /\ \A q \in Pedidos \ {p} : sPedidos'[q] = sPedidos[q]
      /\ \A q \in Pedidos : sPedidos'[q].pc # "livre" => sPedidos'[q].usuario \in Titulares
      /\ \A q \in Pedidos \ {p} : AberturaFica(q, {})
  BY PedidoMudaSessoes
<1>2. S!TypeOK' /\ Donos'
  BY <1>1 DEF IndInvSessoes, S!TypeOK, Donos
<1>3. \A s \in Sessoes : SessaoFirme(s)'
  <2>1. \A s \in Sessoes : SessaoFica(s, {})
    BY DEF SessaoFica
  <2> QED BY <2>1, SessaoSegue
<1>4. \A q \in Pedidos : AberturaFirme(q)'
  BY <1>1, AberturaSegue
<1>5. LinksFirmes'
  <2>1. \A u \in Titulares : Gravando(u)' => Gravando(u)
    BY <1>1 DEF Gravando
  <2> QED BY <2>1 DEF IndInvSessoes, LinksFirmes, Utilizavel
<1> QED BY <1>2, <1>3, <1>4, <1>5 DEF IndInvSessoes

LEMMA UsuariosIguais ==
  ASSUME IndInvSessoes, NEW p \in Pedidos, NEW row, UmPedidoSessoes(p, row), UNCHANGED sUsuarios
  PROVE  Poupa({})
<1>1. \A u \in Titulares : Revogando(u) => Revogando(u)'
  BY PedidoMudaSessoes
<1> QED BY <1>1 DEF Poupa, FirmeSessoes

-----------------------------------------------------------------------------
(* Opening, renewal. *)

(* Who begins to open a session has read an active user and its version. *)
LEMMA PassoAbrir ==
  ASSUME IndInvSessoes, NEW p \in Pedidos, NEW u \in Titulares, NEW row \in S!PedidoRow,
         sPedidos[p].pc = "livre", sPedidos' = [sPedidos EXCEPT ![p] = row],
         row.pc \in {"girar", "emitir"}, row.usuario = u, row.versao = sUsuarios[u].versao, sUsuarios[u].ativo,
         UNCHANGED <<sUsuarios, sSessoes, sLinks>>
  PROVE  IndInvSessoes'
<1>1. UmPedidoSessoes(p, row)
  BY DEF UmPedidoSessoes
<1>2. sPedidos'[p] = row
  BY <1>1, PedidoMudaSessoes
<1>3. sUsuarios[u].versao \in Nat /\ UNCHANGED sUsuarios
  BY NumeroVersao DEF IndInvSessoes, S!TypeOK, S!UsuarioRow, S!Versoes
<1>4. AberturaFirme(p)'
  BY <1>2, <1>3 DEF AberturaFirme, FirmeSessoes
<1>5. Poupa({})
  BY <1>1, UsuariosIguais
<1> QED BY <1>1, <1>4, <1>5, Neutro DEF IndInvSessoes, S!TypeOK

LEMMA PassoEntrar ==
  ASSUME IndInvSessoes, NEW p \in Pedidos, NEW u \in Titulares, S!Entrar(p, u)
  PROVE  IndInvSessoes'
<1> DEFINE row == [S!Livre EXCEPT !.pc = "emitir", !.usuario = u, !.versao = sUsuarios[u].versao]
<1>1. row \in S!PedidoRow /\ row.pc = "emitir" /\ row.usuario = u /\ row.versao = sUsuarios[u].versao
  BY DEF S!Livre, S!PedidoRow, IndInvSessoes, S!TypeOK, S!UsuarioRow
<1>2. sPedidos[p].pc = "livre" /\ sPedidos' = [sPedidos EXCEPT ![p] = row] /\ sUsuarios[u].ativo
      /\ UNCHANGED <<sUsuarios, sSessoes, sLinks>>
  BY DEF S!Entrar
<1> HIDE DEF row
<1> QED BY <1>1, <1>2, PassoAbrir

LEMMA PassoLerRenovacao ==
  ASSUME IndInvSessoes, NEW p \in Pedidos, NEW s \in Sessoes, S!LerRenovacao(p, s)
  PROVE  IndInvSessoes'
<1> DEFINE u == sSessoes[s].dono
           row == [S!Livre EXCEPT !.pc = "girar", !.usuario = u, !.sessao = s, !.versao = sUsuarios[u].versao]
<1>1. u \in Titulares /\ sUsuarios[u].ativo
  BY DEF S!LerRenovacao, S!PodeRenovar, IndInvSessoes, Donos
<1>2. row \in S!PedidoRow /\ row.pc = "girar" /\ row.usuario = u /\ row.versao = sUsuarios[u].versao
  BY <1>1 DEF S!Livre, S!PedidoRow, IndInvSessoes, S!TypeOK, S!UsuarioRow
<1>3. sPedidos[p].pc = "livre" /\ sPedidos' = [sPedidos EXCEPT ![p] = row] /\ UNCHANGED <<sUsuarios, sSessoes, sLinks>>
  BY DEF S!LerRenovacao
<1> HIDE DEF row, u
<1> QED BY <1>1, <1>2, <1>3, PassoAbrir

LEMMA PassoGirar ==
  ASSUME IndInvSessoes, NEW p \in Pedidos, S!Girar(p)
  PROVE  IndInvSessoes'
<1> DEFINE row == [sPedidos[p] EXCEPT !.pc = "emitir"]
           r == sPedidos[p].sessao
<1>1. /\ row \in S!PedidoRow /\ row.pc = "emitir" /\ row.usuario = sPedidos[p].usuario
      /\ row.versao = sPedidos[p].versao /\ row.tardio = sPedidos[p].tardio
  BY DEF IndInvSessoes, S!TypeOK, S!PedidoRow
<1>2. sPedidos[p].pc = "girar" /\ sPedidos' = [sPedidos EXCEPT ![p] = row] /\ UNCHANGED <<sUsuarios, sLinks>>
      /\ sSessoes' = [sSessoes EXCEPT ![r].valida = FALSE]
  BY DEF S!Girar, S!Seguir
<1> HIDE DEF row, r
<1>3. UmPedidoSessoes(p, row)
  BY <1>1, <1>2 DEF UmPedidoSessoes, IndInvSessoes, Donos
<1>4. /\ sPedidos' \in [Pedidos -> S!PedidoRow] /\ sPedidos'[p] = row
      /\ \A q \in Pedidos \ {p} : sPedidos'[q] = sPedidos[q]
      /\ \A q \in Pedidos : sPedidos'[q].pc # "livre" => sPedidos'[q].usuario \in Titulares
      /\ \A q \in Pedidos \ {p} : AberturaFica(q, {})
  BY <1>3, PedidoMudaSessoes
<1>5. /\ sSessoes' \in [Sessoes -> S!SessaoRow]
      /\ \A s \in Sessoes : /\ sSessoes'[s].dono = sSessoes[s].dono /\ sSessoes'[s].versao = sSessoes[s].versao
                            /\ sSessoes'[s].tardia = sSessoes[s].tardia
                            /\ sSessoes'[s].valida => sSessoes[s].valida
  BY <1>2 DEF IndInvSessoes, S!TypeOK, S!SessaoRow
<1>6. Poupa({})
  BY <1>2, <1>3, UsuariosIguais
<1>7. S!TypeOK' /\ Donos'
  BY <1>2, <1>4, <1>5 DEF IndInvSessoes, S!TypeOK, Donos
<1>8. \A s \in Sessoes : SessaoFirme(s)'
  <2>1. \A s \in Sessoes : SessaoFica(s, {})
    BY <1>5 DEF SessaoFica
  <2> QED BY <2>1, <1>6, SessaoSegue
<1>9. \A q \in Pedidos : AberturaFirme(q)'
  <2>1. AberturaFica(p, {})
    BY <1>1, <1>2, <1>4 DEF AberturaFica, Abrindo
  <2> QED BY <2>1, <1>4, <1>6, AberturaSegue
<1>10. LinksFirmes'
  <2>1. \A u \in Titulares : Gravando(u)' => Gravando(u)
    BY <1>1, <1>4 DEF Gravando
  <2> QED BY <2>1, <1>2 DEF IndInvSessoes, LinksFirmes, Utilizavel
<1> QED BY <1>7, <1>8, <1>9, <1>10 DEF IndInvSessoes

LEMMA PassoEmitirSessoes ==
  ASSUME IndInvSessoes, NEW p \in Pedidos, NEW s \in Sessoes, S!Emitir(p, s)
  PROVE  IndInvSessoes'
<1> DEFINE d == sPedidos[p]
           nova == [dono |-> d.usuario, valida |-> TRUE, versao |-> d.versao, tardia |-> d.tardio]
<1>1. sPedidos[p].pc = "emitir" /\ sPedidos' = [sPedidos EXCEPT ![p] = S!Livre] /\ UNCHANGED <<sUsuarios, sLinks>>
      /\ sSessoes' = [sSessoes EXCEPT ![s] = nova]
  BY DEF S!Emitir, S!Terminar
<1>2. UmPedidoSessoes(p, S!Livre)
  BY <1>1, LivreTipoSessoes DEF UmPedidoSessoes
<1>3. /\ sPedidos' \in [Pedidos -> S!PedidoRow] /\ sPedidos'[p] = S!Livre
      /\ \A q \in Pedidos \ {p} : sPedidos'[q] = sPedidos[q]
      /\ \A q \in Pedidos : sPedidos'[q].pc # "livre" => sPedidos'[q].usuario \in Titulares
      /\ \A q \in Pedidos \ {p} : AberturaFica(q, {})
  BY <1>2, PedidoMudaSessoes
<1>4. d \in S!PedidoRow /\ d.usuario \in Titulares /\ d.versao \in S!Versoes
  BY <1>1 DEF IndInvSessoes, S!TypeOK, Donos, S!PedidoRow
<1>5. nova \in S!SessaoRow /\ nova.dono = d.usuario /\ nova.versao = d.versao /\ nova.tardia = d.tardio
  BY <1>4 DEF S!SessaoRow, S!PedidoRow
<1> HIDE DEF nova
<1>6. /\ sSessoes' \in [Sessoes -> S!SessaoRow] /\ sSessoes'[s] = nova
      /\ \A r \in Sessoes \ {s} : sSessoes'[r] = sSessoes[r]
  BY <1>1, <1>5 DEF IndInvSessoes, S!TypeOK
<1>7. Poupa({})
  BY <1>1, <1>2, UsuariosIguais
<1>8. S!TypeOK' /\ Donos'
  BY <1>1, <1>3, <1>4, <1>5, <1>6 DEF IndInvSessoes, S!TypeOK, Donos
<1>9. SessaoFirme(s)'
  <2> SUFFICES ASSUME ~d.tardio
               PROVE  FirmeSessoes(sSessoes[s].dono, sSessoes[s].versao)'
    BY <1>5, <1>6 DEF SessaoFirme
  <2>1. PICK u \in Titulares, v \in S!Versoes : u = d.usuario /\ v = d.versao
    BY <1>4
  <2>2. FirmeSessoes(u, v)
    BY <2>1, <1>1 DEF IndInvSessoes, AberturaFirme, Abrindo
  <2>3. FirmeSessoes(u, v)' /\ sSessoes'[s].dono = u /\ sSessoes'[s].versao = v
    BY <2>1, <2>2, <1>5, <1>6, <1>7 DEF Poupa
  <2> QED BY <2>3 DEF FirmeSessoes, Revogando
<1>10. \A r \in Sessoes \ {s} : SessaoFirme(r)'
  <2>1. \A r \in Sessoes \ {s} : SessaoFica(r, {})
    BY <1>6 DEF SessaoFica
  <2> QED BY <2>1, <1>7, SessaoSegue
<1>11. \A q \in Pedidos : AberturaFirme(q)'
  <2>1. AberturaFica(p, {})
    BY <1>3, LivreTipoSessoes DEF AberturaFica, Abrindo
  <2> QED BY <2>1, <1>3, <1>7, AberturaSegue
<1>12. LinksFirmes'
  <2>1. \A u \in Titulares : Gravando(u)' => Gravando(u)
    BY <1>3, LivreTipoSessoes DEF Gravando
  <2> QED BY <2>1, <1>1 DEF IndInvSessoes, LinksFirmes, Utilizavel
<1> QED BY <1>8, <1>9, <1>10, <1>11, <1>12 DEF IndInvSessoes

-----------------------------------------------------------------------------
(* Requests that do not open a session. *)

LEMMA PassoComecarSessoes ==
  ASSUME IndInvSessoes, NEW p \in Pedidos, NEW u \in Titulares,
         NEW pc \in {"revogar", "redefinir", "invalidar", "desativar"},
         S!Comecar(p, pc, u), Poupa({}) \/ UNCHANGED sUsuarios, sUsuarios' \in [Titulares -> S!UsuarioRow],
         UNCHANGED <<sSessoes, sLinks>>
  PROVE  IndInvSessoes'
<1> DEFINE row == [S!Livre EXCEPT !.pc = pc, !.usuario = u]
<1>0. 1 \in S!Versoes
  BY NumeroVersao DEF S!Versoes
<1>1. row \in S!PedidoRow /\ row.pc = pc /\ row.usuario = u
  BY <1>0 DEF S!Livre, S!PedidoRow
<1>2. sPedidos[p].pc = "livre" /\ sPedidos' = [sPedidos EXCEPT ![p] = row]
  BY DEF S!Comecar
<1> HIDE DEF row
<1>3. UmPedidoSessoes(p, row)
  BY <1>1, <1>2 DEF UmPedidoSessoes
<1>4. sPedidos'[p] = row
  BY <1>3, PedidoMudaSessoes
<1>5. AberturaFirme(p)'
  BY <1>1, <1>4 DEF AberturaFirme, Abrindo
<1>6. Poupa({})
  BY <1>3, UsuariosIguais
<1> QED BY <1>1, <1>3, <1>5, <1>6, Neutro

(* A new version of a user whose sessions are about to be revoked. *)
LEMMA NovaVersao ==
  ASSUME IndInvSessoes, NEW u \in Titulares, sUsuarios' = [sUsuarios EXCEPT ![u].versao = sUsuarios[u].versao + 1],
         sUsuarios[u].versao < MaxVersao, Revogando(u)',
         \A w \in Titulares : Revogando(w) => Revogando(w)'
  PROVE  Poupa({}) /\ sUsuarios' \in [Titulares -> S!UsuarioRow]
<1>1. sUsuarios[u] \in S!UsuarioRow /\ sUsuarios[u].versao + 1 \in S!Versoes
  BY NumeroVersao DEF IndInvSessoes, S!TypeOK, S!UsuarioRow, S!Versoes
<1>2. sUsuarios' \in [Titulares -> S!UsuarioRow] /\ sUsuarios'[u].ativo = sUsuarios[u].ativo
      /\ \A w \in Titulares \ {u} : sUsuarios'[w] = sUsuarios[w]
  BY <1>1 DEF IndInvSessoes, S!TypeOK, S!UsuarioRow
<1> QED BY <1>2 DEF Poupa, FirmeSessoes

LEMMA PassoForcarSaida ==
  ASSUME IndInvSessoes, NEW p \in Pedidos, NEW u \in Titulares, S!ForcarSaida(p, u)
  PROVE  IndInvSessoes'
<1> DEFINE row == [S!Livre EXCEPT !.pc = "revogar", !.usuario = u]
<1>1. row \in S!PedidoRow /\ row.pc = "revogar" /\ row.usuario = u
  BY LivreCom
<1>2. /\ sPedidos[p].pc = "livre" /\ sPedidos' = [sPedidos EXCEPT ![p] = row] /\ sUsuarios[u].versao < MaxVersao
      /\ sUsuarios' = [sUsuarios EXCEPT ![u].versao = sUsuarios[u].versao + 1] /\ UNCHANGED <<sSessoes, sLinks>>
  BY DEF S!ForcarSaida, S!Comecar
<1> HIDE DEF row
<1>3. UmPedidoSessoes(p, row)
  BY <1>1, <1>2 DEF UmPedidoSessoes
<1>4. sPedidos'[p] = row /\ \A w \in Titulares : Revogando(w) => Revogando(w)'
  BY <1>3, PedidoMudaSessoes
<1>5. Revogando(u)'
  BY <1>1, <1>4 DEF Revogando
<1>6. Poupa({}) /\ sUsuarios' \in [Titulares -> S!UsuarioRow]
  BY <1>2, <1>4, <1>5, NovaVersao
<1> QED BY <1>2, <1>6, PassoComecarSessoes DEF S!ForcarSaida

LEMMA PassoRedefinir ==
  ASSUME IndInvSessoes, NEW p \in Pedidos, S!Redefinir(p)
  PROVE  IndInvSessoes'
<1> DEFINE row == [sPedidos[p] EXCEPT !.pc = "revogar"]
           u == sPedidos[p].usuario
<1>1. row \in S!PedidoRow /\ row.pc = "revogar" /\ row.usuario = u
  BY DEF IndInvSessoes, S!TypeOK, S!PedidoRow
<1>2. sPedidos[p].pc = "redefinir" /\ sPedidos' = [sPedidos EXCEPT ![p] = row] /\ UNCHANGED <<sSessoes, sLinks>>
  BY DEF S!Redefinir, S!Seguir
<1>3. u \in Titulares
  BY <1>2 DEF IndInvSessoes, Donos
<1> HIDE DEF row
<1>4. UmPedidoSessoes(p, row)
  BY <1>1, <1>2, <1>3 DEF UmPedidoSessoes
<1>5. sPedidos'[p] = row /\ \A w \in Titulares : Revogando(w) => Revogando(w)'
  BY <1>4, PedidoMudaSessoes
<1>6. Revogando(u)' /\ AberturaFirme(p)'
  <2>1. sPedidos'[p].usuario = u /\ sPedidos'[p].pc = "revogar"
    BY <1>1, <1>5
  <2>2. \A x \in Titulares : sPedidos'[p].usuario = x => Revogando(x)'
    BY <2>1 DEF Revogando
  <2>3. PICK x \in Titulares : x = u
    BY <1>3
  <2>4. Revogando(x)'
    BY <2>1, <2>2, <2>3
  <2> QED BY <2>1, <2>3, <2>4 DEF AberturaFirme, Abrindo
<1>7. Poupa({}) /\ sUsuarios' \in [Titulares -> S!UsuarioRow]
  <2>1. CASE UNCHANGED sUsuarios
    BY <2>1, <1>4, UsuariosIguais DEF IndInvSessoes, S!TypeOK
  <2>2. CASE sUsuarios' # sUsuarios
    <3>1. sUsuarios[u].versao < MaxVersao /\ sUsuarios' = [sUsuarios EXCEPT ![u].versao = sUsuarios[u].versao + 1]
      BY <2>2 DEF S!Redefinir
    <3> HIDE DEF u
    <3>2. PICK x \in Titulares : x = u
      BY <1>3
    <3>3. sUsuarios[x].versao < MaxVersao /\ sUsuarios' = [sUsuarios EXCEPT ![x].versao = sUsuarios[x].versao + 1]
      BY <3>1, <3>2
    <3>4. \A y \in Titulares : y = sPedidos'[p].usuario => Revogando(y)'
      BY <1>1, <1>5 DEF Revogando
    <3>5. Revogando(x)'
      BY <3>2, <3>4, <1>1, <1>5
    <3> QED BY <3>3, <3>5, <1>5, NovaVersao
  <2> QED BY <2>1, <2>2
<1> QED BY <1>1, <1>2, <1>4, <1>6, <1>7, Neutro

-----------------------------------------------------------------------------
(* Links. *)

LEMMA PassoLinks ==
  ASSUME IndInvSessoes, NEW p \in Pedidos, NEW row, UmPedidoSessoes(p, row), row.pc \notin {"girar", "emitir"},
         sLinks' \in [Links -> S!LinkRow], UNCHANGED <<sUsuarios, sSessoes>>, LinksFirmes'
  PROVE  IndInvSessoes'
<1>1. /\ sPedidos' \in [Pedidos -> S!PedidoRow] /\ sPedidos'[p] = row
      /\ \A q \in Pedidos : sPedidos'[q].pc # "livre" => sPedidos'[q].usuario \in Titulares
      /\ \A q \in Pedidos \ {p} : AberturaFica(q, {})
  BY PedidoMudaSessoes
<1>2. Poupa({})
  BY UsuariosIguais
<1>3. S!TypeOK' /\ Donos'
  BY <1>1 DEF IndInvSessoes, S!TypeOK, Donos
<1>4. \A s \in Sessoes : SessaoFirme(s)'
  <2>1. \A s \in Sessoes : SessaoFica(s, {})
    BY DEF SessaoFica
  <2> QED BY <2>1, <1>2, SessaoSegue
<1>5. \A q \in Pedidos : AberturaFirme(q)'
  <2>1. AberturaFica(p, {})
    BY <1>1 DEF AberturaFica, Abrindo
  <2> QED BY <2>1, <1>1, <1>2, AberturaSegue
<1> QED BY <1>3, <1>4, <1>5 DEF IndInvSessoes

LEMMA PassoInvalidar ==
  ASSUME IndInvSessoes, NEW p \in Pedidos, S!InvalidarLinks(p)
  PROVE  IndInvSessoes'
<1> DEFINE row == [sPedidos[p] EXCEPT !.pc = "gravar"]
           u == sPedidos[p].usuario
<1>1. row \in S!PedidoRow /\ row.pc = "gravar" /\ row.usuario = u
  BY DEF IndInvSessoes, S!TypeOK, S!PedidoRow
<1>2. sPedidos[p].pc = "invalidar" /\ sPedidos' = [sPedidos EXCEPT ![p] = row] /\ UNCHANGED <<sUsuarios, sSessoes>>
      /\ sLinks' = S!Invalidados(u)
  BY DEF S!InvalidarLinks, S!Seguir
<1> HIDE DEF row
<1>3. UmPedidoSessoes(p, row)
  BY <1>1, <1>2 DEF UmPedidoSessoes, IndInvSessoes, Donos
<1>4. sPedidos'[p] = row /\ \A q \in Pedidos \ {p} : sPedidos'[q] = sPedidos[q]
  BY <1>3, PedidoMudaSessoes
<1> HIDE DEF u
<1>5. /\ sLinks' \in [Links -> S!LinkRow]
      /\ \A l \in Links : /\ sLinks'[l].dono = sLinks[l].dono /\ sLinks'[l].paralelo = sLinks[l].paralelo
                          /\ sLinks'[l].usado = (sLinks[l].usado \/ sLinks[l].dono = u)
  BY <1>2 DEF IndInvSessoes, S!TypeOK, S!LinkRow, S!Invalidados
<1>6. LinksFirmes'
  <2>1. \A w \in Titulares \ {u} : Gravando(w)' => Gravando(w)
    BY <1>1, <1>4 DEF Gravando
  <2>2. \A l \in Links, w \in Titulares : Utilizavel(l, w)' => Utilizavel(l, w) /\ w # u
    BY <1>5 DEF Utilizavel
  <2> QED BY <2>1, <2>2, <1>5 DEF IndInvSessoes, LinksFirmes
<1> QED BY <1>1, <1>2, <1>3, <1>5, <1>6, PassoLinks

LEMMA PassoGravarLink ==
  ASSUME IndInvSessoes, NEW p \in Pedidos, NEW l \in Links, S!GravarLink(p, l)
  PROVE  IndInvSessoes'
<1>0. sPedidos[p].usuario \in Titulares
  BY DEF S!GravarLink, S!Terminar, IndInvSessoes, Donos
<1>2. PICK u \in Titulares : u = sPedidos[p].usuario
  BY <1>0
<1>a. PICK outro \in BOOLEAN : outro = (S!EmCurso(u, "gravar") # {p})
  OBVIOUS
<1> DEFINE novo == [dono |-> u, usado |-> FALSE, paralelo |-> outro]
<1>1. sPedidos[p].pc = "gravar" /\ sPedidos' = [sPedidos EXCEPT ![p] = S!Livre] /\ UNCHANGED <<sUsuarios, sSessoes>>
      /\ sLinks' = [sLinks EXCEPT ![l] = novo]
  BY <1>2, <1>a DEF S!GravarLink, S!Terminar
<1>3. UmPedidoSessoes(p, S!Livre)
  BY <1>1, LivreTipoSessoes DEF UmPedidoSessoes
<1>4. sPedidos'[p] = S!Livre /\ \A q \in Pedidos \ {p} : sPedidos'[q] = sPedidos[q]
  BY <1>3, PedidoMudaSessoes
<1>5. Gravando(u)
  BY <1>1, <1>2 DEF Gravando
<1>6. outro \in BOOLEAN /\ (outro \/ \A q \in Pedidos : sPedidos[q].usuario = u /\ sPedidos[q].pc = "gravar" => q = p)
  BY <1>1, <1>a DEF S!EmCurso
<1>7. novo \in S!LinkRow /\ novo.dono = u /\ novo.usado = FALSE /\ novo.paralelo = outro
  BY <1>2, <1>6 DEF S!LinkRow
<1> HIDE DEF novo
<1>8. sLinks' \in [Links -> S!LinkRow] /\ sLinks'[l] = novo /\ \A m \in Links \ {l} : sLinks'[m] = sLinks[m]
  BY <1>1, <1>7 DEF IndInvSessoes, S!TypeOK
<1>9. LinksFirmes'
  <2>1. \A w \in Titulares : Gravando(w)' => Gravando(w) /\ (w = u => outro)
    BY <1>4, <1>6, LivreTipoSessoes DEF Gravando
  <2>2. \A m \in Links \ {l}, w \in Titulares :
          Utilizavel(m, w)' => Utilizavel(m, w) /\ sLinks'[m].paralelo = sLinks[m].paralelo
    BY <1>8 DEF Utilizavel
  <2>3. \A m \in Links \ {l} : Utilizavel(m, u)' => sLinks'[m].paralelo
    BY <2>2, <1>2, <1>5 DEF IndInvSessoes, LinksFirmes
  <2>4. \A w \in Titulares : Utilizavel(l, w)' => w = u /\ sLinks'[l].paralelo = outro
    BY <1>7, <1>8 DEF Utilizavel
  <2>5. ASSUME NEW w \in Titulares, Gravando(w)', NEW m \in Links, Utilizavel(m, w)'
        PROVE  sLinks'[m].paralelo
    <3>1. CASE m = l
      BY <3>1, <2>1, <2>4, <2>5
    <3>2. CASE m # l
      BY <3>2, <2>1, <2>2, <2>5 DEF IndInvSessoes, LinksFirmes
    <3> QED BY <3>1, <3>2
  <2>6. ASSUME NEW w \in Titulares, NEW m \in Links, NEW n \in Links, Utilizavel(m, w)', Utilizavel(n, w)', m # n
        PROVE  sLinks'[m].paralelo \/ sLinks'[n].paralelo
    <3>1. CASE m = l \/ n = l
      BY <3>1, <2>3, <2>4, <2>6
    <3>2. CASE m # l /\ n # l
      BY <3>2, <2>2, <2>6 DEF IndInvSessoes, LinksFirmes
    <3> QED BY <3>1, <3>2
  <2> QED BY <2>5, <2>6 DEF LinksFirmes
<1> QED BY <1>1, <1>3, <1>8, <1>9, LivreTipoSessoes, PassoLinks

LEMMA PassoUsarLink ==
  ASSUME IndInvSessoes, NEW p \in Pedidos, NEW l \in Links, S!UsarLink(p, l)
  PROVE  IndInvSessoes'
<1> DEFINE u == sLinks[l].dono
           row == [S!Livre EXCEPT !.pc = "redefinir", !.usuario = u]
<1>1. u \in Titulares
  BY DEF S!UsarLink, IndInvSessoes, S!TypeOK, S!LinkRow
<1>2. row \in S!PedidoRow /\ row.pc = "redefinir" /\ row.usuario = u
  BY <1>1, LivreCom
<1>3. sPedidos[p].pc = "livre" /\ sPedidos' = [sPedidos EXCEPT ![p] = row] /\ UNCHANGED <<sUsuarios, sSessoes>>
      /\ sLinks' = [sLinks EXCEPT ![l].usado = TRUE]
  BY DEF S!UsarLink, S!Comecar
<1> HIDE DEF row, u
<1>4. UmPedidoSessoes(p, row)
  BY <1>1, <1>2, <1>3 DEF UmPedidoSessoes
<1>5. sPedidos'[p] = row /\ \A q \in Pedidos \ {p} : sPedidos'[q] = sPedidos[q]
  BY <1>4, PedidoMudaSessoes
<1>6. /\ sLinks' \in [Links -> S!LinkRow]
      /\ \A m \in Links : /\ sLinks'[m].dono = sLinks[m].dono /\ sLinks'[m].paralelo = sLinks[m].paralelo
                          /\ ~sLinks'[m].usado => ~sLinks[m].usado
  BY <1>3 DEF IndInvSessoes, S!TypeOK, S!LinkRow
<1>7. LinksFirmes'
  <2>1. \A w \in Titulares : Gravando(w)' => Gravando(w)
    BY <1>2, <1>5 DEF Gravando
  <2>2. \A m \in Links, w \in Titulares : Utilizavel(m, w)' => Utilizavel(m, w)
    BY <1>6 DEF Utilizavel
  <2> QED BY <2>1, <2>2, <1>6 DEF IndInvSessoes, LinksFirmes
<1> QED BY <1>2, <1>3, <1>4, <1>6, <1>7, PassoLinks

-----------------------------------------------------------------------------
(* What ends the sessions of some users. *)

LEMMA Revogam ==
  ASSUME IndInvSessoes, NEW quem \in SUBSET Titulares, sSessoes' = S!Revogadas(quem)
  PROVE  /\ sSessoes' \in [Sessoes -> S!SessaoRow]
         /\ \A s \in Sessoes : SessaoFica(s, quem) /\ (sSessoes'[s].valida => sSessoes'[s].dono \in Titulares)
<1>1. /\ sSessoes' \in [Sessoes -> S!SessaoRow]
      /\ \A s \in Sessoes : /\ sSessoes'[s].dono = sSessoes[s].dono /\ sSessoes'[s].versao = sSessoes[s].versao
                            /\ sSessoes'[s].tardia = sSessoes[s].tardia
                            /\ sSessoes'[s].valida => sSessoes[s].valida /\ sSessoes[s].dono \notin quem
  BY DEF S!Revogadas, IndInvSessoes, S!TypeOK, S!SessaoRow
<1> QED BY <1>1 DEF SessaoFica, IndInvSessoes, Donos

(* The rows of the requests that are late now; they keep what they do. *)
LEMMA Atrasam ==
  ASSUME IndInvSessoes, NEW quem \in SUBSET Titulares
  PROVE  /\ S!Atrasados(quem) \in [Pedidos -> S!PedidoRow]
         /\ \A q \in Pedidos : LET d == S!Atrasados(quem)[q] IN
              /\ d.pc = sPedidos[q].pc /\ d.usuario = sPedidos[q].usuario /\ d.versao = sPedidos[q].versao
              /\ d.pc \in {"girar", "emitir"} /\ ~d.tardio => ~sPedidos[q].tardio /\ d.usuario \notin quem
BY DEF S!Atrasados, IndInvSessoes, S!TypeOK, S!PedidoRow

(* The requests go on, late or not, but for those of livres, which end or begin anew. *)
EncerraSessoes(quem, livres) ==
  /\ sPedidos' \in [Pedidos -> S!PedidoRow]
  /\ \A q \in Pedidos \ livres : /\ sPedidos'[q].pc = sPedidos[q].pc /\ sPedidos'[q].usuario = sPedidos[q].usuario
                                 /\ AberturaFica(q, quem)
  /\ \A q \in livres : /\ sPedidos'[q].pc \in {"livre", "desativar"}
                       /\ sPedidos'[q].pc # "livre" => sPedidos'[q].usuario \in Titulares

LEMMA PassoEncerra ==
  ASSUME IndInvSessoes, NEW quem \in SUBSET Titulares, NEW livres \in SUBSET Pedidos, EncerraSessoes(quem, livres),
         \A q \in livres : sPedidos[q].pc = "revogar" => sPedidos[q].usuario \in quem,
         sUsuarios' \in [Titulares -> S!UsuarioRow],
         \A u \in Titulares \ quem : sUsuarios'[u] = sUsuarios[u],
         sSessoes' \in [Sessoes -> S!SessaoRow],
         \A s \in Sessoes : SessaoFica(s, quem) /\ (sSessoes'[s].valida => sSessoes'[s].dono \in Titulares),
         UNCHANGED sLinks
  PROVE  IndInvSessoes'
<1>1. S!TypeOK' /\ Donos'
  BY DEF IndInvSessoes, S!TypeOK, Donos, EncerraSessoes
<1>2. Poupa(quem)
  <2>1. \A u \in Titulares \ quem : Revogando(u) => Revogando(u)'
    BY DEF Revogando, EncerraSessoes
  <2> QED BY <2>1 DEF Poupa, FirmeSessoes
<1>3. \A s \in Sessoes : SessaoFirme(s)'
  BY <1>2, SessaoSegue
<1>4. \A q \in Pedidos : AberturaFirme(q)'
  <2>1. \A q \in livres : AberturaFica(q, quem)
    BY DEF EncerraSessoes, AberturaFica, Abrindo
  <2>2. \A q \in Pedidos : AberturaFica(q, quem)
    BY <2>1 DEF EncerraSessoes
  <2> QED BY <2>2, <1>2, AberturaSegue
<1>5. LinksFirmes'
  <2>1. \A u \in Titulares : Gravando(u)' => Gravando(u)
    BY DEF Gravando, EncerraSessoes
  <2> QED BY <2>1 DEF IndInvSessoes, LinksFirmes, Utilizavel
<1> QED BY <1>1, <1>3, <1>4, <1>5 DEF IndInvSessoes

(* All requests, late where they are of quem, with one row in addition. *)
LEMMA EncerraTodos ==
  ASSUME IndInvSessoes, NEW quem \in SUBSET Titulares, sPedidos' = S!Atrasados(quem)
  PROVE  EncerraSessoes(quem, {})
BY Atrasam DEF EncerraSessoes, AberturaFica, Abrindo

LEMMA EncerraUm ==
  ASSUME IndInvSessoes, NEW quem \in SUBSET Titulares, NEW p \in Pedidos, NEW row \in S!PedidoRow,
         sPedidos' = [S!Atrasados(quem) EXCEPT ![p] = row], row.pc \in {"livre", "desativar"},
         row.pc # "livre" => row.usuario \in Titulares
  PROVE  EncerraSessoes(quem, {p})
<1>1. /\ S!Atrasados(quem) \in [Pedidos -> S!PedidoRow]
      /\ \A q \in Pedidos : LET d == S!Atrasados(quem)[q] IN
           /\ d.pc = sPedidos[q].pc /\ d.usuario = sPedidos[q].usuario /\ d.versao = sPedidos[q].versao
           /\ d.pc \in {"girar", "emitir"} /\ ~d.tardio => ~sPedidos[q].tardio /\ d.usuario \notin quem
  BY Atrasam
<1>2. /\ sPedidos' \in [Pedidos -> S!PedidoRow] /\ sPedidos'[p] = row
      /\ \A q \in Pedidos \ {p} : sPedidos'[q] = S!Atrasados(quem)[q]
  BY <1>1
<1> QED BY <1>1, <1>2 DEF EncerraSessoes, AberturaFica, Abrindo

LEMMA PassoSair ==
  ASSUME IndInvSessoes, NEW u \in Titulares, S!Sair(u)
  PROVE  IndInvSessoes'
<1>1. EncerraSessoes({u}, {})
  BY EncerraTodos DEF S!Sair
<1>2. /\ sSessoes' \in [Sessoes -> S!SessaoRow]
      /\ \A s \in Sessoes : SessaoFica(s, {u}) /\ (sSessoes'[s].valida => sSessoes'[s].dono \in Titulares)
  BY Revogam DEF S!Sair
<1>3. UNCHANGED <<sUsuarios, sLinks>> /\ {u} \in SUBSET Titulares /\ sUsuarios \in [Titulares -> S!UsuarioRow]
  BY DEF S!Sair, IndInvSessoes, S!TypeOK
<1>4. {} \in SUBSET Pedidos /\ \A q \in {} : sPedidos[q].pc = "revogar" => sPedidos[q].usuario \in {u}
  OBVIOUS
<1>5. \A w \in Titulares \ {u} : sUsuarios'[w] = sUsuarios[w]
  BY <1>3
<1> QED BY <1>1, <1>2, <1>3, <1>4, <1>5, PassoEncerra

LEMMA PassoRevogarSessoes ==
  ASSUME IndInvSessoes, NEW p \in Pedidos, S!Revogar(p)
  PROVE  IndInvSessoes'
<1> DEFINE u == sPedidos[p].usuario
<1>1. /\ sPedidos[p].pc = "revogar" /\ sPedidos' = [S!Atrasados({u}) EXCEPT ![p] = S!Livre]
      /\ sSessoes' = S!Revogadas({u}) /\ UNCHANGED <<sUsuarios, sLinks>>
  BY DEF S!Revogar
<1>2. {u} \in SUBSET Titulares
  BY <1>1 DEF IndInvSessoes, Donos
<1>3. EncerraSessoes({u}, {p})
  BY <1>1, <1>2, LivreTipoSessoes, EncerraUm
<1>4. /\ sSessoes' \in [Sessoes -> S!SessaoRow]
      /\ \A s \in Sessoes : SessaoFica(s, {u}) /\ (sSessoes'[s].valida => sSessoes'[s].dono \in Titulares)
  BY <1>1, <1>2, Revogam
<1>5. sUsuarios \in [Titulares -> S!UsuarioRow] /\ {p} \in SUBSET Pedidos
  BY DEF IndInvSessoes, S!TypeOK
<1>6. \A q \in {p} : sPedidos[q].pc = "revogar" => sPedidos[q].usuario \in {u}
  OBVIOUS
<1> HIDE DEF u
<1> QED BY <1>1, <1>2, <1>3, <1>4, <1>5, <1>6, PassoEncerra

LEMMA PassoDesativar ==
  ASSUME IndInvSessoes, NEW p \in Pedidos, NEW u \in Titulares, S!Desativar(p, u)
  PROVE  IndInvSessoes'
<1> DEFINE row == [S!Livre EXCEPT !.pc = "desativar", !.usuario = u]
<1>1. row \in S!PedidoRow /\ row.pc = "desativar" /\ row.usuario = u
  BY LivreCom
<1>2. /\ sPedidos[p].pc = "livre" /\ sPedidos' = [S!Atrasados({u}) EXCEPT ![p] = row]
      /\ sSessoes' = S!Revogadas({u}) /\ UNCHANGED <<sUsuarios, sLinks>>
  BY DEF S!Desativar
<1> HIDE DEF row
<1>3. EncerraSessoes({u}, {p})
  BY <1>1, <1>2, EncerraUm
<1>4. /\ sSessoes' \in [Sessoes -> S!SessaoRow]
      /\ \A s \in Sessoes : SessaoFica(s, {u}) /\ (sSessoes'[s].valida => sSessoes'[s].dono \in Titulares)
  BY <1>2, Revogam
<1>5. sUsuarios \in [Titulares -> S!UsuarioRow] /\ {p} \in SUBSET Pedidos /\ {u} \in SUBSET Titulares
  BY DEF IndInvSessoes, S!TypeOK
<1>6. \A q \in {p} : sPedidos[q].pc = "revogar" => sPedidos[q].usuario \in {u}
  BY <1>2
<1> QED BY <1>2, <1>3, <1>4, <1>5, <1>6, PassoEncerra

LEMMA PassoConcluir ==
  ASSUME IndInvSessoes, NEW p \in Pedidos, S!ConcluirDesativacao(p)
  PROVE  IndInvSessoes'
<1> DEFINE u == sPedidos[p].usuario
<1>1. /\ sPedidos[p].pc = "desativar" /\ sPedidos' = [S!Atrasados({u}) EXCEPT ![p] = S!Livre]
      /\ sUsuarios' = [sUsuarios EXCEPT ![u].ativo = FALSE] /\ UNCHANGED sLinks
      /\ sSessoes' = [s \in Sessoes |->
           IF sSessoes[s].dono = u THEN [sSessoes[s] EXCEPT !.tardia = sSessoes[s].valida] ELSE sSessoes[s]]
  BY DEF S!ConcluirDesativacao
<1>2. {u} \in SUBSET Titulares
  BY <1>1 DEF IndInvSessoes, Donos
<1>3. EncerraSessoes({u}, {p})
  BY <1>1, <1>2, LivreTipoSessoes, EncerraUm
<1>4. /\ sSessoes' \in [Sessoes -> S!SessaoRow]
      /\ \A s \in Sessoes : SessaoFica(s, {u}) /\ (sSessoes'[s].valida => sSessoes'[s].dono \in Titulares)
  <2>1. /\ sSessoes' \in [Sessoes -> S!SessaoRow]
        /\ \A s \in Sessoes :
             /\ sSessoes'[s].dono = sSessoes[s].dono /\ sSessoes'[s].versao = sSessoes[s].versao
             /\ sSessoes'[s].valida = sSessoes[s].valida
             /\ IF sSessoes[s].dono = u THEN sSessoes'[s].tardia = sSessoes[s].valida
                ELSE sSessoes'[s].tardia = sSessoes[s].tardia
    BY <1>1 DEF IndInvSessoes, S!TypeOK, S!SessaoRow
  <2> QED BY <2>1 DEF SessaoFica, IndInvSessoes, Donos
<1>5. /\ sUsuarios' \in [Titulares -> S!UsuarioRow] /\ \A w \in Titulares \ {u} : sUsuarios'[w] = sUsuarios[w]
      /\ {p} \in SUBSET Pedidos
  BY <1>1, <1>2 DEF IndInvSessoes, S!TypeOK, S!UsuarioRow
<1>6. \A q \in {p} : sPedidos[q].pc = "revogar" => sPedidos[q].usuario \in {u}
  OBVIOUS
<1> HIDE DEF u
<1> QED BY <1>1, <1>2, <1>3, <1>4, <1>5, <1>6, PassoEncerra

LEMMA PassoReativar ==
  ASSUME IndInvSessoes, NEW u \in Titulares, S!Reativar(u)
  PROVE  IndInvSessoes'
<1>1. sUsuarios' = [sUsuarios EXCEPT ![u].ativo = TRUE] /\ UNCHANGED <<sSessoes, sLinks, sPedidos>>
  BY DEF S!Reativar
<1>2. /\ sUsuarios' \in [Titulares -> S!UsuarioRow]
      /\ \A w \in Titulares : sUsuarios'[w].versao = sUsuarios[w].versao /\ (sUsuarios[w].ativo => sUsuarios'[w].ativo)
  BY <1>1 DEF IndInvSessoes, S!TypeOK, S!UsuarioRow
<1>3. Poupa({})
  BY <1>1, <1>2 DEF Poupa, FirmeSessoes, Revogando
<1>4. S!TypeOK' /\ Donos' /\ LinksFirmes'
  BY <1>1, <1>2 DEF IndInvSessoes, S!TypeOK, Donos, LinksFirmes, Gravando, Utilizavel
<1>5. \A s \in Sessoes : SessaoFica(s, {})
  BY <1>1 DEF SessaoFica
<1>6. \A q \in Pedidos : AberturaFica(q, {})
  BY <1>1 DEF AberturaFica, Abrindo
<1> QED BY <1>3, <1>4, <1>5, <1>6, SessaoSegue, AberturaSegue DEF IndInvSessoes

LEMMA PassoUnidadeSessoes ==
  ASSUME IndInvSessoes, NEW ativo \in BOOLEAN, S!MudarUnidade(ativo)
  PROVE  IndInvSessoes'
<1>1. sUsuarios' = [u \in Titulares |-> [sUsuarios[u] EXCEPT !.ativo = ativo]] /\ UNCHANGED sLinks
  BY DEF S!MudarUnidade
<1>2. /\ sUsuarios' \in [Titulares -> S!UsuarioRow]
      /\ \A w \in Titulares : sUsuarios'[w].versao = sUsuarios[w].versao /\ sUsuarios'[w].ativo = ativo
  BY <1>1 DEF IndInvSessoes, S!TypeOK, S!UsuarioRow
<1>3. CASE ativo
  <2>1. UNCHANGED <<sSessoes, sPedidos>>
    BY <1>3 DEF S!MudarUnidade
  <2>2. Poupa({})
    BY <2>1, <1>2, <1>3 DEF Poupa, FirmeSessoes, Revogando
  <2>3. S!TypeOK' /\ Donos' /\ LinksFirmes'
    BY <1>1, <1>2, <2>1 DEF IndInvSessoes, S!TypeOK, Donos, LinksFirmes, Gravando, Utilizavel
  <2>4. \A s \in Sessoes : SessaoFica(s, {})
    BY <2>1 DEF SessaoFica
  <2>5. \A q \in Pedidos : AberturaFica(q, {})
    BY <2>1 DEF AberturaFica, Abrindo
  <2> QED BY <2>2, <2>3, <2>4, <2>5, SessaoSegue, AberturaSegue DEF IndInvSessoes
<1>4. CASE ~ativo
  <2>1. sSessoes' = S!Revogadas(Titulares) /\ sPedidos' = S!Atrasados(Titulares)
    BY <1>4 DEF S!MudarUnidade
  <2>2. EncerraSessoes(Titulares, {})
    BY <2>1, EncerraTodos
  <2>3. /\ sSessoes' \in [Sessoes -> S!SessaoRow]
        /\ \A s \in Sessoes : SessaoFica(s, Titulares) /\ (sSessoes'[s].valida => sSessoes'[s].dono \in Titulares)
    BY <2>1, Revogam
  <2>4. {} \in SUBSET Pedidos /\ \A q \in {} : sPedidos[q].pc = "revogar" => sPedidos[q].usuario \in Titulares
    OBVIOUS
  <2>5. \A w \in Titulares \ Titulares : sUsuarios'[w] = sUsuarios[w]
    OBVIOUS
  <2>6. Titulares \in SUBSET Titulares
    OBVIOUS
  <2> QED BY <1>1, <1>2, <2>2, <2>3, <2>4, <2>5, <2>6, PassoEncerra
<1> QED BY <1>3, <1>4

LEMMA PassoNextSessoes == IndInvSessoes /\ [S!Next]_sessoes => IndInvSessoes'
<1> SUFFICES ASSUME IndInvSessoes, [S!Next]_sessoes PROVE IndInvSessoes'
  OBVIOUS
<1>1. ASSUME NEW p \in Pedidos, NEW u \in Titulares, S!Entrar(p, u) \/ S!ForcarSaida(p, u) \/ S!Desativar(p, u)
      PROVE  IndInvSessoes'
  BY <1>1, PassoEntrar, PassoForcarSaida, PassoDesativar
<1>2. ASSUME NEW p \in Pedidos, NEW u \in Titulares, S!TrocarSenha(p, u) \/ S!PedirLink(p, u)
      PROVE  IndInvSessoes'
  BY <1>2, PassoComecarSessoes DEF S!TrocarSenha, S!PedirLink, IndInvSessoes, S!TypeOK
<1>3. ASSUME NEW p \in Pedidos, NEW s \in Sessoes, S!Emitir(p, s) \/ S!LerRenovacao(p, s) PROVE IndInvSessoes'
  BY <1>3, PassoEmitirSessoes, PassoLerRenovacao
<1>4. ASSUME NEW p \in Pedidos, NEW l \in Links, S!GravarLink(p, l) \/ S!UsarLink(p, l) PROVE IndInvSessoes'
  BY <1>4, PassoGravarLink, PassoUsarLink
<1>5. ASSUME NEW p \in Pedidos,
             S!Girar(p) \/ S!Revogar(p) \/ S!InvalidarLinks(p) \/ S!Redefinir(p) \/ S!ConcluirDesativacao(p)
      PROVE  IndInvSessoes'
  BY <1>5, PassoGirar, PassoRevogarSessoes, PassoInvalidar, PassoRedefinir, PassoConcluir
<1>6. ASSUME NEW u \in Titulares, S!Sair(u) \/ S!Reativar(u) PROVE IndInvSessoes'
  BY <1>6, PassoSair, PassoReativar
<1>7. ASSUME NEW ativo \in BOOLEAN, S!MudarUnidade(ativo) PROVE IndInvSessoes'
  BY <1>7, PassoUnidadeSessoes
<1>8. CASE UNCHANGED sessoes
  <2>1. UNCHANGED <<sUsuarios, sSessoes, sLinks, sPedidos>>
    BY <1>8 DEF sessoes
  <2>2. Poupa({})
    BY <2>1 DEF Poupa, FirmeSessoes, Revogando
  <2>3. S!TypeOK' /\ Donos' /\ LinksFirmes'
    BY <2>1 DEF IndInvSessoes, S!TypeOK, Donos, LinksFirmes, Gravando, Utilizavel
  <2>4. \A s \in Sessoes : SessaoFica(s, {})
    BY <2>1 DEF SessaoFica
  <2>5. \A q \in Pedidos : AberturaFica(q, {})
    BY <2>1 DEF AberturaFica, Abrindo
  <2> QED BY <2>2, <2>3, <2>4, <2>5, SessaoSegue, AberturaSegue DEF IndInvSessoes
<1> QED BY <1>1, <1>2, <1>3, <1>4, <1>5, <1>6, <1>7, <1>8 DEF S!Next

LEMMA SpecInvSessoes == S!Spec => []IndInvSessoes
<1>1. IndInvSessoes /\ [S!Next]_(S!vars) => IndInvSessoes'
  BY PassoNextSessoes DEF sessoes, S!vars
<1> QED BY InitInvSessoes, <1>1, PTL DEF S!Spec

LEMMA InvPropsSessoes == IndInvSessoes => S!TypeOK /\ S!SessaoValida /\ S!LinkUnico
<1> SUFFICES ASSUME IndInvSessoes PROVE S!TypeOK /\ S!SessaoValida /\ S!LinkUnico
  OBVIOUS
<1>1. S!SessaoValida
  BY DEF IndInvSessoes, SessaoFirme, FirmeSessoes, Revogando, S!SessaoValida, S!VersaoAtual, S!EmCurso
<1>2. S!LinkUnico
  BY NuloForaSessoes DEF IndInvSessoes, S!TypeOK, S!LinkRow, LinksFirmes, Utilizavel, S!LinkUnico
<1> QED BY <1>1, <1>2 DEF IndInvSessoes

(* For every number of users, sessions, links and requests: a session that can still be    *)
(* renewed has the version of its user or a revocation on its way, and two links to set a  *)
(* password are usable at once only if they were asked for side by side.                   *)
THEOREM SessoesCorrect == S!Spec => []SessoesEmOrdem
<1>1. IndInvSessoes => SessoesEmOrdem
  BY InvPropsSessoes DEF SessoesEmOrdem
<1> QED BY SpecInvSessoes, <1>1, PTL

-----------------------------------------------------------------------------
(* The requests for a cabine. *)

LEMMA HorariosTipo == Horarios \subseteq Nat \X Nat
BY EntornoConstantes DEF EntornoAssumption

(* A row that exists has hours, and a request in flight has what it has read: hours of   *)
(* its own, or a row.                                                                    *)
LinhaComHorario == \A r \in Solicitacoes : rSolicitacoes[r].status # "ausente" => rSolicitacoes[r].horario \in Horarios

PedidoCoerente ==
  \A p \in Pedidos :
    /\ R!EmCurso(p, {"solicitar", "agendar", "aprovar"}) => rPedidos[p].horario \in Horarios
    /\ R!EmCurso(p, {"aprovar", "recusar"}) => /\ rPedidos[p].alvo \in Solicitacoes
                                               /\ rSolicitacoes[rPedidos[p].alvo].status # "ausente"

(* The lock: what an approval has read stays pending until it writes, and is its own. *)
AprovacaoCoerente ==
  /\ \A p \in Pedidos : R!EmCurso(p, {"aprovar"}) =>
       /\ rSolicitacoes[rPedidos[p].alvo].status = "pendente"
       /\ rSolicitacoes[rPedidos[p].alvo].horario = rPedidos[p].horario
  /\ \A p, q \in Pedidos :
       R!EmCurso(p, {"aprovar"}) /\ R!EmCurso(q, {"aprovar"}) /\ rPedidos[p].alvo = rPedidos[q].alvo => p = q

(* A refusal in flight on an approved row had read it before the approval. *)
RecusaCoerente ==
  /\ \A r \in Solicitacoes : rSolicitacoes[r].status \in {"ausente", "pendente"} => ~rSolicitacoes[r].aprovada
  /\ \A r \in Solicitacoes :
       rSolicitacoes[r].status = "recusada" /\ rSolicitacoes[r].aprovada => rSolicitacoes[r].disputada
  /\ \A p \in Pedidos : LET r == rPedidos[p].alvo IN
       R!EmCurso(p, {"recusar"}) /\ rSolicitacoes[r].status = "aprovada" => rSolicitacoes[r].disputada

(* Approved, and no other approval was in flight. *)
FirmeReservas(r) == rSolicitacoes[r].status = "aprovada" /\ ~rSolicitacoes[r].paralela

(* What is approved and was alone overlaps neither another such row nor what an approval *)
(* in flight has checked.                                                                *)
SemSobreposicao ==
  /\ \A r, s \in Solicitacoes :
       r # s /\ FirmeReservas(r) /\ FirmeReservas(s) => ~R!Sobrepoe(rSolicitacoes[r].horario, rSolicitacoes[s].horario)
  /\ \A r \in Solicitacoes, p \in Pedidos :
       FirmeReservas(r) /\ R!EmCurso(p, {"agendar", "aprovar"}) =>
         ~R!Sobrepoe(rSolicitacoes[r].horario, rPedidos[p].horario)

(* The inductive invariant of Reservas. *)
IndInvReservas ==
  /\ R!TypeOK /\ LinhaComHorario /\ PedidoCoerente
  /\ AprovacaoCoerente /\ RecusaCoerente /\ SemSobreposicao

-----------------------------------------------------------------------------
LEMMA InitInvReservas == R!Init => IndInvReservas
BY DEF R!Init, IndInvReservas, R!TypeOK, LinhaComHorario, PedidoCoerente, AprovacaoCoerente, RecusaCoerente,
       SemSobreposicao, FirmeReservas, R!EmCurso, R!SolicitacaoRow, R!PedidoRow, R!Livre

(* One request in flight changes, and nothing else. *)
LEMMA UmPedidoReservas ==
  ASSUME R!TypeOK, NEW p \in Pedidos, NEW row \in R!PedidoRow, rPedidos' = [rPedidos EXCEPT ![p] = row]
  PROVE  /\ rPedidos' \in [Pedidos -> R!PedidoRow] /\ rPedidos'[p] = row
         /\ \A q \in Pedidos \ {p} : rPedidos'[q] = rPedidos[q]
BY DEF R!TypeOK

(* A request is read and begins. *)
LEMMA PassoComecarReservas ==
  ASSUME IndInvReservas, NEW p \in Pedidos, NEW pc \in {"solicitar", "agendar", "aprovar", "recusar"},
         NEW r \in Solicitacoes \cup {NULL}, NEW h \in Horarios \cup {NULL}, R!Comecar(p, pc, r, h),
         pc # "recusar" => h \in Horarios,
         pc \in {"aprovar", "recusar"} => r \in Solicitacoes /\ rSolicitacoes[r].status = "pendente",
         pc = "aprovar" => ~R!Travada(r) /\ rSolicitacoes[r].horario = h,
         pc \in {"agendar", "aprovar"} => ~R!Conflito(h, {"aprovada"})
  PROVE  IndInvReservas'
<1> DEFINE row == [pc |-> pc, alvo |-> r, horario |-> h]
<1>1. row \in R!PedidoRow /\ row.pc = pc /\ row.alvo = r /\ row.horario = h
  BY DEF R!PedidoRow
<1>2. rPedidos' = [rPedidos EXCEPT ![p] = row] /\ UNCHANGED rSolicitacoes
  BY DEF R!Comecar
<1> HIDE DEF row
<1>3. /\ rPedidos' \in [Pedidos -> R!PedidoRow] /\ rPedidos'[p] = row
      /\ \A q \in Pedidos \ {p} : rPedidos'[q] = rPedidos[q]
  BY <1>1, <1>2, UmPedidoReservas DEF IndInvReservas
<1>4. R!TypeOK' /\ LinhaComHorario'
  BY <1>2, <1>3 DEF IndInvReservas, R!TypeOK, LinhaComHorario
<1>5. PedidoCoerente'
  BY <1>1, <1>2, <1>3 DEF IndInvReservas, PedidoCoerente, R!EmCurso
<1>6. AprovacaoCoerente'
  BY <1>1, <1>2, <1>3 DEF IndInvReservas, AprovacaoCoerente, R!EmCurso, R!Travada
<1>7. RecusaCoerente'
  BY <1>1, <1>2, <1>3 DEF IndInvReservas, RecusaCoerente, R!EmCurso
<1>8. \A s \in Solicitacoes : FirmeReservas(s)' <=> FirmeReservas(s)
  BY <1>2 DEF FirmeReservas
<1>9. ASSUME NEW s \in Solicitacoes, NEW q \in Pedidos, FirmeReservas(s), R!EmCurso(q, {"agendar", "aprovar"})'
      PROVE  ~R!Sobrepoe(rSolicitacoes[s].horario, rPedidos'[q].horario)
  <2>1. CASE q = p
    BY <1>1, <1>3, <1>9, <2>1 DEF R!Conflito, FirmeReservas, R!EmCurso
  <2>2. CASE q # p
    BY <1>3, <1>9, <2>2 DEF IndInvReservas, SemSobreposicao, R!EmCurso
  <2> QED BY <2>1, <2>2
<1>10. SemSobreposicao'
  BY <1>2, <1>8, <1>9 DEF IndInvReservas, SemSobreposicao, R!Sobrepoe
<1> QED BY <1>4, <1>5, <1>6, <1>7, <1>10 DEF IndInvReservas

(* A request in flight ends, or none does, and a new row is inserted as pending. *)
LEMMA PassoInserir ==
  ASSUME IndInvReservas, NEW r \in Solicitacoes, NEW h \in Horarios, R!Inserir(r, "pendente", h),
         rPedidos' \in [Pedidos -> R!PedidoRow],
         \A q \in Pedidos : rPedidos'[q] = rPedidos[q] \/ rPedidos'[q].pc = "livre"
  PROVE  IndInvReservas'
<1>1. /\ rSolicitacoes[r].status = "ausente" /\ rSolicitacoes[r] \in R!SolicitacaoRow
      /\ rSolicitacoes' \in [Solicitacoes -> R!SolicitacaoRow]
      /\ rSolicitacoes'[r].status = "pendente" /\ rSolicitacoes'[r].horario = h
      /\ rSolicitacoes'[r].aprovada = rSolicitacoes[r].aprovada
      /\ \A s \in Solicitacoes \ {r} : rSolicitacoes'[s] = rSolicitacoes[s]
  BY DEF R!Inserir, IndInvReservas, R!TypeOK, R!SolicitacaoRow
<1>2. R!TypeOK' /\ LinhaComHorario'
  BY <1>1 DEF IndInvReservas, R!TypeOK, LinhaComHorario
<1>3. \A q \in Pedidos : R!EmCurso(q, {"solicitar", "agendar", "aprovar", "recusar"})' => rPedidos'[q] = rPedidos[q]
  BY DEF R!EmCurso
<1>4. PedidoCoerente'
  BY <1>1, <1>3 DEF IndInvReservas, PedidoCoerente, R!EmCurso
<1>5. AprovacaoCoerente'
  BY <1>1, <1>3 DEF IndInvReservas, PedidoCoerente, AprovacaoCoerente, R!EmCurso
<1>6. RecusaCoerente'
  BY <1>1, <1>3 DEF IndInvReservas, PedidoCoerente, RecusaCoerente, R!EmCurso
<1>7. \A s \in Solicitacoes : FirmeReservas(s)' => FirmeReservas(s) /\ rSolicitacoes'[s] = rSolicitacoes[s]
  BY <1>1 DEF FirmeReservas
<1>8. SemSobreposicao'
  BY <1>3, <1>7 DEF IndInvReservas, SemSobreposicao, R!EmCurso
<1> QED BY <1>2, <1>4, <1>5, <1>6, <1>8 DEF IndInvReservas

(* An approval or a scheduling writes its row. *)
Aprovada(p, r, h, row) ==
  /\ R!EmCurso(p, {"agendar", "aprovar"}) /\ rPedidos[p].horario = h
  /\ rPedidos' = [rPedidos EXCEPT ![p] = R!Livre]
  /\ row \in R!SolicitacaoRow
  /\ rSolicitacoes' = [rSolicitacoes EXCEPT ![r] = row]
  /\ row.status = "aprovada" /\ row.horario = h /\ row.paralela = R!Paralela(p, h)
  /\ \A q \in Pedidos \ {p} : R!EmCurso(q, {"aprovar"}) => rPedidos[q].alvo # r
  /\ \A q \in Pedidos : R!EmCurso(q, {"recusar"}) /\ rPedidos[q].alvo = r => row.disputada

LEMMA PassoAprovada ==
  ASSUME IndInvReservas, NEW p \in Pedidos, NEW r \in Solicitacoes, NEW h \in Horarios, NEW row,
         Aprovada(p, r, h, row)
  PROVE  IndInvReservas'
<1> USE DEF Aprovada
<1>1. R!Livre \in R!PedidoRow /\ R!Livre.pc = "livre"
  BY DEF R!Livre, R!PedidoRow
<1>2. /\ rPedidos' \in [Pedidos -> R!PedidoRow] /\ rPedidos'[p] = R!Livre
      /\ \A q \in Pedidos \ {p} : rPedidos'[q] = rPedidos[q]
  BY <1>1, UmPedidoReservas DEF IndInvReservas
<1>3. /\ rSolicitacoes' \in [Solicitacoes -> R!SolicitacaoRow] /\ rSolicitacoes'[r] = row
      /\ \A s \in Solicitacoes \ {r} : rSolicitacoes'[s] = rSolicitacoes[s]
  BY DEF IndInvReservas, R!TypeOK
<1>4. \A q \in Pedidos : R!EmCurso(q, {"solicitar", "agendar", "aprovar", "recusar"})' =>
        q # p /\ rPedidos'[q] = rPedidos[q]
  BY <1>1, <1>2 DEF R!EmCurso
<1>5. R!TypeOK' /\ LinhaComHorario'
  BY <1>2, <1>3 DEF IndInvReservas, R!TypeOK, LinhaComHorario
<1>6. PedidoCoerente'
  BY <1>3, <1>4 DEF IndInvReservas, PedidoCoerente, R!EmCurso
<1>7. AprovacaoCoerente'
  BY <1>3, <1>4 DEF IndInvReservas, PedidoCoerente, AprovacaoCoerente, R!EmCurso
<1>8. RecusaCoerente'
  <2>1. ASSUME NEW q \in Pedidos, R!EmCurso(q, {"recusar"})', rSolicitacoes'[rPedidos'[q].alvo].status = "aprovada"
        PROVE  rSolicitacoes'[rPedidos'[q].alvo].disputada
    <3>1. rPedidos'[q] = rPedidos[q] /\ R!EmCurso(q, {"recusar"}) /\ rPedidos[q].alvo \in Solicitacoes
      BY <1>4, <2>1 DEF IndInvReservas, PedidoCoerente, R!EmCurso
    <3>2. CASE rPedidos[q].alvo = r
      BY <1>3, <3>1, <3>2
    <3>3. CASE rPedidos[q].alvo # r
      BY <1>3, <2>1, <3>1, <3>3 DEF IndInvReservas, RecusaCoerente
    <3> QED BY <3>2, <3>3
  <2> QED BY <1>3, <2>1 DEF IndInvReservas, RecusaCoerente
<1>9. ASSUME NEW s \in Solicitacoes, s # r, FirmeReservas(s)
      PROVE  ~R!Sobrepoe(rSolicitacoes[s].horario, h) /\ ~R!Sobrepoe(h, rSolicitacoes[s].horario)
  BY <1>9 DEF IndInvReservas, SemSobreposicao, R!Sobrepoe
<1>10. ASSUME NEW q \in Pedidos, R!EmCurso(q, {"agendar", "aprovar"})', FirmeReservas(r)'
       PROVE  ~R!Sobrepoe(h, rPedidos'[q].horario)
  <2>1. q # p /\ rPedidos'[q] = rPedidos[q] /\ R!EmCurso(q, {"agendar", "aprovar"})
    BY <1>4, <1>10 DEF R!EmCurso
  <2>2. ~R!Paralela(p, h)
    BY <1>3, <1>10 DEF FirmeReservas
  <2> QED BY <2>1, <2>2 DEF R!Paralela, R!Sobrepoe
<1>11. SemSobreposicao'
  <2>1. \A s \in Solicitacoes \ {r} : FirmeReservas(s)' <=> FirmeReservas(s)
    BY <1>3 DEF FirmeReservas
  <2>2. ASSUME NEW s \in Solicitacoes, NEW t \in Solicitacoes, s # t, FirmeReservas(s)', FirmeReservas(t)'
        PROVE  ~R!Sobrepoe(rSolicitacoes'[s].horario, rSolicitacoes'[t].horario)
    BY <1>3, <1>9, <2>1, <2>2 DEF IndInvReservas, SemSobreposicao
  <2>3. ASSUME NEW s \in Solicitacoes, NEW q \in Pedidos, FirmeReservas(s)', R!EmCurso(q, {"agendar", "aprovar"})'
        PROVE  ~R!Sobrepoe(rSolicitacoes'[s].horario, rPedidos'[q].horario)
    <3>1. CASE s = r
      BY <1>3, <1>10, <2>3, <3>1
    <3>2. CASE s # r
      BY <1>3, <1>4, <2>1, <2>3, <3>2 DEF IndInvReservas, SemSobreposicao, R!EmCurso
    <3> QED BY <3>1, <3>2
  <2> QED BY <2>2, <2>3 DEF SemSobreposicao, R!Sobrepoe
<1> QED BY <1>5, <1>6, <1>7, <1>8, <1>11 DEF IndInvReservas

LEMMA PassoAgendar ==
  ASSUME IndInvReservas, NEW p \in Pedidos, NEW r \in Solicitacoes, R!Agendar(p, r)
  PROVE  IndInvReservas'
<1> DEFINE h == rPedidos[p].horario
           row == [status |-> "aprovada", horario |-> h, paralela |-> R!Paralela(p, h),
                   aprovada |-> TRUE, disputada |-> FALSE]
<1>1. /\ R!EmCurso(p, {"agendar", "aprovar"}) /\ rPedidos' = [rPedidos EXCEPT ![p] = R!Livre]
      /\ rSolicitacoes[r].status = "ausente" /\ rSolicitacoes' = [rSolicitacoes EXCEPT ![r] = row]
  BY DEF R!Agendar, R!Terminar, R!EmCurso
<1>2. h \in Horarios
  BY DEF R!Agendar, R!Terminar, IndInvReservas, PedidoCoerente, R!EmCurso
<1>3. R!Paralela(p, h) \in BOOLEAN
  BY DEF R!Paralela
<1>4. /\ row \in R!SolicitacaoRow /\ row.status = "aprovada" /\ row.horario = h
      /\ row.paralela = R!Paralela(p, h)
  BY <1>2, <1>3 DEF R!SolicitacaoRow
<1>5. \A q \in Pedidos : R!EmCurso(q, {"aprovar", "recusar"}) => rPedidos[q].alvo # r
  BY <1>1 DEF IndInvReservas, PedidoCoerente
<1>6. \A q \in Pedidos : R!EmCurso(q, {"aprovar"}) \/ R!EmCurso(q, {"recusar"}) => rPedidos[q].alvo # r
  BY <1>5 DEF R!EmCurso
<1> HIDE DEF row
<1>7. Aprovada(p, r, h, row)
  BY <1>1, <1>4, <1>6 DEF Aprovada
<1> QED BY <1>2, <1>7, PassoAprovada

LEMMA PassoAprovar ==
  ASSUME IndInvReservas, NEW p \in Pedidos, R!Aprovar(p)
  PROVE  IndInvReservas'
<1> DEFINE r == rPedidos[p].alvo
           h == rPedidos[p].horario
           disputada == \E q \in Pedidos : R!EmCurso(q, {"recusar"}) /\ rPedidos[q].alvo = r
           row == [rSolicitacoes[r] EXCEPT !.status = "aprovada", !.aprovada = TRUE,
                                          !.paralela = R!Paralela(p, h), !.disputada = disputada]
<1>1. R!EmCurso(p, {"agendar", "aprovar"}) /\ R!EmCurso(p, {"aprovar"}) /\ rPedidos' = [rPedidos EXCEPT ![p] = R!Livre]
  BY DEF R!Aprovar, R!Terminar, R!EmCurso
<1>2. /\ r \in Solicitacoes /\ h \in Horarios /\ rSolicitacoes[r].horario = h
      /\ rSolicitacoes[r] \in R!SolicitacaoRow
  BY <1>1 DEF IndInvReservas, R!TypeOK, PedidoCoerente, AprovacaoCoerente, R!EmCurso
<1>3. rSolicitacoes' = [rSolicitacoes EXCEPT ![r] = row]
  BY DEF R!Aprovar
<1>4. R!Paralela(p, h) \in BOOLEAN /\ disputada \in BOOLEAN
  BY DEF R!Paralela
<1>5. /\ row \in R!SolicitacaoRow /\ row.status = "aprovada" /\ row.horario = h
      /\ row.paralela = R!Paralela(p, h) /\ row.disputada = disputada
  <2> HIDE DEF disputada
  <2> QED BY <1>2, <1>4 DEF R!SolicitacaoRow
<1>6. \A q \in Pedidos \ {p} : R!EmCurso(q, {"aprovar"}) => rPedidos[q].alvo # r
  BY <1>1 DEF IndInvReservas, AprovacaoCoerente
<1>7. disputada => row.disputada
  BY <1>5
<1> HIDE DEF row
<1>8. Aprovada(p, r, h, row)
  BY <1>1, <1>3, <1>5, <1>6, <1>7 DEF Aprovada
<1> QED BY <1>2, <1>8, PassoAprovada

LEMMA PassoDesistirReservas ==
  ASSUME IndInvReservas, NEW p \in Pedidos, R!Desistir(p)
  PROVE  IndInvReservas'
<1>1. rPedidos' = [rPedidos EXCEPT ![p] = R!Livre] /\ UNCHANGED rSolicitacoes
  BY DEF R!Desistir, R!Terminar
<1>2. R!Livre \in R!PedidoRow /\ R!Livre.pc = "livre"
  BY DEF R!Livre, R!PedidoRow
<1>3. /\ rPedidos' \in [Pedidos -> R!PedidoRow] /\ rPedidos'[p] = R!Livre
      /\ \A q \in Pedidos \ {p} : rPedidos'[q] = rPedidos[q]
  BY <1>1, <1>2, UmPedidoReservas DEF IndInvReservas
<1>4. \A q \in Pedidos : R!EmCurso(q, {"solicitar", "agendar", "aprovar", "recusar"})' => rPedidos'[q] = rPedidos[q]
  BY <1>2, <1>3 DEF R!EmCurso
<1>5. R!TypeOK' /\ LinhaComHorario'
  BY <1>1, <1>3 DEF IndInvReservas, R!TypeOK, LinhaComHorario
<1>6. PedidoCoerente'
  BY <1>1, <1>4 DEF IndInvReservas, PedidoCoerente, R!EmCurso
<1>7. AprovacaoCoerente' /\ RecusaCoerente'
  BY <1>1, <1>4 DEF IndInvReservas, AprovacaoCoerente, RecusaCoerente, R!EmCurso
<1>8. SemSobreposicao'
  BY <1>1, <1>4 DEF IndInvReservas, SemSobreposicao, FirmeReservas, R!EmCurso
<1> QED BY <1>5, <1>6, <1>7, <1>8 DEF IndInvReservas

LEMMA PassoRecusar ==
  ASSUME IndInvReservas, NEW p \in Pedidos, R!Recusar(p)
  PROVE  IndInvReservas'
<1> DEFINE r == rPedidos[p].alvo
<1>1. rPedidos' = [rPedidos EXCEPT ![p] = R!Livre] /\ R!EmCurso(p, {"recusar"}) /\ ~R!Travada(r)
  BY DEF R!Recusar, R!Terminar, R!EmCurso
<1>2. r \in Solicitacoes /\ rSolicitacoes[r] \in R!SolicitacaoRow /\ rSolicitacoes[r].status # "ausente"
  BY <1>1 DEF IndInvReservas, R!TypeOK, PedidoCoerente, R!EmCurso
<1>3. /\ rSolicitacoes' \in [Solicitacoes -> R!SolicitacaoRow]
      /\ rSolicitacoes'[r].status = "recusada" /\ rSolicitacoes'[r].horario = rSolicitacoes[r].horario
      /\ rSolicitacoes'[r].aprovada = rSolicitacoes[r].aprovada
      /\ rSolicitacoes'[r].disputada = rSolicitacoes[r].disputada
      /\ \A s \in Solicitacoes \ {r} : rSolicitacoes'[s] = rSolicitacoes[s]
  BY <1>2 DEF R!Recusar, IndInvReservas, R!TypeOK, R!SolicitacaoRow
<1>4. R!Livre \in R!PedidoRow /\ R!Livre.pc = "livre"
  BY DEF R!Livre, R!PedidoRow
<1>5. /\ rPedidos' \in [Pedidos -> R!PedidoRow] /\ rPedidos'[p] = R!Livre
      /\ \A q \in Pedidos \ {p} : rPedidos'[q] = rPedidos[q]
  BY <1>1, <1>4, UmPedidoReservas DEF IndInvReservas
<1>6. \A q \in Pedidos : R!EmCurso(q, {"solicitar", "agendar", "aprovar", "recusar"})' => rPedidos'[q] = rPedidos[q]
  BY <1>4, <1>5 DEF R!EmCurso
<1>7. \A q \in Pedidos : R!EmCurso(q, {"aprovar"}) => rPedidos[q].alvo # r
  BY <1>1 DEF R!Travada
<1>8. R!TypeOK' /\ LinhaComHorario'
  BY <1>2, <1>3, <1>5 DEF IndInvReservas, R!TypeOK, LinhaComHorario
<1>9. PedidoCoerente'
  BY <1>3, <1>6 DEF IndInvReservas, PedidoCoerente, R!EmCurso
<1>10. AprovacaoCoerente'
  BY <1>3, <1>6, <1>7 DEF IndInvReservas, PedidoCoerente, AprovacaoCoerente, R!EmCurso
<1>11. rSolicitacoes[r].aprovada => rSolicitacoes[r].disputada
  BY <1>1, <1>2 DEF IndInvReservas, RecusaCoerente, R!SolicitacaoRow
<1>12. RecusaCoerente'
  BY <1>2, <1>3, <1>6, <1>11 DEF IndInvReservas, PedidoCoerente, RecusaCoerente, R!EmCurso
<1>13. \A s \in Solicitacoes : FirmeReservas(s)' => FirmeReservas(s) /\ rSolicitacoes'[s] = rSolicitacoes[s]
  BY <1>3 DEF FirmeReservas
<1>14. SemSobreposicao'
  BY <1>6, <1>13 DEF IndInvReservas, SemSobreposicao, R!EmCurso
<1> QED BY <1>8, <1>9, <1>10, <1>12, <1>14 DEF IndInvReservas

LEMMA PassoNextReservas == IndInvReservas /\ [R!Next]_reservas => IndInvReservas'
<1> SUFFICES ASSUME IndInvReservas, [R!Next]_reservas PROVE IndInvReservas'
  OBVIOUS
<1>1. ASSUME NEW p \in Pedidos, NEW h \in Horarios, R!LerSolicitacao(p, h) \/ R!LerAgendamento(p, h)
      PROVE  IndInvReservas'
  <2>1. ~R!Conflito(h, {"pendente", "aprovada"}) \/ ~R!Conflito(h, {"aprovada"})
    BY <1>1 DEF R!LerSolicitacao, R!LerAgendamento
  <2>2. CASE R!LerSolicitacao(p, h)
    <3>1. R!Comecar(p, "solicitar", NULL, h)
      BY <2>2 DEF R!LerSolicitacao
    <3> QED BY <3>1, PassoComecarReservas
  <2>3. CASE R!LerAgendamento(p, h)
    <3>1. R!Comecar(p, "agendar", NULL, h) /\ ~R!Conflito(h, {"aprovada"})
      BY <2>3 DEF R!LerAgendamento
    <3> QED BY <3>1, PassoComecarReservas
  <2> QED BY <1>1, <2>2, <2>3
<1>2. ASSUME NEW p \in Pedidos, NEW r \in Solicitacoes, R!Solicitar(p, r) PROVE IndInvReservas'
  <2>1. rPedidos[p].horario \in Horarios
    BY <1>2 DEF R!Solicitar, R!Terminar, IndInvReservas, PedidoCoerente, R!EmCurso
  <2>2. R!Livre \in R!PedidoRow /\ R!Livre.pc = "livre" /\ rPedidos' = [rPedidos EXCEPT ![p] = R!Livre]
    BY <1>2 DEF R!Livre, R!PedidoRow, R!Solicitar, R!Terminar
  <2>3. /\ rPedidos' \in [Pedidos -> R!PedidoRow]
        /\ \A q \in Pedidos : rPedidos'[q] = rPedidos[q] \/ rPedidos'[q].pc = "livre"
    BY <2>2, UmPedidoReservas DEF IndInvReservas
  <2> QED BY <1>2, <2>1, <2>3, PassoInserir DEF R!Solicitar
<1>3. ASSUME NEW p \in Pedidos, NEW r \in Solicitacoes, R!Agendar(p, r) PROVE IndInvReservas'
  BY <1>3, PassoAgendar
<1>4. ASSUME NEW p \in Pedidos, NEW r \in Solicitacoes, R!LerAprovacao(p, r) PROVE IndInvReservas'
  <2>1. rSolicitacoes[r].horario \in Horarios
    BY <1>4 DEF R!LerAprovacao, IndInvReservas, LinhaComHorario
  <2> QED BY <1>4, <2>1, PassoComecarReservas DEF R!LerAprovacao
<1>5. ASSUME NEW p \in Pedidos, NEW r \in Solicitacoes, R!LerRecusa(p, r) PROVE IndInvReservas'
  <2>1. R!Comecar(p, "recusar", r, NULL) /\ rSolicitacoes[r].status = "pendente"
    BY <1>5 DEF R!LerRecusa, R!Recusavel
  <2> QED BY <2>1, PassoComecarReservas
<1>6. ASSUME NEW p \in Pedidos, R!Aprovar(p) \/ R!Desistir(p) \/ R!Recusar(p) PROVE IndInvReservas'
  BY <1>6, PassoAprovar, PassoDesistirReservas, PassoRecusar
<1>7. ASSUME NEW r \in Solicitacoes, NEW h \in Horarios, R!SolicitarLive(r, h) PROVE IndInvReservas'
  BY <1>7, PassoInserir DEF R!SolicitarLive, IndInvReservas, R!TypeOK
<1>8. CASE UNCHANGED reservas
  BY <1>8 DEF reservas, IndInvReservas, R!TypeOK, LinhaComHorario, PedidoCoerente, AprovacaoCoerente, RecusaCoerente,
              SemSobreposicao, FirmeReservas, R!EmCurso
<1> QED BY <1>1, <1>2, <1>3, <1>4, <1>5, <1>6, <1>7, <1>8 DEF R!Next

LEMMA SpecInvReservas == R!Spec => []IndInvReservas
<1>1. IndInvReservas /\ [R!Next]_(R!vars) => IndInvReservas'
  BY PassoNextReservas DEF reservas, R!vars
<1> QED BY InitInvReservas, <1>1, PTL DEF R!Spec

LEMMA InvPropsReservas == IndInvReservas => R!TypeOK /\ R!CabineSemConflito
<1> SUFFICES ASSUME IndInvReservas PROVE R!TypeOK /\ R!CabineSemConflito
  OBVIOUS
<1>1. ASSUME NEW r \in Solicitacoes, NEW s \in Solicitacoes, r # s, FirmeReservas(r), FirmeReservas(s)
      PROVE  rSolicitacoes[r].horario[2] <= rSolicitacoes[s].horario[1]
             \/ rSolicitacoes[s].horario[2] <= rSolicitacoes[r].horario[1]
  <2>1. rSolicitacoes[r].horario \in Nat \X Nat /\ rSolicitacoes[s].horario \in Nat \X Nat
    BY <1>1, HorariosTipo DEF IndInvReservas, LinhaComHorario, FirmeReservas
  <2>2. ~R!Sobrepoe(rSolicitacoes[r].horario, rSolicitacoes[s].horario)
    BY <1>1 DEF IndInvReservas, SemSobreposicao
  <2> QED BY <2>1, <2>2 DEF R!Sobrepoe
<1> QED BY <1>1 DEF IndInvReservas, RecusaCoerente, R!CabineSemConflito, FirmeReservas

(* Two approved requests of a cabine that no approval overtook do not overlap, and only a  *)
(* refusal that had read the row before can refuse what was approved: however many         *)
(* requests, approvals and refusals are in flight.                                         *)
THEOREM ConflitoCorrect == R!Spec => []CabineSemConflito
<1>1. IndInvReservas => CabineSemConflito
  BY InvPropsReservas DEF CabineSemConflito
<1> QED BY SpecInvReservas, <1>1, PTL

-----------------------------------------------------------------------------
(* The sets that are replaced. *)

(* The replacement of the hours is alone, and has seen the hours of now; so has the        *)
(* replacement of the units, as long as no two of them have overlapped.                    *)
GradeInv ==
  /\ tGrade = tDados["grade"]
  /\ \A p, q \in T!EmCurso("grade") : p = q
  /\ \A p \in T!EmCurso("grade") : tPedidos[p].visto = tGrade

AcessoInv ==
  tParalelo \/ /\ tAcesso = tDados["acesso"]
               /\ \A p, q \in T!EmCurso("acesso") : p = q
               /\ \A p \in T!EmCurso("acesso") : tPedidos[p].visto = tAcesso

(* The inductive invariant of Trocas. *)
IndInvTrocas == T!TypeOK /\ GradeInv /\ AcessoInv

LEMMA InitInvTrocas == T!Init => IndInvTrocas
<1> SUFFICES ASSUME T!Init PROVE IndInvTrocas
  OBVIOUS
<1>1. T!Livre \in T!PedidoRow /\ T!Livre.tabela = "nenhuma"
  BY DEF T!Livre, T!PedidoRow
<1>2. T!TypeOK
  BY <1>1 DEF T!Init, T!TypeOK
<1>3. T!EmCurso("grade") = {} /\ T!EmCurso("acesso") = {}
  BY <1>1 DEF T!Init, T!EmCurso
<1>4. GradeInv /\ AcessoInv
  BY <1>3 DEF T!Init, GradeInv, AcessoInv
<1> QED BY <1>2, <1>4 DEF IndInvTrocas

(* A request takes a new row. *)
LEMMA UmPedidoTrocas ==
  ASSUME T!TypeOK, NEW p \in Pedidos, NEW row \in T!PedidoRow, tPedidos' = [tPedidos EXCEPT ![p] = row]
  PROVE  /\ tPedidos' \in [Pedidos -> T!PedidoRow] /\ tPedidos'[p] = row
         /\ \A q \in Pedidos \ {p} : tPedidos'[q] = tPedidos[q]
BY DEF T!TypeOK

LEMMA LivreNaoEscreve == T!Livre \in T!PedidoRow /\ T!Livre.tabela = "nenhuma"
BY DEF T!Livre, T!PedidoRow

(* A request of a table ends, or fails: it leaves the set of the requests in flight. *)
LEMMA EncerraTrocas ==
  ASSUME T!TypeOK, NEW p \in Pedidos, tPedidos' = [tPedidos EXCEPT ![p] = T!Livre]
  PROVE  /\ tPedidos' \in [Pedidos -> T!PedidoRow]
         /\ \A t \in {"grade", "acesso"} : T!EmCurso(t)' = T!EmCurso(t) \ {p}
         /\ \A q \in Pedidos \ {p} : tPedidos'[q] = tPedidos[q]
<1>1. /\ tPedidos' \in [Pedidos -> T!PedidoRow] /\ tPedidos'[p].tabela = "nenhuma"
      /\ \A q \in Pedidos \ {p} : tPedidos'[q] = tPedidos[q]
  BY UmPedidoTrocas, LivreNaoEscreve
<1>2. \A t \in {"grade", "acesso"} : T!EmCurso(t)' = T!EmCurso(t) \ {p}
  BY <1>1 DEF T!EmCurso
<1> QED BY <1>1, <1>2

LEMMA Inicia ==
  ASSUME T!TypeOK, NEW p \in Pedidos, NEW t \in {"grade", "acesso"}, NEW novo \in SUBSET Itens,
         NEW visto \in SUBSET Itens, T!Comecar(p, t, novo, visto)
  PROVE  /\ tPedidos' \in [Pedidos -> T!PedidoRow] /\ tPedidos'[p].visto = visto /\ p \notin T!EmCurso(t)
         /\ T!EmCurso(t)' = T!EmCurso(t) \cup {p}
         /\ \A u \in {"grade", "acesso"} \ {t} : T!EmCurso(u)' = T!EmCurso(u)
         /\ \A q \in Pedidos \ {p} : tPedidos'[q] = tPedidos[q]
<1> DEFINE row == [tabela |-> t, novo |-> novo, visto |-> visto]
<1>1. row \in T!PedidoRow /\ row.tabela = t /\ row.visto = visto
  BY DEF T!PedidoRow
<1>2. tPedidos' = [tPedidos EXCEPT ![p] = row] /\ tPedidos[p].tabela = "nenhuma"
  BY LivreNaoEscreve DEF T!Comecar
<1> HIDE DEF row
<1>3. /\ tPedidos' \in [Pedidos -> T!PedidoRow] /\ tPedidos'[p] = row
      /\ \A q \in Pedidos \ {p} : tPedidos'[q] = tPedidos[q]
  BY <1>1, <1>2, UmPedidoTrocas
<1>4. p \notin T!EmCurso(t) /\ T!EmCurso(t)' = T!EmCurso(t) \cup {p}
  BY <1>1, <1>2, <1>3 DEF T!EmCurso
<1>5. \A u \in {"grade", "acesso"} \ {t} : T!EmCurso(u)' = T!EmCurso(u)
  BY <1>1, <1>2, <1>3 DEF T!EmCurso
<1> QED BY <1>1, <1>3, <1>4, <1>5

-----------------------------------------------------------------------------
LEMMA PassoComecarTrocas ==
  ASSUME IndInvTrocas, NEW p \in Pedidos, NEW novo \in SUBSET Itens,
         T!ComecarGrade(p, novo) \/ T!ComecarAcesso(p, novo)
  PROVE  IndInvTrocas'
<1>0. T!TypeOK
  BY DEF IndInvTrocas
<1>1. CASE T!ComecarGrade(p, novo)
  <2>1. /\ T!Comecar(p, "grade", novo, tGrade) /\ UNCHANGED <<tGrade, tAcesso, tDados, tParalelo>>
        /\ T!EmCurso("grade") = {} /\ tGrade \in SUBSET Itens
    BY <1>0, <1>1 DEF T!ComecarGrade, T!LivreParaGrade, T!TypeOK
  <2>2. /\ tPedidos' \in [Pedidos -> T!PedidoRow] /\ tPedidos'[p].visto = tGrade
        /\ T!EmCurso("grade")' = T!EmCurso("grade") \cup {p} /\ T!EmCurso("acesso")' = T!EmCurso("acesso")
        /\ \A q \in Pedidos \ {p} : tPedidos'[q] = tPedidos[q]
    BY <1>0, <2>1, Inicia
  <2>3. p \notin T!EmCurso("acesso") /\ T!EmCurso("acesso") \subseteq Pedidos
    BY <2>1, LivreNaoEscreve DEF T!Comecar, T!EmCurso
  <2>4. T!TypeOK'
    BY <1>0, <2>1, <2>2 DEF T!TypeOK
  <2>5. GradeInv'
    BY <2>1, <2>2 DEF IndInvTrocas, GradeInv
  <2>6. AcessoInv'
    BY <2>1, <2>2, <2>3 DEF IndInvTrocas, AcessoInv
  <2> QED BY <2>4, <2>5, <2>6 DEF IndInvTrocas
<1>2. CASE T!ComecarAcesso(p, novo)
  <2>1. /\ T!Comecar(p, "acesso", novo, tAcesso) /\ UNCHANGED <<tGrade, tAcesso, tDados>>
        /\ tParalelo' = (tParalelo \/ T!EmCurso("acesso") # {}) /\ tAcesso \in SUBSET Itens
    BY <1>0, <1>2 DEF T!ComecarAcesso, T!TypeOK
  <2>2. /\ tPedidos' \in [Pedidos -> T!PedidoRow] /\ tPedidos'[p].visto = tAcesso
        /\ T!EmCurso("acesso")' = T!EmCurso("acesso") \cup {p} /\ T!EmCurso("grade")' = T!EmCurso("grade")
        /\ \A q \in Pedidos \ {p} : tPedidos'[q] = tPedidos[q]
    BY <1>0, <2>1, Inicia
  <2>3. p \notin T!EmCurso("grade") /\ T!EmCurso("grade") \subseteq Pedidos
    BY <2>1, LivreNaoEscreve DEF T!Comecar, T!EmCurso
  <2>4. T!TypeOK'
    BY <1>0, <2>1, <2>2 DEF T!TypeOK
  <2>5. GradeInv'
    BY <2>1, <2>2, <2>3 DEF IndInvTrocas, GradeInv
  <2>6. AcessoInv'
    BY <2>1, <2>2 DEF IndInvTrocas, AcessoInv
  <2> QED BY <2>4, <2>5, <2>6 DEF IndInvTrocas
<1> QED BY <1>1, <1>2

LEMMA PassoGravarGrade ==
  ASSUME IndInvTrocas, NEW p \in Pedidos, T!GravarGrade(p)
  PROVE  IndInvTrocas'
<1>0. T!TypeOK
  BY DEF IndInvTrocas
<1>1. /\ tPedidos[p].tabela = "grade" /\ tPedidos' = [tPedidos EXCEPT ![p] = T!Livre]
      /\ UNCHANGED <<tAcesso, tParalelo>>
  BY DEF T!GravarGrade, T!Terminar
<1>2. /\ p \in T!EmCurso("grade") /\ tPedidos[p].novo \in SUBSET Itens
      /\ tPedidos[p].visto = tGrade /\ \A q \in T!EmCurso("grade") : q = p
  BY <1>1 DEF IndInvTrocas, GradeInv, T!TypeOK, T!PedidoRow, T!EmCurso
<1>3. /\ tPedidos' \in [Pedidos -> T!PedidoRow]
      /\ T!EmCurso("grade")' = {} /\ T!EmCurso("acesso")' = T!EmCurso("acesso") \ {p}
      /\ \A q \in Pedidos \ {p} : tPedidos'[q] = tPedidos[q]
  <2>1. /\ tPedidos' \in [Pedidos -> T!PedidoRow]
        /\ \A t \in {"grade", "acesso"} : T!EmCurso(t)' = T!EmCurso(t) \ {p}
        /\ \A q \in Pedidos \ {p} : tPedidos'[q] = tPedidos[q]
    BY <1>0, <1>1, EncerraTrocas
  <2>2. T!EmCurso("grade") \ {p} = {}
    BY <1>2
  <2> QED BY <2>1, <2>2
<1>4. ~T!Duplicado(p, tGrade) /\ T!Trocado(p, tGrade) = tPedidos[p].novo
  BY <1>2 DEF T!Duplicado, T!Trocado
<1>5. tGrade' = tPedidos[p].novo /\ tDados' = [tDados EXCEPT !["grade"] = tPedidos[p].novo]
  BY <1>4 DEF T!GravarGrade
<1>6. tDados'["grade"] = tGrade' /\ tDados'["acesso"] = tDados["acesso"]
  BY <1>0, <1>5 DEF T!TypeOK
<1>7. T!TypeOK'
  BY <1>0, <1>1, <1>2, <1>3, <1>5 DEF T!TypeOK
<1>8. GradeInv'
  BY <1>3, <1>6 DEF GradeInv
<1>9. AcessoInv'
  BY <1>1, <1>3, <1>6 DEF IndInvTrocas, AcessoInv, T!EmCurso
<1> QED BY <1>7, <1>8, <1>9 DEF IndInvTrocas

LEMMA PassoGravarAcesso ==
  ASSUME IndInvTrocas, NEW p \in Pedidos, T!GravarAcesso(p)
  PROVE  IndInvTrocas'
<1>0. T!TypeOK
  BY DEF IndInvTrocas
<1>1. /\ tPedidos[p].tabela = "acesso" /\ tPedidos' = [tPedidos EXCEPT ![p] = T!Livre]
      /\ UNCHANGED <<tGrade, tParalelo>>
  BY DEF T!GravarAcesso, T!Terminar
<1>2. p \in T!EmCurso("acesso") /\ p \notin T!EmCurso("grade") /\ tPedidos[p].novo \in SUBSET Itens
  BY <1>1 DEF IndInvTrocas, T!TypeOK, T!PedidoRow, T!EmCurso
<1>3. /\ tPedidos' \in [Pedidos -> T!PedidoRow]
      /\ T!EmCurso("grade")' = T!EmCurso("grade") /\ T!EmCurso("acesso")' = T!EmCurso("acesso") \ {p}
      /\ \A q \in Pedidos \ {p} : tPedidos'[q] = tPedidos[q]
  <2>1. /\ tPedidos' \in [Pedidos -> T!PedidoRow]
        /\ \A t \in {"grade", "acesso"} : T!EmCurso(t)' = T!EmCurso(t) \ {p}
        /\ \A q \in Pedidos \ {p} : tPedidos'[q] = tPedidos[q]
    BY <1>0, <1>1, EncerraTrocas
  <2> QED BY <2>1, <1>2
<1>4. \/ UNCHANGED <<tAcesso, tDados>>
      \/ tAcesso' = T!Trocado(p, tAcesso) /\ tDados' = [tDados EXCEPT !["acesso"] = tPedidos[p].novo]
  BY DEF T!GravarAcesso
<1>5. tDados'["grade"] = tDados["grade"]
  BY <1>0, <1>4 DEF T!TypeOK
<1>6. T!TypeOK'
  <2>1. tAcesso' \subseteq Itens
    BY <1>0, <1>2, <1>4 DEF T!TypeOK, T!Trocado
  <2>2. tDados' \in [{"grade", "acesso"} -> SUBSET Itens]
    BY <1>0, <1>2, <1>4 DEF T!TypeOK
  <2> QED BY <1>0, <1>1, <1>3, <2>1, <2>2 DEF T!TypeOK
<1>7. GradeInv'
  BY <1>1, <1>2, <1>3, <1>5 DEF IndInvTrocas, GradeInv, T!EmCurso
<1>8. AcessoInv'
  <2> SUFFICES ASSUME ~tParalelo
               PROVE  /\ tAcesso' = tDados'["acesso"] /\ T!EmCurso("acesso")' = {}
    BY <1>1 DEF AcessoInv
  <2>1. tPedidos[p].visto = tAcesso /\ \A q \in T!EmCurso("acesso") : q = p
    BY <1>2 DEF IndInvTrocas, AcessoInv
  <2>2. T!EmCurso("acesso")' = {}
    BY <2>1, <1>3
  <2>3. ~T!Duplicado(p, tAcesso) /\ T!Trocado(p, tAcesso) = tPedidos[p].novo
    BY <2>1 DEF T!Duplicado, T!Trocado
  <2>4. tAcesso' = tPedidos[p].novo /\ tDados' = [tDados EXCEPT !["acesso"] = tPedidos[p].novo]
    BY <2>3 DEF T!GravarAcesso
  <2>5. tDados'["acesso"] = tAcesso'
    BY <1>0, <2>4 DEF T!TypeOK
  <2> QED BY <2>2, <2>5
<1> QED BY <1>6, <1>7, <1>8 DEF IndInvTrocas

LEMMA PassoDesfazerTrocas ==
  ASSUME IndInvTrocas, NEW p \in Pedidos, T!Desfazer(p)
  PROVE  IndInvTrocas'
<1>0. T!TypeOK
  BY DEF IndInvTrocas
<1>1. tPedidos' = [tPedidos EXCEPT ![p] = T!Livre] /\ UNCHANGED <<tGrade, tAcesso, tDados, tParalelo>>
  BY DEF T!Desfazer
<1>2. /\ tPedidos' \in [Pedidos -> T!PedidoRow]
      /\ \A t \in {"grade", "acesso"} : T!EmCurso(t)' = T!EmCurso(t) \ {p}
      /\ \A q \in Pedidos \ {p} : tPedidos'[q] = tPedidos[q]
  BY <1>0, <1>1, EncerraTrocas
<1>3. T!TypeOK'
  BY <1>0, <1>1, <1>2 DEF T!TypeOK
<1>4. \A t \in {"grade", "acesso"} : \A q \in T!EmCurso(t) \ {p} : tPedidos'[q] = tPedidos[q]
  BY <1>2 DEF T!EmCurso
<1>5. GradeInv'
  BY <1>1, <1>2, <1>4 DEF IndInvTrocas, GradeInv
<1>6. AcessoInv'
  BY <1>1, <1>2, <1>4 DEF IndInvTrocas, AcessoInv
<1> QED BY <1>3, <1>5, <1>6 DEF IndInvTrocas

LEMMA PassoRevogarTrocas ==
  ASSUME IndInvTrocas, NEW i \in Itens, T!Revogar(i)
  PROVE  IndInvTrocas'
<1>1. /\ i \in tAcesso /\ \A p \in T!EmCurso("acesso") : i \notin tPedidos[p].visto
      /\ tAcesso' = tAcesso \ {i} /\ tDados' = [tDados EXCEPT !["acesso"] = tDados["acesso"] \ {i}]
      /\ UNCHANGED <<tGrade, tPedidos, tParalelo>>
  BY DEF T!Revogar
<1>2. tDados'["grade"] = tDados["grade"] /\ tDados'["acesso"] = tDados["acesso"] \ {i}
      /\ tDados' \in [{"grade", "acesso"} -> SUBSET Itens]
  BY <1>1 DEF IndInvTrocas, T!TypeOK
<1>3. T!TypeOK'
  BY <1>1, <1>2 DEF IndInvTrocas, T!TypeOK
<1>4. GradeInv'
  BY <1>1, <1>2 DEF IndInvTrocas, GradeInv, T!EmCurso
<1>5. AcessoInv'
  BY <1>1, <1>2 DEF IndInvTrocas, AcessoInv, T!EmCurso
<1> QED BY <1>3, <1>4, <1>5 DEF IndInvTrocas

LEMMA PassoNextTrocas == IndInvTrocas /\ [T!Next]_trocas => IndInvTrocas'
<1> SUFFICES ASSUME IndInvTrocas, [T!Next]_trocas PROVE IndInvTrocas'
  OBVIOUS
<1>1. ASSUME NEW p \in Pedidos, NEW novo \in SUBSET Itens, T!ComecarGrade(p, novo) \/ T!ComecarAcesso(p, novo)
      PROVE  IndInvTrocas'
  BY <1>1, PassoComecarTrocas
<1>2. ASSUME NEW p \in Pedidos, T!GravarGrade(p) \/ T!GravarAcesso(p) \/ T!Desfazer(p)
      PROVE  IndInvTrocas'
  BY <1>2, PassoGravarGrade, PassoGravarAcesso, PassoDesfazerTrocas
<1>3. ASSUME NEW i \in Itens, T!Revogar(i) PROVE IndInvTrocas'
  BY <1>3, PassoRevogarTrocas
<1>4. CASE UNCHANGED trocas
  BY <1>4 DEF trocas, IndInvTrocas, T!TypeOK, GradeInv, AcessoInv, T!EmCurso
<1> QED BY <1>1, <1>2, <1>3, <1>4 DEF T!Next

LEMMA SpecInvTrocas == T!Spec => []IndInvTrocas
<1>1. IndInvTrocas /\ [T!Next]_(T!vars) => IndInvTrocas'
  BY PassoNextTrocas DEF trocas, T!vars
<1> QED BY InitInvTrocas, <1>1, PTL DEF T!Spec

LEMMA InvPropsTrocas == IndInvTrocas => T!TypeOK /\ T!UltimoConjunto
BY DEF IndInvTrocas, GradeInv, AcessoInv, T!UltimoConjunto, T!allowedTenantIds

(* However many replacements of hours and of units are in flight, what is stored is the    *)
(* set of the last one, or a replacement of units has run beside it.                       *)
THEOREM UltimoConjuntoCorrect == T!Spec => []UltimoConjunto
<1>1. IndInvTrocas => UltimoConjunto
  BY InvPropsTrocas DEF UltimoConjunto
<1> QED BY SpecInvTrocas, <1>1, PTL
=============================================================================
