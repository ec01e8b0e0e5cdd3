------------------------ MODULE ConnectorManagerProofs ------------------------
(***************************************************************************)
(* The map of connections, for every number of lives, connections, stops   *)
(* and reconciliations, overlapping ones included.                         *)
(***************************************************************************)
EXTENDS ConnectorManager, FiniteSetTheorems, TLAPS

Parando == {"flush", "final", "desligando"}

(* What a call in flight knows: the live it is about, and the connection it stops. *)
ChamadaCoerente ==
  \A p \in Chamadores :
    /\ chamadas[p].pc \in Parando \cup {"produtos", "encerrou"} => chamadas[p].live \in Lives
    /\ chamadas[p].pc \in Parando => chamadas[p].conexao \in Conexoes

(* A connection in use is one of a live; so is the connection of the map. *)
ConexaoCoerente ==
  /\ \A x \in Conexoes : conexoes[x].status # "fora" => conexoes[x].live \in Lives

(* A stop that waits for its INSERT is the only one to wait for it, and its timer is off. *)
FlushCoerente ==
  /\ \A p \in Chamadores : chamadas[p].pc = "flush" => conexoes[chamadas[p].conexao].gravando # NULL
  /\ \A p, q \in Chamadores :
       chamadas[p].pc = "flush" /\ chamadas[q].pc = "flush" /\ chamadas[p].conexao = chamadas[q].conexao => p = q

Tipo == TypeOK /\ ChamadaCoerente /\ ConexaoCoerente /\ FlushCoerente

(* What a stop is about to write covers the INSERT in flight, unless another stop of the *)
(* connection sent that.                                                                 *)
FinalInv ==
  /\ \A x \in Conexoes : conexoes[x].gravando # NULL => conexoes[x].gravando <= conexoes[x].eventos
  /\ \A p \in Chamadores : chamadas[p].pc \in {"flush", "final"} => ~conexoes[chamadas[p].conexao].timer
  /\ \A p \in Chamadores :
       LET x == chamadas[p].conexao IN
       chamadas[p].pc = "final" /\ conexoes[x].gravando # NULL =>
         \/ chamadas[p].valor >= conexoes[x].gravando
         \/ \E q \in Chamadores \ {p} : chamadas[q].pc = "flush" /\ chamadas[q].conexao = x

IndInv == Tipo /\ FinalInv

-----------------------------------------------------------------------------
LEMMA InitInv == Init => IndInv
<1> SUFFICES ASSUME Init PROVE IndInv
  OBVIOUS
<1>1. ConexaoFora \in ConexaoRow /\ ChamadaLivre \in ChamadaRow
  BY DEF ConexaoFora, ConexaoRow, StatusConexao, ChamadaLivre, ChamadaRow
<1>2. TypeOK
  BY <1>1 DEF Init, TypeOK
<1>3. ChamadaCoerente /\ ConexaoCoerente /\ FlushCoerente /\ FinalInv
  BY DEF Init, ChamadaCoerente, ConexaoCoerente, FlushCoerente, FinalInv, ConexaoFora, ChamadaLivre, Parando
<1> QED BY <1>2, <1>3 DEF IndInv, Tipo

(* One call changes; a call that is not stopping has no part in FlushCoerente or FinalInv. *)
Chamada(p, row) ==
  /\ chamadas' = [chamadas EXCEPT ![p] = row]
  /\ row \in ChamadaRow
  /\ row.pc \in Parando \cup {"produtos", "encerrou"} => row.live \in Lives
  /\ row.pc \in Parando => row.conexao \in Conexoes

LEMMA MudarChamada ==
  ASSUME Tipo, NEW p \in Chamadores, NEW row, Chamada(p, row)
  PROVE  /\ chamadas' \in [Chamadores -> ChamadaRow] /\ ChamadaCoerente'
         /\ chamadas'[p] = row /\ \A q \in Chamadores \ {p} : chamadas'[q] = chamadas[q]
BY DEF Chamada, Tipo, TypeOK, ChamadaCoerente

(* The call is not, and will not be, in "flush" or "final". *)
LEMMA SoChamada ==
  ASSUME IndInv, NEW p \in Chamadores, NEW row, Chamada(p, row), UNCHANGED conexoes,
         ativas' \subseteq Lives, snapshots' \in [Lives -> Nat], mapa' \in [Lives -> Conexoes \cup {NULL}],
         row.pc \notin {"flush", "final"}, chamadas[p].pc \notin {"flush", "final"}
  PROVE  IndInv'
<1> USE DEF IndInv
<1>1. /\ chamadas' \in [Chamadores -> ChamadaRow] /\ ChamadaCoerente'
      /\ chamadas'[p] = row /\ \A q \in Chamadores \ {p} : chamadas'[q] = chamadas[q]
  BY MudarChamada
<1>2. TypeOK' /\ ConexaoCoerente'
  BY <1>1 DEF Tipo, TypeOK, ConexaoCoerente
<1>3. FlushCoerente'
  BY <1>1 DEF Tipo, FlushCoerente
<1>4. FinalInv'
  BY <1>1 DEF FinalInv
<1> QED BY <1>1, <1>2, <1>3, <1>4 DEF Tipo

(* One connection changes, the calls do not, and no new INSERT is sent under a stop. *)
TrocaConexao(x, row) ==
  /\ row \in ConexaoRow
  /\ conexoes' = [conexoes EXCEPT ![x] = row]
  /\ UNCHANGED chamadas
  /\ row.status # "fora" => row.live \in Lives
  /\ row.gravando # NULL => row.gravando <= row.eventos
  /\ \A p \in Chamadores : chamadas[p].conexao = x =>
       /\ chamadas[p].pc \in {"flush", "final"} => ~row.timer
       /\ chamadas[p].pc = "flush" => row.gravando # NULL
       /\ chamadas[p].pc = "final" => row.gravando = NULL \/ row.gravando = conexoes[x].gravando

LEMMA SoConexao ==
  ASSUME IndInv, NEW x \in Conexoes, NEW row, TrocaConexao(x, row),
         ativas' \subseteq Lives, snapshots' \in [Lives -> Nat], mapa' \in [Lives -> Conexoes \cup {NULL}]
  PROVE  IndInv'
<1> USE DEF IndInv, TrocaConexao
<1>1. /\ conexoes' \in [Conexoes -> ConexaoRow] /\ conexoes'[x] = row
      /\ \A y \in Conexoes \ {x} : conexoes'[y] = conexoes[y]
  BY DEF Tipo, TypeOK
<1>2. TypeOK' /\ ChamadaCoerente' /\ ConexaoCoerente'
  BY <1>1 DEF Tipo, TypeOK, ChamadaCoerente, ConexaoCoerente
<1>3. \A p \in Chamadores : chamadas[p].pc \in {"flush", "final"} => chamadas[p].conexao \in Conexoes
  BY DEF Tipo, ChamadaCoerente, Parando
<1>4. FlushCoerente'
  BY <1>1, <1>3 DEF Tipo, FlushCoerente
<1>5. \A y \in Conexoes : conexoes'[y].gravando # NULL => conexoes'[y].gravando <= conexoes'[y].eventos
  BY <1>1 DEF FinalInv
<1>6. \A p \in Chamadores : chamadas'[p].pc \in {"flush", "final"} => ~conexoes'[chamadas'[p].conexao].timer
  BY <1>1, <1>3 DEF FinalInv
<1>7. ASSUME NEW p \in Chamadores, chamadas'[p].pc = "final", conexoes'[chamadas'[p].conexao].gravando # NULL
      PROVE  \/ chamadas'[p].valor >= conexoes'[chamadas'[p].conexao].gravando
             \/ \E q \in Chamadores \ {p} : chamadas'[q].pc = "flush" /\ chamadas'[q].conexao = chamadas'[p].conexao
  BY <1>1, <1>3, <1>7 DEF FinalInv
<1>8. FinalInv'
  BY <1>5, <1>6, <1>7 DEF FinalInv
<1> QED BY <1>2, <1>4, <1>8 DEF Tipo

-----------------------------------------------------------------------------
(* stopConnector *)

LEMMA PassoParar ==
  ASSUME IndInv, NEW p \in Chamadores, NEW l \in Lives, mapa[l] # NULL, Parar(p, l),
         chamadas[p].pc \notin Parando
  PROVE  IndInv'
<1> USE DEF IndInv
<1> DEFINE x == mapa[l]
           grava == conexoes[x].dirty /\ conexoes[x].gravando = NULL
           row == [conexoes[x] EXCEPT !.timer = FALSE,
                                      !.gravando = IF grava THEN conexoes[x].eventos
                                                   ELSE conexoes[x].gravando]
           chamada == [chamadas[p] EXCEPT !.pc = IF grava THEN "flush" ELSE "final",
                                          !.live = l, !.conexao = x, !.valor = conexoes[x].eventos]
<1>1. x \in Conexoes /\ conexoes[x] \in ConexaoRow /\ chamadas[p] \in ChamadaRow
  BY DEF Tipo, TypeOK
<1>2. /\ row \in ConexaoRow /\ row.timer = FALSE /\ row.status = conexoes[x].status
      /\ row.live = conexoes[x].live /\ row.eventos = conexoes[x].eventos
      /\ row.gravando = IF grava THEN conexoes[x].eventos ELSE conexoes[x].gravando
  BY <1>1 DEF ConexaoRow
<1>3. /\ chamada \in ChamadaRow /\ chamada.pc = (IF grava THEN "flush" ELSE "final")
      /\ chamada.live = l /\ chamada.conexao = x /\ chamada.valor = conexoes[x].eventos
  <2>1. conexoes[x].eventos \in Nat
    BY <1>1 DEF ConexaoRow
  <2> HIDE DEF x, grava
  <2> QED BY <1>1, <2>1 DEF ChamadaRow
<1>4. /\ conexoes' = [conexoes EXCEPT ![x] = row] /\ chamadas' = [chamadas EXCEPT ![p] = chamada]
      /\ UNCHANGED <<ativas, snapshots, mapa>>
  BY DEF Parar
<1>5. x \in Conexoes /\ conexoes[x].eventos \in Nat /\ conexoes[x].gravando \in Nat \cup {NULL}
  BY <1>1 DEF ConexaoRow
<1> HIDE DEF row, chamada, x
<1>6. /\ conexoes' \in [Conexoes -> ConexaoRow] /\ conexoes'[x] = row
      /\ \A y \in Conexoes \ {x} : conexoes'[y] = conexoes[y]
  BY <1>2, <1>4, <1>5 DEF Tipo, TypeOK
<1>7. Chamada(p, chamada)
  BY <1>3, <1>4, <1>5 DEF Chamada
<1>8. /\ chamadas' \in [Chamadores -> ChamadaRow] /\ ChamadaCoerente'
      /\ chamadas'[p] = chamada /\ \A q \in Chamadores \ {p} : chamadas'[q] = chamadas[q]
  BY <1>7, MudarChamada
<1>9. TypeOK' /\ ConexaoCoerente'
  BY <1>2, <1>4, <1>6, <1>8 DEF Tipo, TypeOK, ConexaoCoerente
<1>10. \A q \in Chamadores : chamadas[q].pc \in {"flush", "final"} => chamadas[q].conexao \in Conexoes
  BY DEF Tipo, ChamadaCoerente, Parando
<1>11. FlushCoerente'
  BY <1>2, <1>3, <1>5, <1>6, <1>8, <1>10, ManagerAssumption DEF Tipo, FlushCoerente, Parando
<1>12. \A y \in Conexoes : conexoes'[y].gravando # NULL => conexoes'[y].gravando <= conexoes'[y].eventos
  BY <1>2, <1>5, <1>6 DEF FinalInv
<1>13. \A q \in Chamadores : chamadas'[q].pc \in {"flush", "final"} => ~conexoes'[chamadas'[q].conexao].timer
  BY <1>2, <1>3, <1>6, <1>8, <1>10 DEF FinalInv
<1>14. ASSUME NEW q \in Chamadores, chamadas'[q].pc = "final", conexoes'[chamadas'[q].conexao].gravando # NULL
       PROVE  \/ chamadas'[q].valor >= conexoes'[chamadas'[q].conexao].gravando
              \/ \E r \in Chamadores \ {q} : chamadas'[r].pc = "flush" /\ chamadas'[r].conexao = chamadas'[q].conexao
  <2>1. CASE q = p
    BY <1>2, <1>3, <1>5, <1>6, <1>8, <1>14, <2>1 DEF FinalInv
  <2>2. CASE q # p /\ chamadas[q].conexao = x /\ grava
    BY <1>3, <1>8, <2>2
  <2>3. CASE q # p /\ ~(chamadas[q].conexao = x /\ grava)
    <3>1. chamadas[q].pc = "final" /\ conexoes[chamadas[q].conexao].gravando # NULL
          /\ conexoes'[chamadas[q].conexao].gravando = conexoes[chamadas[q].conexao].gravando
      BY <1>2, <1>6, <1>8, <1>10, <1>14, <2>3
    <3>2. CASE chamadas[q].valor >= conexoes[chamadas[q].conexao].gravando
      BY <1>8, <2>3, <3>1, <3>2
    <3>3. CASE \E r \in Chamadores \ {q} : chamadas[r].pc = "flush" /\ chamadas[r].conexao = chamadas[q].conexao
      BY <1>8, <2>3, <3>3 DEF Parando
    <3> QED BY <3>1, <3>2, <3>3 DEF FinalInv
  <2> QED BY <2>1, <2>2, <2>3
<1>15. FinalInv'
  BY <1>12, <1>13, <1>14 DEF FinalInv
<1> QED BY <1>8, <1>9, <1>11, <1>15 DEF Tipo

LEMMA PassoPararGravou ==
  ASSUME IndInv, NEW p \in Chamadores, PararGravou(p)
  PROVE  IndInv'
<1> USE DEF IndInv
<1> DEFINE x == chamadas[p].conexao
           chamada == [chamadas[p] EXCEPT !.pc = "final", !.valor = conexoes[x].eventos]
<1>1. PICK ok \in BOOLEAN : Gravado(x, ok)
  BY DEF PararGravou
<1> DEFINE row == [conexoes[x] EXCEPT !.gravando = NULL, !.dirty = ~ok /\ conexoes[x].dirty]
<1>2. /\ chamadas[p].pc = "flush" /\ x \in Conexoes /\ conexoes[x] \in ConexaoRow
      /\ conexoes[x].gravando \in Nat /\ chamadas[p].live \in Lives
  BY DEF PararGravou, Tipo, TypeOK, ChamadaCoerente, FlushCoerente, Parando, ConexaoRow
<1>3. /\ row \in ConexaoRow /\ row.gravando = NULL /\ row.status = conexoes[x].status
      /\ row.live = conexoes[x].live /\ row.timer = conexoes[x].timer
  BY <1>2 DEF ConexaoRow
<1>4. /\ chamada \in ChamadaRow /\ chamada.pc = "final" /\ chamada.conexao = x
      /\ chamada.live = chamadas[p].live /\ chamada.valor = conexoes[x].eventos
  <2>1. conexoes[x].eventos \in Nat
    BY <1>2 DEF ConexaoRow
  <2>2. chamadas[p] \in ChamadaRow
    BY DEF Tipo, TypeOK
  <2> QED BY <2>1, <2>2 DEF ChamadaRow
<1>5. /\ conexoes' = [conexoes EXCEPT ![x] = row] /\ chamadas' = [chamadas EXCEPT ![p] = chamada]
      /\ UNCHANGED <<ativas, mapa>> /\ snapshots' \in [Lives -> Nat]
  <2>1. conexoes' = [conexoes EXCEPT ![x] = row]
    BY <1>1 DEF Gravado
  <2>2. snapshots' \in [Lives -> Nat]
    BY <1>1, <1>2 DEF Gravado, Tipo, TypeOK
  <2>3. chamadas' = [chamadas EXCEPT ![p] = chamada] /\ UNCHANGED <<ativas, mapa>>
    BY DEF PararGravou
  <2> QED BY <2>1, <2>2, <2>3
<1> HIDE DEF row, chamada
<1>6. /\ conexoes' \in [Conexoes -> ConexaoRow] /\ conexoes'[x] = row
      /\ \A y \in Conexoes \ {x} : conexoes'[y] = conexoes[y]
  BY <1>2, <1>3, <1>5 DEF Tipo, TypeOK
<1>7. Chamada(p, chamada)
  BY <1>2, <1>4, <1>5 DEF Chamada
<1>8. /\ chamadas' \in [Chamadores -> ChamadaRow] /\ ChamadaCoerente'
      /\ chamadas'[p] = chamada /\ \A q \in Chamadores \ {p} : chamadas'[q] = chamadas[q]
  BY <1>7, MudarChamada
<1>9. TypeOK' /\ ConexaoCoerente'
  BY <1>2, <1>3, <1>5, <1>6, <1>8 DEF Tipo, TypeOK, ConexaoCoerente
<1>10. \A q \in Chamadores : chamadas[q].pc \in {"flush", "final"} => chamadas[q].conexao \in Conexoes
  BY DEF Tipo, ChamadaCoerente, Parando
<1>11. \A q \in Chamadores \ {p} : chamadas[q].pc = "flush" => chamadas[q].conexao # x
  BY <1>2 DEF Tipo, FlushCoerente
<1>12. FlushCoerente'
  BY <1>4, <1>6, <1>8, <1>10, <1>11 DEF Tipo, FlushCoerente
<1>13. \A y \in Conexoes : conexoes'[y].gravando # NULL => conexoes'[y].gravando <= conexoes'[y].eventos
  BY <1>3, <1>6 DEF FinalInv
<1>14. \A q \in Chamadores : chamadas'[q].pc \in {"flush", "final"} => ~conexoes'[chamadas'[q].conexao].timer
  BY <1>2, <1>3, <1>4, <1>6, <1>8, <1>10 DEF FinalInv
<1>15. ASSUME NEW q \in Chamadores, chamadas'[q].pc = "final", conexoes'[chamadas'[q].conexao].gravando # NULL
       PROVE  \/ chamadas'[q].valor >= conexoes'[chamadas'[q].conexao].gravando
              \/ \E r \in Chamadores \ {q} : chamadas'[r].pc = "flush" /\ chamadas'[r].conexao = chamadas'[q].conexao
  <2>1. q # p /\ chamadas'[q] = chamadas[q] /\ chamadas[q].conexao \in Conexoes \ {x}
        /\ conexoes'[chamadas[q].conexao] = conexoes[chamadas[q].conexao]
    BY <1>3, <1>4, <1>6, <1>8, <1>10, <1>15
  <2>2. CASE chamadas[q].valor >= conexoes[chamadas[q].conexao].gravando
    BY <2>1, <2>2
  <2>3. CASE \E r \in Chamadores \ {q} : chamadas[r].pc = "flush" /\ chamadas[r].conexao = chamadas[q].conexao
    BY <1>8, <2>1, <2>3
  <2> QED BY <1>15, <2>1, <2>2, <2>3 DEF FinalInv
<1>16. FinalInv'
  BY <1>13, <1>14, <1>15 DEF FinalInv
<1> QED BY <1>8, <1>9, <1>12, <1>16 DEF Tipo

LEMMA PassoPararFinal ==
  ASSUME IndInv, NEW p \in Chamadores, PararFinal(p)
  PROVE  IndInv'
<1> USE DEF IndInv
<1> DEFINE x == chamadas[p].conexao
           row == [conexoes[x] EXCEPT !.status = IF @ = "conectando" THEN "abandonada" ELSE "fora"]
           chamada == [chamadas[p] EXCEPT !.pc = "desligando"]
<1>1. chamadas[p].pc = "final" /\ x \in Conexoes /\ conexoes[x] \in ConexaoRow /\ chamadas[p].live \in Lives
  BY DEF PararFinal, Tipo, TypeOK, ChamadaCoerente, Parando
<1>2. /\ row \in ConexaoRow /\ row.gravando = conexoes[x].gravando /\ row.live = conexoes[x].live
      /\ row.timer = conexoes[x].timer /\ row.eventos = conexoes[x].eventos
      /\ row.status # "fora" => conexoes[x].status # "fora"
  BY <1>1 DEF ConexaoRow, StatusConexao
<1>3. /\ chamada \in ChamadaRow /\ chamada.pc = "desligando" /\ chamada.conexao = x
      /\ chamada.live = chamadas[p].live
  BY DEF Tipo, TypeOK, ChamadaRow
<1>4. /\ conexoes' = [conexoes EXCEPT ![x] = row] /\ chamadas' = [chamadas EXCEPT ![p] = chamada]
      /\ UNCHANGED <<ativas, snapshots, mapa>>
  BY DEF PararFinal
<1> HIDE DEF row, chamada
<1>5. /\ conexoes' \in [Conexoes -> ConexaoRow] /\ conexoes'[x] = row
      /\ \A y \in Conexoes \ {x} : conexoes'[y] = conexoes[y]
  BY <1>1, <1>2, <1>4 DEF Tipo, TypeOK
<1>6. Chamada(p, chamada)
  BY <1>1, <1>3, <1>4 DEF Chamada
<1>7. /\ chamadas' \in [Chamadores -> ChamadaRow] /\ ChamadaCoerente'
      /\ chamadas'[p] = chamada /\ \A q \in Chamadores \ {p} : chamadas'[q] = chamadas[q]
  BY <1>6, MudarChamada
<1>8. \A y \in Conexoes : /\ conexoes'[y].gravando = conexoes[y].gravando /\ conexoes'[y].timer = conexoes[y].timer
                          /\ conexoes'[y].eventos = conexoes[y].eventos /\ conexoes'[y].live = conexoes[y].live
                          /\ conexoes'[y].status # "fora" => conexoes[y].status # "fora"
  BY <1>2, <1>5
<1>9. TypeOK' /\ ConexaoCoerente'
  BY <1>4, <1>5, <1>7, <1>8 DEF Tipo, TypeOK, ConexaoCoerente
<1>10. \A q \in Chamadores : chamadas[q].pc \in {"flush", "final"} => chamadas[q].conexao \in Conexoes
  BY DEF Tipo, ChamadaCoerente, Parando
<1>11. FlushCoerente'
  BY <1>3, <1>7, <1>8, <1>10 DEF Tipo, FlushCoerente
<1>12. \A q \in Chamadores : chamadas'[q].pc = "final" \/ chamadas'[q].pc = "flush" =>
          q # p /\ chamadas'[q] = chamadas[q] /\ chamadas[q].conexao \in Conexoes
  BY <1>3, <1>7, <1>10
<1>13. \A y \in Conexoes : conexoes'[y].gravando # NULL => conexoes'[y].gravando <= conexoes'[y].eventos
  BY <1>8 DEF FinalInv
<1>14. \A q \in Chamadores : chamadas'[q].pc \in {"flush", "final"} => ~conexoes'[chamadas'[q].conexao].timer
  BY <1>8, <1>12 DEF FinalInv
<1>15. ASSUME NEW q \in Chamadores, chamadas'[q].pc = "final", conexoes'[chamadas'[q].conexao].gravando # NULL
       PROVE  \/ chamadas'[q].valor >= conexoes'[chamadas'[q].conexao].gravando
              \/ \E r \in Chamadores \ {q} : chamadas'[r].pc = "flush" /\ chamadas'[r].conexao = chamadas'[q].conexao
  <2>1. chamadas'[q] = chamadas[q] /\ conexoes'[chamadas[q].conexao].gravando = conexoes[chamadas[q].conexao].gravando
    BY <1>8, <1>12, <1>15
  <2>2. CASE chamadas[q].valor >= conexoes[chamadas[q].conexao].gravando
    BY <2>1, <2>2
  <2>3. CASE \E r \in Chamadores \ {q} : chamadas[r].pc = "flush" /\ chamadas[r].conexao = chamadas[q].conexao
    BY <1>1, <1>7, <2>1, <2>3
  <2> QED BY <1>15, <2>1, <2>2, <2>3 DEF FinalInv
<1>16. FinalInv'
  BY <1>13, <1>14, <1>15 DEF FinalInv
<1> QED BY <1>7, <1>9, <1>11, <1>16 DEF Tipo

LEMMA PassoPararFim ==
  ASSUME IndInv, NEW p \in Chamadores, PararFim(p)
  PROVE  IndInv'
<1> DEFINE row == IF p \in Sincronias THEN [chamadas[p] EXCEPT !.pc = "parar", !.live = NULL, !.conexao = NULL]
                  ELSE ChamadaLivre
<1>1. chamadas[p] \in ChamadaRow /\ chamadas[p].pc = "desligando"
  BY DEF PararFim, IndInv, Tipo, TypeOK
<1>2. row \in ChamadaRow /\ row.pc \in {"parar", "livre"}
  BY <1>1 DEF ChamadaRow, ChamadaLivre
<1>3. /\ chamadas' = [chamadas EXCEPT ![p] = row] /\ UNCHANGED <<ativas, snapshots, conexoes>>
      /\ mapa' = [mapa EXCEPT ![chamadas[p].live] = NULL]
  BY DEF PararFim
<1> HIDE DEF row
<1>4. Chamada(p, row)
  BY <1>2, <1>3 DEF Chamada, Parando
<1>5. ativas' \subseteq Lives /\ snapshots' \in [Lives -> Nat] /\ mapa' \in [Lives -> Conexoes \cup {NULL}]
  BY <1>3 DEF IndInv, Tipo, TypeOK
<1> QED BY <1>1, <1>2, <1>3, <1>4, <1>5, SoChamada

LEMMA PassoAposEncerrar ==
  ASSUME IndInv, NEW q \in Paradas, PararAposEncerrar(q)
  PROVE  IndInv'
<1>1. q \in Chamadores /\ chamadas[q].pc = "encerrou" /\ chamadas[q].live \in Lives
  BY DEF PararAposEncerrar, Chamadores, IndInv, Tipo, ChamadaCoerente
<1>2. CASE mapa[chamadas[q].live] # NULL
  <2>1. Parar(q, chamadas[q].live)
    BY <1>2 DEF PararAposEncerrar
  <2> QED BY <1>1, <1>2, <2>1, PassoParar DEF Parando
<1>3. CASE mapa[chamadas[q].live] = NULL
  <2>1. chamadas' = [chamadas EXCEPT ![q] = ChamadaLivre] /\ UNCHANGED <<ativas, snapshots, mapa, conexoes>>
    BY <1>3 DEF PararAposEncerrar
  <2>2. ChamadaLivre \in ChamadaRow /\ ChamadaLivre.pc = "livre"
    BY DEF ChamadaLivre, ChamadaRow
  <2>3. Chamada(q, ChamadaLivre)
    BY <2>1, <2>2 DEF Chamada, Parando
  <2>4. ativas' \subseteq Lives /\ snapshots' \in [Lives -> Nat] /\ mapa' \in [Lives -> Conexoes \cup {NULL}]
    BY <2>1 DEF IndInv, Tipo, TypeOK
  <2> QED BY <1>1, <2>1, <2>2, <2>3, <2>4, SoChamada
<1> QED BY <1>2, <1>3

-----------------------------------------------------------------------------
(* syncLives, and the end of a live *)

LEMMA PassoConsultar ==
  ASSUME IndInv, NEW p \in Sincronias, Consultar(p)
  PROVE  IndInv'
<1> DEFINE row == [chamadas[p] EXCEPT !.pc = "parar", !.lidas = ativas]
<1>1. p \in Chamadores /\ chamadas[p] \in ChamadaRow /\ chamadas[p].pc = "livre" /\ ativas \subseteq Lives
  BY DEF Consultar, Chamadores, IndInv, Tipo, TypeOK
<1>2. row \in ChamadaRow /\ row.pc = "parar"
  BY <1>1 DEF ChamadaRow
<1>3. chamadas' = [chamadas EXCEPT ![p] = row] /\ UNCHANGED <<ativas, snapshots, mapa, conexoes>>
  BY DEF Consultar
<1> HIDE DEF row
<1>4. Chamada(p, row)
  BY <1>2, <1>3 DEF Chamada, Parando
<1>5. ativas' \subseteq Lives /\ snapshots' \in [Lives -> Nat] /\ mapa' \in [Lives -> Conexoes \cup {NULL}]
  BY <1>3 DEF IndInv, Tipo, TypeOK
<1> QED BY <1>1, <1>2, <1>3, <1>4, <1>5, SoChamada

LEMMA PassoPararSobrando ==
  ASSUME IndInv, NEW p \in Sincronias, PararSobrando(p)
  PROVE  IndInv'
<1>1. PICK l \in Sobrando(p) : Parar(p, l)
  BY DEF PararSobrando
<1>2. l \in Lives /\ mapa[l] # NULL /\ p \in Chamadores /\ chamadas[p].pc \notin Parando
  BY <1>1 DEF Sobrando, NoMapa, Chamadores, PararSobrando, Parando
<1> QED BY <1>1, <1>2, PassoParar

LEMMA PassoIniciar ==
  ASSUME IndInv, NEW p \in Sincronias, IniciarFaltando(p)
  PROVE  IndInv'
<1>1. /\ p \in Chamadores /\ chamadas[p] \in ChamadaRow /\ chamadas[p].pc \in {"parar", "iniciar"}
      /\ UNCHANGED <<ativas, snapshots, mapa, conexoes>>
  BY DEF IniciarFaltando, Chamadores, IndInv, Tipo, TypeOK
<1>2. PICK faltam \in SUBSET Lives : Percorrer(p, faltam)
  BY <1>1 DEF IniciarFaltando, ChamadaRow
<1>3. \E row \in ChamadaRow : /\ chamadas' = [chamadas EXCEPT ![p] = row] /\ row.pc \in {"produtos", "livre"}
                              /\ row.pc = "produtos" => row.live \in Lives
  <2> DEFINE Escrita(row) == /\ chamadas' = [chamadas EXCEPT ![p] = row] /\ row.pc \in {"produtos", "livre"}
                             /\ row.pc = "produtos" => row.live \in Lives
  <2>1. ASSUME NEW l \in faltam, NEW passadas \in SUBSET (faltam \ {l}),
               chamadas' = [chamadas EXCEPT ![p] = [@ EXCEPT !.pc = "produtos", !.live = l,
                                                             !.faltam = faltam \ (passadas \cup {l})]]
        PROVE  \E row \in ChamadaRow : Escrita(row)
    <3> DEFINE row == [chamadas[p] EXCEPT !.pc = "produtos", !.live = l, !.faltam = faltam \ (passadas \cup {l})]
    <3>1. row \in ChamadaRow /\ row.pc = "produtos" /\ row.live \in Lives
      BY <1>1, <1>2, <2>1 DEF ChamadaRow
    <3>2. chamadas' = [chamadas EXCEPT ![p] = row]
      BY <2>1
    <3> QED BY <3>1, <3>2
  <2>2. ASSUME chamadas' = [chamadas EXCEPT ![p] = ChamadaLivre] PROVE \E row \in ChamadaRow : Escrita(row)
    <3>1. ChamadaLivre \in ChamadaRow /\ ChamadaLivre.pc = "livre"
      BY DEF ChamadaLivre, ChamadaRow
    <3> QED BY <2>2, <3>1
  <2> QED BY <1>2, <2>1, <2>2 DEF Percorrer
<1>4. PICK row \in ChamadaRow : /\ chamadas' = [chamadas EXCEPT ![p] = row] /\ row.pc \in {"produtos", "livre"}
                                /\ row.pc = "produtos" => row.live \in Lives
  BY <1>3
<1>5. Chamada(p, row)
  BY <1>4 DEF Chamada, Parando
<1>6. ativas' \subseteq Lives /\ snapshots' \in [Lives -> Nat] /\ mapa' \in [Lives -> Conexoes \cup {NULL}]
  BY <1>1 DEF IndInv, Tipo, TypeOK
<1> QED BY <1>1, <1>4, <1>5, <1>6, SoChamada

LEMMA PassoRegistrar ==
  ASSUME IndInv, NEW p \in Sincronias, Registrar(p)
  PROVE  IndInv'
<1> USE DEF IndInv
<1> DEFINE l == chamadas[p].live
           row == [ConexaoFora EXCEPT !.status = "conectando", !.live = l, !.timer = TRUE]
           chamada == [chamadas[p] EXCEPT !.pc = "iniciar", !.live = NULL]
<1>1. p \in Chamadores /\ chamadas[p] \in ChamadaRow /\ chamadas[p].pc = "produtos" /\ l \in Lives
  BY DEF Registrar, Chamadores, Tipo, TypeOK, ChamadaCoerente
<1>2. PICK x \in Conexoes : /\ IdLivre(x)
                            /\ conexoes' = [conexoes EXCEPT ![x] = row]
                            /\ mapa' = [mapa EXCEPT ![l] = x]
  BY DEF Registrar
<1>3. /\ row \in ConexaoRow /\ row.live = l /\ row.gravando = NULL
  BY <1>1 DEF ConexaoFora, ConexaoRow, StatusConexao
<1>4. chamada \in ChamadaRow /\ chamada.pc = "iniciar"
  BY <1>1 DEF ChamadaRow
<1>5. chamadas' = [chamadas EXCEPT ![p] = chamada] /\ UNCHANGED <<ativas, snapshots>>
  BY DEF Registrar
<1> HIDE DEF row, chamada
<1>6. /\ conexoes' \in [Conexoes -> ConexaoRow] /\ conexoes'[x] = row
      /\ \A y \in Conexoes \ {x} : conexoes'[y] = conexoes[y]
  BY <1>2, <1>3 DEF Tipo, TypeOK
<1>7. Chamada(p, chamada)
  BY <1>4, <1>5 DEF Chamada, Parando
<1>8. /\ chamadas' \in [Chamadores -> ChamadaRow] /\ ChamadaCoerente'
      /\ chamadas'[p] = chamada /\ \A q \in Chamadores \ {p} : chamadas'[q] = chamadas[q]
  BY <1>1, <1>7, MudarChamada
<1>9. TypeOK' /\ ConexaoCoerente'
  BY <1>1, <1>2, <1>3, <1>5, <1>6, <1>8 DEF Tipo, TypeOK, ConexaoCoerente
<1>10. \A q \in Chamadores : chamadas'[q].pc \in {"flush", "final"} =>
          /\ chamadas'[q] = chamadas[q] /\ chamadas[q].conexao \in Conexoes \ {x}
          /\ conexoes'[chamadas[q].conexao] = conexoes[chamadas[q].conexao]
  BY <1>2, <1>4, <1>6, <1>8 DEF IdLivre, Tipo, ChamadaCoerente, Parando
<1>11. FlushCoerente'
  BY <1>10 DEF Tipo, FlushCoerente
<1>12. \A y \in Conexoes : conexoes'[y].gravando # NULL => conexoes'[y].gravando <= conexoes'[y].eventos
  BY <1>3, <1>6 DEF FinalInv
<1>13. \A q \in Chamadores : chamadas'[q].pc \in {"flush", "final"} => ~conexoes'[chamadas'[q].conexao].timer
  BY <1>10 DEF FinalInv
<1>14. ASSUME NEW q \in Chamadores, chamadas'[q].pc = "final", conexoes'[chamadas'[q].conexao].gravando # NULL
       PROVE  \/ chamadas'[q].valor >= conexoes'[chamadas'[q].conexao].gravando
              \/ \E r \in Chamadores \ {q} : chamadas'[r].pc = "flush" /\ chamadas'[r].conexao = chamadas'[q].conexao
  <2>1. CASE chamadas[q].valor >= conexoes[chamadas[q].conexao].gravando
    BY <1>10, <1>14, <2>1
  <2>2. CASE \E r \in Chamadores \ {q} : chamadas[r].pc = "flush" /\ chamadas[r].conexao = chamadas[q].conexao
    BY <1>1, <1>8, <1>10, <1>14, <2>2
  <2> QED BY <1>10, <1>14, <2>1, <2>2 DEF FinalInv
<1>15. FinalInv'
  BY <1>12, <1>13, <1>14 DEF FinalInv
<1> QED BY <1>8, <1>9, <1>11, <1>15 DEF Tipo

LEMMA PassoLives ==
  ASSUME IndInv, NEW l \in Lives, LiveEntra(l) \/ LiveSai(l)
  PROVE  IndInv'
<1>1. ativas' \subseteq Lives /\ UNCHANGED <<snapshots, mapa, conexoes, chamadas>>
  BY DEF LiveEntra, LiveSai, IndInv, Tipo, TypeOK
<1> QED BY <1>1 DEF IndInv, Tipo, TypeOK, ChamadaCoerente, ConexaoCoerente, FlushCoerente, FinalInv

LEMMA PassoEncerrar ==
  ASSUME IndInv, NEW q \in Paradas, NEW l \in Lives, Encerrar(q, l)
  PROVE  IndInv'
<1> DEFINE row == [chamadas[q] EXCEPT !.pc = "encerrou", !.live = l]
<1>1. q \in Chamadores /\ chamadas[q] \in ChamadaRow /\ chamadas[q].pc = "livre"
  BY DEF Encerrar, Chamadores, IndInv, Tipo, TypeOK
<1>2. row \in ChamadaRow /\ row.pc = "encerrou" /\ row.live = l
  BY <1>1 DEF ChamadaRow
<1>3. chamadas' = [chamadas EXCEPT ![q] = row] /\ ativas' = ativas \ {l} /\ UNCHANGED <<snapshots, mapa, conexoes>>
  BY DEF Encerrar
<1> HIDE DEF row
<1>4. Chamada(q, row)
  BY <1>2, <1>3 DEF Chamada, Parando
<1>5. ativas' \subseteq Lives /\ snapshots' \in [Lives -> Nat] /\ mapa' \in [Lives -> Conexoes \cup {NULL}]
  BY <1>3 DEF IndInv, Tipo, TypeOK
<1> QED BY <1>1, <1>2, <1>3, <1>4, <1>5, SoChamada

-----------------------------------------------------------------------------
(* The handlers of a connection. *)

LEMMA PassoConectou ==
  ASSUME IndInv, NEW x \in Conexoes, Conectou(x) \/ Cair(x)
  PROVE  IndInv'
<1>1. PICK s \in {"ligada", "fora", "caiu"} :
        /\ conexoes' = [conexoes EXCEPT ![x].status = s]
        /\ s # "fora" => conexoes[x].status # "fora"
        /\ UNCHANGED <<ativas, snapshots, mapa, chamadas>>
  BY DEF Conectou, Cair
<1> DEFINE row == [conexoes[x] EXCEPT !.status = s]
<1>2. conexoes[x] \in ConexaoRow
  BY DEF IndInv, Tipo, TypeOK
<1>3. /\ row \in ConexaoRow /\ row.status = s /\ row.live = conexoes[x].live
      /\ row.gravando = conexoes[x].gravando /\ row.eventos = conexoes[x].eventos
      /\ row.timer = conexoes[x].timer
  BY <1>2 DEF ConexaoRow, StatusConexao
<1>4. conexoes' = [conexoes EXCEPT ![x] = row]
  BY <1>1
<1> HIDE DEF row
<1>5. /\ row.status # "fora" => row.live \in Lives
      /\ row.gravando # NULL => row.gravando <= row.eventos
  BY <1>1, <1>3 DEF IndInv, Tipo, ConexaoCoerente, FinalInv
<1>6. \A p \in Chamadores : chamadas[p].conexao = x =>
        /\ chamadas[p].pc \in {"flush", "final"} => ~row.timer
        /\ chamadas[p].pc = "flush" => row.gravando # NULL
        /\ chamadas[p].pc = "final" => row.gravando = NULL \/ row.gravando = conexoes[x].gravando
  BY <1>3 DEF IndInv, Tipo, FlushCoerente, FinalInv
<1>7. ativas' \subseteq Lives /\ snapshots' \in [Lives -> Nat] /\ mapa' \in [Lives -> Conexoes \cup {NULL}]
  BY <1>1 DEF IndInv, Tipo, TypeOK
<1>8. TrocaConexao(x, row)
  BY <1>1, <1>3, <1>4, <1>5, <1>6, <1>7 DEF TrocaConexao
<1> QED BY <1>7, <1>8, SoConexao

LEMMA PassoNaoConectou ==
  ASSUME IndInv, NEW x \in Conexoes, NaoConectou(x)
  PROVE  IndInv'
<1> DEFINE row == [conexoes[x] EXCEPT !.status = "fora", !.timer = FALSE]
<1>1. /\ conexoes' = [conexoes EXCEPT ![x] = row] /\ UNCHANGED <<ativas, snapshots, chamadas>>
      /\ mapa' = [mapa EXCEPT ![conexoes[x].live] = NULL]
  BY DEF NaoConectou
<1>2. conexoes[x] \in ConexaoRow
  BY DEF IndInv, Tipo, TypeOK
<1>3. /\ row \in ConexaoRow /\ row.status = "fora" /\ row.timer = FALSE
      /\ row.gravando = conexoes[x].gravando /\ row.eventos = conexoes[x].eventos
  BY <1>2 DEF ConexaoRow, StatusConexao
<1> HIDE DEF row
<1>5. row.gravando # NULL => row.gravando <= row.eventos
  BY <1>3 DEF IndInv, FinalInv
<1>6. \A p \in Chamadores : chamadas[p].conexao = x =>
        /\ chamadas[p].pc \in {"flush", "final"} => ~row.timer
        /\ chamadas[p].pc = "flush" => row.gravando # NULL
        /\ chamadas[p].pc = "final" => row.gravando = NULL \/ row.gravando = conexoes[x].gravando
  BY <1>3 DEF IndInv, Tipo, FlushCoerente
<1>7. ativas' \subseteq Lives /\ snapshots' \in [Lives -> Nat] /\ mapa' \in [Lives -> Conexoes \cup {NULL}]
  BY <1>1 DEF IndInv, Tipo, TypeOK
<1>8. TrocaConexao(x, row)
  BY <1>1, <1>3, <1>5, <1>6, <1>7 DEF TrocaConexao
<1> QED BY <1>7, <1>8, SoConexao

LEMMA PassoReceber ==
  ASSUME IndInv, NEW x \in Conexoes, Receber(x)
  PROVE  IndInv'
<1> DEFINE row == [conexoes[x] EXCEPT !.eventos = conexoes[x].eventos + 1, !.dirty = TRUE]
<1>1. conexoes[x].status = "ligada" /\ UNCHANGED <<ativas, snapshots, mapa, chamadas>>
  BY DEF Receber
<1>2. conexoes[x] \in ConexaoRow
  BY DEF IndInv, Tipo, TypeOK
<1>3. conexoes' = [conexoes EXCEPT ![x] = row]
  BY DEF Receber
<1>4. /\ row \in ConexaoRow /\ row.status = conexoes[x].status /\ row.live = conexoes[x].live
      /\ row.gravando = conexoes[x].gravando /\ row.eventos = conexoes[x].eventos + 1
      /\ row.timer = conexoes[x].timer
      /\ conexoes[x].eventos \in Nat /\ conexoes[x].gravando \in Nat \cup {NULL}
  <2>1. conexoes[x].eventos \in Nat /\ conexoes[x].gravando \in Nat \cup {NULL}
    BY <1>2 DEF ConexaoRow
  <2> DEFINE n == conexoes[x].eventos + 1
  <2>2. n \in Nat
    BY <2>1
  <2> HIDE DEF n
  <2>3. LET r == [conexoes[x] EXCEPT !.eventos = n, !.dirty = TRUE]
        IN  /\ r \in ConexaoRow /\ r.status = conexoes[x].status /\ r.live = conexoes[x].live
            /\ r.gravando = conexoes[x].gravando /\ r.eventos = n /\ r.timer = conexoes[x].timer
    BY <1>2, <2>2 DEF ConexaoRow
  <2> QED BY <2>1, <2>3 DEF n
<1> HIDE DEF row
<1>5. row.status # "fora" => row.live \in Lives
  BY <1>4 DEF IndInv, Tipo, ConexaoCoerente
<1>6. row.gravando # NULL => row.gravando <= row.eventos
  BY <1>4 DEF IndInv, FinalInv
<1>7. \A p \in Chamadores : chamadas[p].conexao = x =>
        /\ chamadas[p].pc \in {"flush", "final"} => ~row.timer
        /\ chamadas[p].pc = "flush" => row.gravando # NULL
        /\ chamadas[p].pc = "final" => row.gravando = NULL \/ row.gravando = conexoes[x].gravando
  BY <1>4 DEF IndInv, Tipo, FlushCoerente, FinalInv
<1>8. ativas' \subseteq Lives /\ snapshots' \in [Lives -> Nat] /\ mapa' \in [Lives -> Conexoes \cup {NULL}]
  BY <1>1 DEF IndInv, Tipo, TypeOK
<1>9. TrocaConexao(x, row)
  BY <1>1, <1>3, <1>4, <1>5, <1>6, <1>7, <1>8 DEF TrocaConexao
<1> QED BY <1>8, <1>9, SoConexao

(* The timer is on, so that no stop of the connection is past its first step. *)
LEMMA PassoFlush ==
  ASSUME IndInv, NEW x \in Conexoes, Flush(x)
  PROVE  IndInv'
<1> DEFINE row == [conexoes[x] EXCEPT !.gravando = conexoes[x].eventos]
<1>1. /\ conexoes' = [conexoes EXCEPT ![x] = row] /\ UNCHANGED <<ativas, snapshots, mapa, chamadas>>
      /\ conexoes[x].timer
  BY DEF Flush
<1>2. conexoes[x] \in ConexaoRow
  BY DEF IndInv, Tipo, TypeOK
<1>3. /\ row \in ConexaoRow /\ row.status = conexoes[x].status /\ row.live = conexoes[x].live
      /\ row.gravando = row.eventos /\ row.eventos \in Nat
  BY <1>2 DEF ConexaoRow
<1> HIDE DEF row
<1>4. /\ row.status # "fora" => row.live \in Lives
      /\ row.gravando <= row.eventos
  BY <1>3 DEF IndInv, Tipo, ConexaoCoerente
<1>5. \A p \in Chamadores : chamadas[p].conexao = x => chamadas[p].pc \notin {"flush", "final"}
  BY <1>1 DEF IndInv, FinalInv
<1>6. ativas' \subseteq Lives /\ snapshots' \in [Lives -> Nat] /\ mapa' \in [Lives -> Conexoes \cup {NULL}]
  BY <1>1 DEF IndInv, Tipo, TypeOK
<1>7. TrocaConexao(x, row)
  BY <1>1, <1>3, <1>4, <1>5, <1>6 DEF TrocaConexao
<1> QED BY <1>6, <1>7, SoConexao

LEMMA PassoFlushGravou ==
  ASSUME IndInv, NEW x \in Conexoes, FlushGravou(x)
  PROVE  IndInv'
<1>1. PICK ok \in BOOLEAN : Gravado(x, ok)
  BY DEF FlushGravou
<1> DEFINE row == [conexoes[x] EXCEPT !.gravando = NULL, !.dirty = ~ok /\ conexoes[x].dirty]
<1>2. conexoes[x] \in ConexaoRow /\ conexoes[x].gravando \in Nat
  BY DEF FlushGravou, IndInv, Tipo, TypeOK, ConexaoRow
<1>3. /\ row \in ConexaoRow /\ row.status = conexoes[x].status /\ row.live = conexoes[x].live
      /\ row.gravando = NULL /\ row.timer = conexoes[x].timer
  BY <1>2 DEF ConexaoRow
<1>4. conexoes' = [conexoes EXCEPT ![x] = row]
  BY <1>1 DEF Gravado
<1>5. UNCHANGED <<ativas, mapa, chamadas>>
  BY DEF FlushGravou
<1>6. snapshots' \in [Lives -> Nat]
  BY <1>1, <1>2 DEF Gravado, IndInv, Tipo, TypeOK
<1> HIDE DEF row
<1>7. row.status # "fora" => row.live \in Lives
  BY <1>3 DEF IndInv, Tipo, ConexaoCoerente
<1>8. \A p \in Chamadores : chamadas[p].conexao = x =>
        /\ chamadas[p].pc \in {"flush", "final"} => ~row.timer
        /\ chamadas[p].pc # "flush"
  BY <1>3 DEF FlushGravou, IndInv, FinalInv
<1>9. ativas' \subseteq Lives /\ mapa' \in [Lives -> Conexoes \cup {NULL}]
  BY <1>5 DEF IndInv, Tipo, TypeOK
<1>10. TrocaConexao(x, row)
  BY <1>3, <1>4, <1>5, <1>6, <1>7, <1>8, <1>9 DEF TrocaConexao
<1> QED BY <1>6, <1>9, <1>10, SoConexao

LEMMA PassoStreamEnd ==
  ASSUME IndInv, NEW q \in Paradas, NEW x \in Conexoes, StreamEnd(q, x)
  PROVE  IndInv'
<1>1. /\ q \in Chamadores /\ conexoes[x].live \in Lives /\ chamadas[q].pc \notin Parando
      /\ mapa[conexoes[x].live] # NULL /\ Parar(q, conexoes[x].live)
  BY DEF StreamEnd, Chamadores, Parando, IndInv, Tipo, ConexaoCoerente
<1> QED BY <1>1, PassoParar

LEMMA PassoNext == IndInv /\ [Next]_vars => IndInv'
<1> SUFFICES ASSUME IndInv, [Next]_vars PROVE IndInv'
  OBVIOUS
<1>1. ASSUME NEW l \in Lives, LiveEntra(l) \/ LiveSai(l) PROVE IndInv'
  BY <1>1, PassoLives
<1>2. ASSUME NEW q \in Paradas, NEW l \in Lives, Encerrar(q, l) PROVE IndInv'
  BY <1>2, PassoEncerrar
<1>3. ASSUME NEW q \in Paradas, PararAposEncerrar(q) PROVE IndInv'
  BY <1>3, PassoAposEncerrar
<1>4. ASSUME NEW p \in Sincronias, Sincronizar(p) PROVE IndInv'
  BY <1>4, PassoConsultar, PassoPararSobrando, PassoIniciar, PassoRegistrar DEF Sincronizar
<1>5. ASSUME NEW p \in Chamadores, ContinuarParada(p) PROVE IndInv'
  BY <1>5, PassoPararGravou, PassoPararFinal, PassoPararFim DEF ContinuarParada
<1>6. ASSUME NEW x \in Conexoes, Conexao(x) PROVE IndInv'
  BY <1>6, PassoConectou, PassoNaoConectou, PassoReceber, PassoFlush, PassoFlushGravou, PassoStreamEnd
     DEF Conexao
<1>7. CASE UNCHANGED vars
  BY <1>7 DEF vars, IndInv, Tipo, TypeOK, ChamadaCoerente, ConexaoCoerente, FlushCoerente, FinalInv
<1> QED BY <1>1, <1>2, <1>3, <1>4, <1>5, <1>6, <1>7 DEF Next

LEMMA SpecInv == Spec => []IndInv
BY InitInv, PassoNext, PTL DEF Spec

(* The map, the connections and the calls in flight keep their types; in particular a *)
(* call that resumes names a live, and the connection it captured.                     *)
THEOREM TypeCorrect == Spec => []TypeOK
<1>1. IndInv => TypeOK
  BY DEF IndInv, Tipo
<1> QED BY SpecInv, <1>1, PTL

(* What stopConnector writes to the live covers the INSERT its connection has in flight, *)
(* unless a second stop of that connection is in flight: the timer is off from the first *)
(* step of a stop on, so that what is in flight was sent before.                         *)
THEOREM FinalCorrect == Spec => []FinalCobreFlush
<1>1. IndInv => FinalCobreFlush
  BY DEF IndInv, FinalInv, FinalCobreFlush
<1> QED BY SpecInv, <1>1, PTL

-----------------------------------------------------------------------------
(* The limit.  The entry is set after the await that follows the look at the map, so  *)
(* that a call which has looked holds a place nobody else sees: Registrando.  The look *)
(* is the only step that adds to the places taken, and it found one of the limit free. *)

(* The steps that leave the map and the calls of syncLives no larger. *)
NaoOcupa == NoMapa' \subseteq NoMapa /\ Registrando' \subseteq Registrando

LEMMA Finitos ==
  ASSUME IsFiniteSet(Lives), IsFiniteSet(Sincronias)
  PROVE  /\ IsFiniteSet(NoMapa) /\ IsFiniteSet(Registrando)
         /\ Cardinality(NoMapa) \in Nat /\ Cardinality(Registrando) \in Nat
         /\ Cardinality(Sincronias) \in Nat /\ Cardinality(Sincronias) >= 1
<1>1. NoMapa \subseteq Lives /\ Registrando \subseteq Sincronias
  BY DEF NoMapa, Registrando
<1>2. IsFiniteSet(NoMapa) /\ IsFiniteSet(Registrando)
  BY <1>1, FS_Subset
<1>3. Cardinality(Sincronias) # 0
  BY ManagerAssumption, FS_EmptySet
<1> QED BY <1>2, <1>3, FS_CardinalityType

LEMMA MenosOcupadas ==
  ASSUME IsFiniteSet(Lives), IsFiniteSet(Sincronias), RespeitaLimite, NaoOcupa
  PROVE  RespeitaLimite'
<1>1. /\ Cardinality(NoMapa') <= Cardinality(NoMapa)
      /\ Cardinality(Registrando') <= Cardinality(Registrando)
      /\ Cardinality(NoMapa') \in Nat /\ Cardinality(Registrando') \in Nat
  BY Finitos, FS_Subset, FS_CardinalityType DEF NaoOcupa
<1> QED BY <1>1, Finitos, ManagerAssumption DEF RespeitaLimite

(* The look: the live it picks is in no entry and there is a place left in the map. *)
LEMMA IniciarLimite ==
  ASSUME IsFiniteSet(Lives), IsFiniteSet(Sincronias), IndInv, RespeitaLimite,
         NEW p \in Sincronias, IniciarFaltando(p)
  PROVE  RespeitaLimite'
<1>1. p \in Chamadores /\ chamadas \in [Chamadores -> ChamadaRow] /\ UNCHANGED mapa
  BY DEF IniciarFaltando, Chamadores, IndInv, Tipo, TypeOK
<1>2. NoMapa' = NoMapa
  BY <1>1 DEF NoMapa
<1>3. PICK faltam \in SUBSET Lives : Percorrer(p, faltam)
  BY <1>1 DEF IniciarFaltando, ChamadaRow
<1>4. CASE Cardinality(NoMapa) < MAX_CONNECTORS
  <2>1. IsFiniteSet(Registrando') /\ Registrando' \subseteq Sincronias
    BY FS_Subset DEF Registrando
  <2>2. Cardinality(Registrando') <= Cardinality(Sincronias) /\ Cardinality(Registrando') \in Nat
    BY <2>1, FS_Subset, FS_CardinalityType
  <2> QED BY <1>2, <1>4, <2>2, Finitos, ManagerAssumption DEF RespeitaLimite
<1>5. CASE ~(Cardinality(NoMapa) < MAX_CONNECTORS)
  <2>1. chamadas' = [chamadas EXCEPT ![p] = ChamadaLivre]
    BY <1>3, <1>5 DEF Percorrer, PodeIniciar
  <2>2. Registrando' \subseteq Registrando
    BY <1>1, <2>1 DEF Registrando, ChamadaLivre, Chamadores
  <2> QED BY <1>2, <2>2, MenosOcupadas DEF NaoOcupa
<1> QED BY <1>4, <1>5

(* The entry: the place held becomes one of the map. *)
LEMMA RegistrarLimite ==
  ASSUME IsFiniteSet(Lives), IsFiniteSet(Sincronias), IndInv, RespeitaLimite,
         NEW p \in Sincronias, Registrar(p)
  PROVE  RespeitaLimite'
<1> DEFINE l == chamadas[p].live
<1>1. p \in Chamadores /\ chamadas \in [Chamadores -> ChamadaRow] /\ mapa \in [Lives -> Conexoes \cup {NULL}]
  BY DEF Chamadores, IndInv, Tipo, TypeOK
<1>2. chamadas[p].pc = "produtos" /\ chamadas'[p].pc = "iniciar"
      /\ \A q \in Chamadores \ {p} : chamadas'[q] = chamadas[q]
  BY <1>1 DEF Registrar, ChamadaRow
<1>3. p \in Registrando /\ Registrando' = Registrando \ {p}
  BY <1>2 DEF Registrando, Chamadores
<1>4. Cardinality(Registrando') = Cardinality(Registrando) - 1
  BY <1>3, Finitos, FS_RemoveElement
<1>5. NoMapa' \subseteq NoMapa \cup {l}
  BY <1>1 DEF Registrar, NoMapa
<1>6. Cardinality(NoMapa') <= Cardinality(NoMapa) + 1 /\ Cardinality(NoMapa') \in Nat
  <2>1. IsFiniteSet(NoMapa \cup {l}) /\ Cardinality(NoMapa \cup {l}) <= Cardinality(NoMapa) + 1
    <3>1. CASE l \in NoMapa
      <4>1. NoMapa \cup {l} = NoMapa
        BY <3>1
      <4> QED BY <4>1, Finitos
    <3>2. CASE l \notin NoMapa
      <4> HIDE DEF l
      <4>1. IsFiniteSet(NoMapa) /\ Cardinality(NoMapa) \in Nat
        BY Finitos
      <4>2. IsFiniteSet(NoMapa \cup {l}) /\ Cardinality(NoMapa \cup {l}) = Cardinality(NoMapa) + 1
        BY <3>2, <4>1, FS_AddElement
      <4> QED BY <4>1, <4>2
    <3> QED BY <3>1, <3>2
  <2>2. /\ IsFiniteSet(NoMapa') /\ Cardinality(NoMapa') <= Cardinality(NoMapa \cup {l})
        /\ Cardinality(NoMapa \cup {l}) \in Nat /\ Cardinality(NoMapa') \in Nat
    BY <1>5, <2>1, FS_Subset, FS_CardinalityType
  <2> QED BY <2>1, <2>2, Finitos
<1> QED BY <1>4, <1>6, Finitos, ManagerAssumption DEF RespeitaLimite

LEMMA PararOcupa ==
  ASSUME IndInv, NEW p \in Chamadores, NEW l \in Lives, Parar(p, l)
  PROVE  NaoOcupa
<1>1. UNCHANGED mapa /\ chamadas \in [Chamadores -> ChamadaRow]
  BY DEF Parar, IndInv, Tipo, TypeOK
<1>2. chamadas'[p].pc # "produtos" /\ \A q \in Chamadores \ {p} : chamadas'[q] = chamadas[q]
  BY <1>1 DEF Parar, ChamadaRow
<1> QED BY <1>1, <1>2 DEF NaoOcupa, NoMapa, Registrando, Chamadores

LEMMA SincronizarLimite ==
  ASSUME IsFiniteSet(Lives), IsFiniteSet(Sincronias), IndInv, RespeitaLimite,
         NEW p \in Sincronias, Sincronizar(p)
  PROVE  RespeitaLimite'
<1>1. p \in Chamadores /\ chamadas \in [Chamadores -> ChamadaRow]
  BY DEF Chamadores, IndInv, Tipo, TypeOK
<1>2. CASE Consultar(p)
  <2>1. chamadas'[p].pc = "parar" /\ UNCHANGED mapa
        /\ \A q \in Chamadores \ {p} : chamadas'[q] = chamadas[q]
    BY <1>1, <1>2 DEF Consultar, ChamadaRow
  <2>2. NaoOcupa
    BY <2>1 DEF NaoOcupa, NoMapa, Registrando, Chamadores
  <2> QED BY <2>2, MenosOcupadas
<1>3. CASE PararSobrando(p)
  <2>1. PICK l \in Lives : Parar(p, l)
    BY <1>3 DEF PararSobrando, Sobrando, NoMapa
  <2> QED BY <1>1, <2>1, PararOcupa, MenosOcupadas
<1> QED BY <1>2, <1>3, IniciarLimite, RegistrarLimite DEF Sincronizar

LEMMA ContinuarOcupa ==
  ASSUME IndInv, NEW p \in Chamadores, ContinuarParada(p)
  PROVE  NaoOcupa
<1>1. chamadas \in [Chamadores -> ChamadaRow] /\ mapa \in [Lives -> Conexoes \cup {NULL}]
  BY DEF IndInv, Tipo, TypeOK
<1>2. chamadas'[p].pc # "produtos" /\ \A q \in Chamadores \ {p} : chamadas'[q] = chamadas[q]
  <2>1. CASE PararGravou(p)
    BY <1>1, <2>1 DEF PararGravou, ChamadaRow
  <2>2. CASE PararFinal(p)
    BY <1>1, <2>2 DEF PararFinal, ChamadaRow
  <2>3. CASE PararFim(p)
    BY <1>1, <2>3 DEF PararFim, ChamadaRow, ChamadaLivre
  <2> QED BY <2>1, <2>2, <2>3 DEF ContinuarParada
<1>3. \A l \in Lives : mapa'[l] # NULL => mapa[l] # NULL
  BY <1>1 DEF ContinuarParada, PararGravou, PararFinal, PararFim
<1> QED BY <1>2, <1>3 DEF NaoOcupa, NoMapa, Registrando, Chamadores

LEMMA ConexaoOcupa ==
  ASSUME IndInv, NEW x \in Conexoes, Conexao(x)
  PROVE  NaoOcupa
<1>1. ASSUME NEW q \in Paradas, StreamEnd(q, x) PROVE NaoOcupa
  <2>1. q \in Chamadores /\ conexoes[x].live \in Lives /\ Parar(q, conexoes[x].live)
    BY <1>1 DEF StreamEnd, Chamadores, IndInv, Tipo, ConexaoCoerente
  <2> QED BY <2>1, PararOcupa
<1>2. ASSUME Conectou(x) \/ NaoConectou(x) \/ Receber(x) \/ Cair(x) \/ Flush(x) \/ FlushGravou(x)
      PROVE  NaoOcupa
  <2>1. mapa \in [Lives -> Conexoes \cup {NULL}]
    BY DEF IndInv, Tipo, TypeOK
  <2>2. UNCHANGED chamadas /\ \A l \in Lives : mapa'[l] # NULL => mapa[l] # NULL
    BY <1>2, <2>1 DEF Conectou, NaoConectou, Receber, Cair, Flush, FlushGravou
  <2> QED BY <2>2 DEF NaoOcupa, NoMapa, Registrando
<1> QED BY <1>1, <1>2 DEF Conexao

LEMMA EncerrarOcupa ==
  ASSUME IndInv, NEW q \in Paradas, PararAposEncerrar(q) \/ \E l \in Lives : Encerrar(q, l)
  PROVE  NaoOcupa
<1>1. q \in Chamadores /\ q \notin Sincronias /\ chamadas \in [Chamadores -> ChamadaRow]
  BY ManagerAssumption DEF Chamadores, IndInv, Tipo, TypeOK
<1>2. UNCHANGED mapa /\ \A p \in Sincronias : chamadas'[p] = chamadas[p]
  BY <1>1 DEF PararAposEncerrar, Parar, Encerrar, Chamadores
<1> QED BY <1>2 DEF NaoOcupa, NoMapa, Registrando

(* However many reconciliations overlap, the map stays within MAX_CONNECTORS but for one *)
(* connector per call that overlaps another, counting those about to be registered; with *)
(* one call the limit is exact, although it is looked at before an await.                *)
THEOREM LimiteCorrect ==
  ASSUME IsFiniteSet(Lives), IsFiniteSet(Sincronias)
  PROVE  Spec => []RespeitaLimite
<1>1. Init => RespeitaLimite
  <2>1. ASSUME Init PROVE NoMapa = {} /\ Registrando = {}
    BY <2>1 DEF Init, NoMapa, Registrando, Chamadores, ChamadaLivre
  <2> QED BY <2>1, Finitos, FS_EmptySet, ManagerAssumption DEF RespeitaLimite
<1>2. IndInv /\ RespeitaLimite /\ [Next]_vars => RespeitaLimite'
  <2> SUFFICES ASSUME IndInv, RespeitaLimite, [Next]_vars PROVE RespeitaLimite'
    OBVIOUS
  <2>1. ASSUME NEW l \in Lives, LiveEntra(l) \/ LiveSai(l) PROVE NaoOcupa
    BY <2>1 DEF LiveEntra, LiveSai, NaoOcupa, NoMapa, Registrando
  <2>2. ASSUME NEW p \in Sincronias, Sincronizar(p) PROVE RespeitaLimite'
    BY <2>2, SincronizarLimite
  <2>3. CASE UNCHANGED vars
    <3>1. NaoOcupa
      BY <2>3 DEF vars, NaoOcupa, NoMapa, Registrando
    <3> QED BY <3>1, MenosOcupadas
  <2> QED BY <2>1, <2>2, <2>3, EncerrarOcupa, ContinuarOcupa, ConexaoOcupa, MenosOcupadas DEF Next
<1> QED BY SpecInv, <1>1, <1>2, PTL DEF Spec
=============================================================================
