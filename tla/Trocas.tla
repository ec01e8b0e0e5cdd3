-------------------------------- MODULE Trocas --------------------------------
(***************************************************************************)
(* Two handlers that replace a whole set of rows, DELETE and INSERT in one *)
(* transaction: the weekly hours of a presenter, under a lock on the       *)
(* presenter, and the units of a regional manager, under none.             *)
(*                                                                         *)
(* A DELETE removes the rows of its snapshot; rows another transaction     *)
(* commits later survive it, and the unique key refuses them twice.  Which *)
(* of two replacements waits for the other is left open.                   *)
(***************************************************************************)
EXTENDS FiniteSets

CONSTANTS
  Itens,    \* hours of the week, and units
  Pedidos,  \* bound: requests in flight
  NULL

VARIABLES
  grade,    \* apresentadora_disponibilidade of a presenter
  acesso,   \* user_tenant_access of a regional manager
  pedidos,  \* replacements in flight: the set to write, the set its DELETE sees
  dados,    \* history: the set last given to each table, less what was revoked
  paralelo  \* history: two replacements of acesso have overlapped

vars == <<grade, acesso, pedidos, dados, paralelo>>

PedidoRow == [tabela: {"nenhuma", "grade", "acesso"}, novo: SUBSET Itens, visto: SUBSET Itens]

TypeOK ==
  /\ grade \subseteq Itens /\ acesso \subseteq Itens
  /\ pedidos \in [Pedidos -> PedidoRow]
  /\ dados \in [{"grade", "acesso"} -> SUBSET Itens]
  /\ paralelo \in BOOLEAN

Livre == [tabela |-> "nenhuma", novo |-> {}, visto |-> {}]

Init ==
  /\ grade = {} /\ acesso = {}
  /\ pedidos = [p \in Pedidos |-> Livre]
  /\ dados = [t \in {"grade", "acesso"} |-> {}]
  /\ paralelo = FALSE

EmCurso(tabela) == {p \in Pedidos : pedidos[p].tabela = tabela}

Comecar(p, tabela, novo, visto) ==
  /\ pedidos[p] = Livre
  /\ pedidos' = [pedidos EXCEPT ![p] = [tabela |-> tabela, novo |-> novo, visto |-> visto]]

Terminar(p, tabela) ==
  /\ pedidos[p].tabela = tabela
  /\ pedidos' = [pedidos EXCEPT ![p] = Livre]

(* What is there after the DELETE and the INSERTs of p. *)
Trocado(p, atual) == (atual \ pedidos[p].visto) \cup pedidos[p].novo

Duplicado(p, atual) == (atual \ pedidos[p].visto) \cap pedidos[p].novo # {}

(* Mutant: no lock on the presenter. *)
MutLivreParaGrade(p) == TRUE

(* SELECT id FROM apresentadoras ... FOR UPDATE *)
LivreParaGrade(p) == EmCurso("grade") = {}

ComecarGrade(p, novo) ==
  /\ LivreParaGrade(p)
  /\ Comecar(p, "grade", novo, grade)
  /\ UNCHANGED <<grade, acesso, dados, paralelo>>

GravarGrade(p) ==
  /\ Terminar(p, "grade")
  /\ IF Duplicado(p, grade) THEN UNCHANGED <<grade, dados>>
     ELSE grade' = Trocado(p, grade) /\ dados' = [dados EXCEPT !["grade"] = pedidos[p].novo]
  /\ UNCHANGED <<acesso, paralelo>>

ComecarAcesso(p, novo) ==
  /\ Comecar(p, "acesso", novo, acesso)
  /\ paralelo' = (paralelo \/ EmCurso("acesso") # {})
  /\ UNCHANGED <<grade, acesso, dados>>

GravarAcesso(p) ==
  /\ Terminar(p, "acesso")
  /\ IF Duplicado(p, acesso) THEN UNCHANGED <<acesso, dados>>
     ELSE acesso' = Trocado(p, acesso) /\ dados' = [dados EXCEPT !["acesso"] = pedidos[p].novo]
  /\ UNCHANGED <<grade, paralelo>>

(* What the next request of the manager may see: read every time, never from the token. *)
allowedTenantIds == acesso

(* An error: ROLLBACK. *)
Desfazer(p) ==
  /\ pedidos[p] # Livre
  /\ pedidos' = [pedidos EXCEPT ![p] = Livre]
  /\ UNCHANGED <<grade, acesso, dados, paralelo>>

(* DELETE of one unit.  It waits for a replacement that has deleted the row, and finds it  *)
(* gone: what the replacement wrote is not in its snapshot.                                *)
Revogar(i) ==
  /\ i \in acesso
  /\ \A p \in EmCurso("acesso") : i \notin pedidos[p].visto
  /\ acesso' = acesso \ {i}
  /\ dados' = [dados EXCEPT !["acesso"] = @ \ {i}]
  /\ UNCHANGED <<grade, pedidos, paralelo>>

Next ==
  \/ \E p \in Pedidos :
       \/ \E novo \in SUBSET Itens : ComecarGrade(p, novo) \/ ComecarAcesso(p, novo)
       \/ GravarGrade(p) \/ GravarAcesso(p) \/ Desfazer(p)
  \/ \E i \in Itens : Revogar(i)

Spec == Init /\ [][Next]_vars

-----------------------------------------------------------------------------
(* The hours of a presenter are those of the last replacement, and so are the units of a  *)
(* manager, less what was revoked since, unless two replacements of them overlapped       *)
(* (regional_managers.js:122): both then delete the old set and add their own.            *)
UltimoConjunto == grade = dados["grade"] /\ (paralelo \/ allowedTenantIds = dados["acesso"])
=============================================================================
