----------------------------- MODULE Conhecimento -----------------------------
(***************************************************************************)
(* The knowledge base: its categories, which a transaction reorders with   *)
(* one UPDATE per category, and its articles, rows of manuais that the     *)
(* older routes of the manuals write as well.                              *)
(*                                                                         *)
(* A row that a reorder has updated stays locked until it ends: another    *)
(* writer of that row waits.  Two reorders may wait for each other; the    *)
(* database then fails a statement of one of them, which rolls back.       *)
(***************************************************************************)
EXTENDS Naturals, Sequences

CONSTANTS
  Categorias,    \* bound: ids that rows of knowledge_categories can take
  Slugs,         \* what slugify makes of the names that are given
  Artigos,       \* bound: ids that rows of manuais can take
  Reordenacoes,  \* bound: reorders in flight
  Ordens,        \* the arrays of ids that are sent
  MaxOrdem,      \* bound of sort_order
  NULL

VARIABLES
  categorias,    \* row per category
  artigos,       \* row per article
  pedidos,       \* reorders in flight: how far each is, what a ROLLBACK gives back
  ultima,        \* history: the ids of the last reorder that committed
  mexidas        \* history: categories that were given an order of their own since

vars == <<categorias, artigos, pedidos, ultima, mexidas>>

CategoriaRow == [slug: Slugs \cup {NULL},   \* NULL: no row
                 ativa: BOOLEAN, ordem: 0..MaxOrdem]

(* The category of an article is left out: rows of categories stay, so nothing depends on it. *)
ArtigoRow == [status: {"ausente", "draft", "published", "archived"},
              publicado: BOOLEAN]   \* published_at IS NOT NULL

PedidoRow == [ids: Ordens \cup {<<>>}, feitos: 0..MaxOrdem, antes: [Categorias -> 0..MaxOrdem]]

TypeOK ==
  /\ categorias \in [Categorias -> CategoriaRow]
  /\ artigos \in [Artigos -> ArtigoRow]
  /\ pedidos \in [Reordenacoes -> PedidoRow]
  /\ ultima \in Ordens \cup {<<>>}
  /\ mexidas \subseteq Categorias

Livre == [ids |-> <<>>, feitos |-> 0, antes |-> [c \in Categorias |-> 0]]

SemArtigo == [status |-> "ausente", publicado |-> FALSE]

Init ==
  /\ categorias = [c \in Categorias |-> [slug |-> NULL, ativa |-> FALSE, ordem |-> 0]]
  /\ artigos = [a \in Artigos |-> SemArtigo]
  /\ pedidos = [p \in Reordenacoes |-> Livre]
  /\ ultima = <<>>
  /\ mexidas = {}

-----------------------------------------------------------------------------
Existe(c) == categorias[c].slug # NULL

(* slug TEXT UNIQUE: 409 on an INSERT, an error on an UPDATE. *)
SlugLivre(c, s) == \A d \in Categorias \ {c} : categorias[d].slug # s

(* The rows that a reorder has updated. *)
Travadas(p) == {pedidos[p].ids[i] : i \in 1..pedidos[p].feitos}

Solta(c) == \A q \in Reordenacoes : c \notin Travadas(q)

(* Mutant: every UPDATE commits by itself. *)
MutPodeAtualizar(p, c) == TRUE

(* The UPDATE waits for whoever else has locked the row. *)
PodeAtualizar(p, c) == \A q \in Reordenacoes \ {p} : c \notin Travadas(q)

(* The last position of a category in an array of ids. *)
EhPosicao(ids, c, n) == n \in DOMAIN ids /\ ids[n] = c /\ (\A m \in DOMAIN ids : ids[m] = c => m <= n)

-----------------------------------------------------------------------------
CriarCategoria(c, s, ativa, ordem) ==
  /\ ~Existe(c) /\ SlugLivre(c, s)
  /\ categorias' = [categorias EXCEPT ![c] = [slug |-> s, ativa |-> ativa, ordem |-> ordem]]
  /\ UNCHANGED <<artigos, pedidos, ultima, mexidas>>

(* PATCH: any of the fields; a new name brings its slug. *)
EditarCategoria(c, s, ativa, ordem) ==
  /\ Existe(c) /\ SlugLivre(c, s)
  /\ Solta(c)
  /\ categorias' = [categorias EXCEPT ![c] = [slug |-> s, ativa |-> ativa, ordem |-> ordem]]
  /\ mexidas' = IF ordem = categorias[c].ordem THEN mexidas ELSE mexidas \cup {c}
  /\ UNCHANGED <<artigos, pedidos, ultima>>

(* DELETE: the row stays. *)
DesativarCategoria(c) ==
  /\ Existe(c)
  /\ Solta(c)
  /\ categorias' = [categorias EXCEPT ![c].ativa = FALSE]
  /\ UNCHANGED <<artigos, pedidos, ultima, mexidas>>

(* BEGIN.  The ids are those of a list that was read: an id without a row would be one   *)
(* UPDATE of nothing.                                                                    *)
Reordenar(p, ids) ==
  /\ pedidos[p] = Livre
  /\ \A i \in DOMAIN ids : Existe(ids[i])
  /\ pedidos' = [pedidos EXCEPT ![p].ids = ids]
  /\ UNCHANGED <<categorias, artigos, ultima, mexidas>>

Atualizar(p) ==
  LET n == pedidos[p].feitos + 1
      c == pedidos[p].ids[n]
  IN
  /\ n <= Len(pedidos[p].ids)
  /\ PodeAtualizar(p, c)
  /\ categorias' = [categorias EXCEPT ![c].ordem = n]
  /\ pedidos' = [pedidos EXCEPT ![p] =
       [ids |-> @.ids, feitos |-> n,
        antes |-> IF c \in Travadas(p) THEN @.antes ELSE [@.antes EXCEPT ![c] = categorias[c].ordem]]]
  /\ UNCHANGED <<artigos, ultima, mexidas>>

Confirmar(p) ==
  /\ pedidos[p] # Livre /\ pedidos[p].feitos = Len(pedidos[p].ids)
  /\ pedidos' = [pedidos EXCEPT ![p] = Livre]
  /\ ultima' = pedidos[p].ids
  /\ mexidas' = {}
  /\ UNCHANGED <<categorias, artigos>>

(* A statement fails, be it for a deadlock: ROLLBACK. *)
Desfazer(p) ==
  /\ pedidos[p] # Livre
  /\ pedidos' = [pedidos EXCEPT ![p] = Livre]
  /\ categorias' = [c \in Categorias |->
       IF c \in Travadas(p) THEN [categorias[c] EXCEPT !.ordem = pedidos[p].antes[c]] ELSE categorias[c]]
  /\ UNCHANGED <<artigos, ultima, mexidas>>

-----------------------------------------------------------------------------
TemArtigo(a) == artigos[a].status # "ausente"

(* POST of an article; POST /v1/manuais leaves the defaults: published, with a date. *)
CriarArtigo(a, status) ==
  /\ ~TemArtigo(a)
  /\ artigos' = [artigos EXCEPT ![a] = [status |-> status, publicado |-> status = "published"]]
  /\ UNCHANGED <<categorias, pedidos, ultima, mexidas>>

(* PATCH of an article: the date is not among its fields.  Whether the schema lets a PATCH  *)
(* through, and with which defaults, is left to the library; PATCH /v1/manuais/:id changes  *)
(* nothing that is kept here.                                                               *)
EditarArtigo(a, status) ==
  /\ TemArtigo(a)
  /\ artigos' = [artigos EXCEPT ![a].status = status]
  /\ UNCHANGED <<categorias, pedidos, ultima, mexidas>>

Publicar(a) ==
  /\ TemArtigo(a)
  /\ artigos' = [artigos EXCEPT ![a].status = "published", ![a].publicado = TRUE]
  /\ UNCHANGED <<categorias, pedidos, ultima, mexidas>>

Arquivar(a) ==
  /\ TemArtigo(a)
  /\ artigos' = [artigos EXCEPT ![a].status = "archived"]
  /\ UNCHANGED <<categorias, pedidos, ultima, mexidas>>

ExcluirArtigo(a) ==
  /\ TemArtigo(a)
  /\ artigos' = [artigos EXCEPT ![a] = SemArtigo]
  /\ UNCHANGED <<categorias, pedidos, ultima, mexidas>>

Next ==
  \/ \E c \in Categorias :
       \/ \E s \in Slugs, ativa \in BOOLEAN, ordem \in 0..MaxOrdem :
            CriarCategoria(c, s, ativa, ordem) \/ EditarCategoria(c, s, ativa, ordem)
       \/ DesativarCategoria(c)
  \/ \E p \in Reordenacoes : (\E ids \in Ordens : Reordenar(p, ids)) \/ Atualizar(p) \/ Confirmar(p) \/ Desfazer(p)
  \/ \E a \in Artigos :
       \/ \E status \in {"draft", "published", "archived"} : CriarArtigo(a, status) \/ EditarArtigo(a, status)
       \/ Publicar(a) \/ Arquivar(a) \/ ExcluirArtigo(a)

Spec == Init /\ [][Next]_vars

-----------------------------------------------------------------------------
(* The order of the categories is the one that a single reorder was asked for, the last   *)
(* to commit, but for categories that were given an order of their own since: two         *)
(* reorders at once never leave a mixture, nor does one that fails half way               *)
(* (knowledge.js:219).                                                                    *)
OrdemInteira ==
  \A c \in Categorias \ mexidas :
    /\ c \in {ultima[i] : i \in DOMAIN ultima}
    /\ Solta(c)
    => EhPosicao(ultima, c, categorias[c].ordem)
=============================================================================
