-------------------------------- MODULE Series --------------------------------
(***************************************************************************)
(* Recurring events of the agenda: their days are computed, the rows are   *)
(* inserted one by one, and an edit or a cancellation reaches one event,   *)
(* that one and the later ones, or the series.                             *)
(*                                                                         *)
(* POST and PATCH take recorrencia_origem_id from the body; its foreign    *)
(* key wants an existing event and no more than that.  The status is left  *)
(* out, no property reads it: a cancellation, which writes nothing else,   *)
(* is the edit whose body says neither a day nor an origin.                *)
(*                                                                         *)
(* No handler opens a transaction: every statement commits by itself, the  *)
(* SELECT ... FOR UPDATE of the edit included.  Days are numbered from a   *)
(* Sunday, the first of January of a common year; hours are left out, they *)
(* are the same in the whole series.                                       *)
(***************************************************************************)
EXTENDS Integers, Sequences, SequencesExt

CONSTANTS
  Regras,      \* recurrences that are asked for; 'dias' is dias_semana as it was sent
  Inicios,     \* days of the first event
  Destinos,    \* days that an edit moves events to
  Criacoes,    \* bound: requests in flight that create events
  Edicoes,     \* bound: requests in flight that edit or cancel them
  Citados,     \* bound: the ids a body may name as origin
  MaxEventos,  \* bound: rows of agenda_eventos
  MaxSeries,   \* bound: recurrences that are created
  NULL

VARIABLES
  eventos,     \* rows in the order of insertion; a row's index is its id
  pedidos,     \* requests in flight
  series       \* history: per id, what was asked for and whether all of it was inserted

vars == <<eventos, pedidos, series>>

Tarefas == Criacoes \cup Edicoes

Modos == {"apenas_este", "este_e_proximos", "todos"}

(* What a body says of the day and of the origin, NULL if nothing; the origin 0 is null. *)
Mudancas == [dia: Destinos \cup {NULL}, origem: {NULL, 0} \cup Citados]

Nada == [dia |-> NULL, origem |-> NULL]

-----------------------------------------------------------------------------
(* calcularRecorrencias *)

MESES == <<31, 28, 31, 30, 31, 30, 31, 31, 30, 31, 30, 31>>

(* The month of a day, as its length and the day it begins on. *)
Mes(d) ==
  LET mes[m \in 1..12, inicio \in Nat] ==
        IF d < inicio + MESES[m] THEN [dias |-> MESES[m], inicio |-> inicio]
        ELSE mes[m + 1, inicio + MESES[m]]
  IN mes[1, 0]

DiaDaSemana(d) == d % 7

Passo(r) == IF r.frequencia = "quinzenal" THEN 14 ELSE 7

(* setMonth keeps the day of the month and runs over into the next one when that is shorter. *)
ProximaData(d, r) ==
  CASE r.frequencia = "diaria" -> d + 1
    [] r.frequencia = "mensal" -> d + Mes(d).dias
    [] OTHER -> d + Passo(r)

DataLimite(inicio, r) == IF r.ate = NULL THEN inicio + 90 ELSE r.ate

PorDiaDaSemana(r) == r.frequencia \in {"semanal", "quinzenal"} /\ r.dias # <<>>

(* The weekdays are sorted, and one that was sent twice gives its day twice. *)
DiasDaSemana(cursor, inicio, r) ==
  LET domingo == cursor - DiaDaSemana(cursor)
      NaData(dia) == domingo + dia > inicio /\ domingo + dia <= DataLimite(inicio, r)
      datas == SelectSeq(SortSeq(r.dias, <), NaData)
  IN [k \in DOMAIN datas |-> domingo + datas[k]]

Recorrencias(inicio, r) ==
  LET ate[cursor \in Nat] ==
        IF cursor > DataLimite(inicio, r) THEN <<>>
        ELSE (IF PorDiaDaSemana(r) THEN DiasDaSemana(cursor, inicio, r) ELSE <<cursor>>)
             \o ate[ProximaData(cursor, r)]
      todas == ate[ProximaData(inicio, r)]
  IN SubSeq(todas, 1, IF r.total < Len(todas) THEN r.total ELSE Len(todas))

-----------------------------------------------------------------------------
EventoRow ==
  [dia: Nat, origem: 0..MaxEventos,   \* 0 is NULL
   vem: 0..MaxEventos,  \* history: the first event of the series that inserted it, or 0
   avulso: BOOLEAN]     \* history: its day or its origin is from a body

PedidoRow ==
  [pc: {"livre", "ocorrencias", "este", "serie"}, evento: 0..MaxEventos, faltam: Seq(Nat),
   modo: Modos, mudanca: Mudancas, origem: 0..MaxEventos, dia: Nat]

TypeOK ==
  /\ eventos \in Seq(EventoRow) /\ Len(eventos) <= MaxEventos
  /\ pedidos \in [Tarefas -> PedidoRow]
  /\ DOMAIN series \subseteq DOMAIN eventos
  /\ \A o \in DOMAIN series : series[o] \in [inicio: Inicios, regra: Regras, inteira: BOOLEAN]

Livre == [pc |-> "livre", evento |-> 0, faltam |-> <<>>, modo |-> "todos", mudanca |-> Nada,
          origem |-> 0, dia |-> 0]

Init ==
  /\ eventos = <<>>
  /\ pedidos = [p \in Tarefas |-> Livre]
  /\ series = <<>>

-----------------------------------------------------------------------------
(* POST /v1/agenda: a conflict with other events is a warning, nothing more. *)

Inserir(dia, origem, vem) ==
  /\ Len(eventos) < MaxEventos
  /\ eventos' = Append(eventos, [dia |-> dia, origem |-> origem, vem |-> vem, avulso |-> vem = 0])

(* The event itself; its origin is the body's, any event that exists. *)
CriarUm(dia, origem) ==
  /\ Inserir(dia, origem, 0)
  /\ UNCHANGED <<pedidos, series>>

Criar(p, dia, origem, r) ==
  LET o == Len(eventos) + 1 IN
  /\ pedidos[p] = Livre /\ Cardinality(DOMAIN series) < MaxSeries
  /\ Inserir(dia, origem, 0)
  /\ pedidos' = [pedidos EXCEPT ![p] = [Livre EXCEPT !.pc = "ocorrencias", !.evento = o,
                                                    !.faltam = Recorrencias(dia, r)]]
  /\ series' = [i \in DOMAIN series \cup {o} |->
       IF i = o THEN [inicio |-> dia, regra |-> r, inteira |-> FALSE] ELSE series[i]]

Ocorrencia(p) ==
  LET o == pedidos[p].evento IN
  /\ pedidos[p].faltam # <<>>
  /\ Inserir(Head(pedidos[p].faltam), o, o)
  /\ pedidos' = [pedidos EXCEPT ![p].faltam = Tail(@)]
  /\ UNCHANGED series

(* Mutant: the answer does not wait for the insertions. *)
MutResponder(p) ==
  /\ pedidos[p].pc = "ocorrencias"
  /\ pedidos' = [pedidos EXCEPT ![p] = Livre]
  /\ series' = [series EXCEPT ![pedidos[p].evento].inteira = TRUE]
  /\ UNCHANGED eventos

Responder(p) ==
  /\ pedidos[p].pc = "ocorrencias" /\ pedidos[p].faltam = <<>>
  /\ pedidos' = [pedidos EXCEPT ![p] = Livre]
  /\ series' = [series EXCEPT ![pedidos[p].evento].inteira = TRUE]
  /\ UNCHANGED eventos

-----------------------------------------------------------------------------
(* PATCH and DELETE /v1/agenda/:id *)

Origem(e) == IF eventos[e].origem = 0 THEN e ELSE eventos[e].origem

LerEvento(p, e, modo, mudanca) ==
  /\ pedidos[p] = Livre
  /\ mudanca.origem \in {NULL, 0} \cup DOMAIN eventos   \* the foreign key
  /\ pedidos' = [pedidos EXCEPT ![p] = [Livre EXCEPT !.pc = "este", !.evento = e, !.modo = modo,
                   !.mudanca = mudanca, !.origem = Origem(e), !.dia = eventos[e].dia]]
  /\ UNCHANGED <<eventos, series>>

Mudado(row, mudanca) ==
  [row EXCEPT !.dia = IF mudanca.dia = NULL THEN row.dia ELSE mudanca.dia,
              !.origem = IF mudanca.origem = NULL THEN row.origem ELSE mudanca.origem,
              !.avulso = row.avulso \/ mudanca.dia # NULL \/ mudanca.origem # NULL]

MudarEste(p) ==
  /\ pedidos[p].pc = "este"
  /\ eventos' = [eventos EXCEPT ![pedidos[p].evento] = Mudado(@, pedidos[p].mudanca)]
  /\ pedidos' = [pedidos EXCEPT ![p] = IF pedidos[p].modo = "apenas_este" THEN Livre ELSE [@ EXCEPT !.pc = "serie"]]
  /\ UNCHANGED series

(* The others of the series: never its first event, from the day that was read on if asked so. *)
Alcancados(p) ==
  {e \in DOMAIN eventos \ {pedidos[p].evento} :
     /\ eventos[e].origem = pedidos[p].origem
     /\ pedidos[p].modo = "este_e_proximos" => eventos[e].dia >= pedidos[p].dia}

MudarSerie(p) ==
  /\ pedidos[p].pc = "serie"
  /\ eventos' = [e \in DOMAIN eventos |->
       IF e \in Alcancados(p) THEN Mudado(eventos[e], pedidos[p].mudanca) ELSE eventos[e]]
  /\ pedidos' = [pedidos EXCEPT ![p] = Livre]
  /\ UNCHANGED series

(* A statement fails: what was written before it stays. *)
Falhar(p) ==
  /\ pedidos[p] # Livre
  /\ pedidos' = [pedidos EXCEPT ![p] = Livre]
  /\ UNCHANGED <<eventos, series>>

Next ==
  \/ \E dia \in Inicios, origem \in {0} \cup (Citados \cap DOMAIN eventos) :
       \/ CriarUm(dia, origem)
       \/ \E p \in Criacoes, r \in Regras : Criar(p, dia, origem, r)
  \/ \E p \in Criacoes : Ocorrencia(p) \/ Responder(p)
  \/ \E p \in Edicoes :
       \/ \E e \in DOMAIN eventos, modo \in Modos, mudanca \in Mudancas : LerEvento(p, e, modo, mudanca)
       \/ MudarEste(p) \/ MudarSerie(p)
  \/ \E p \in Tarefas : Falhar(p)

Spec == Init /\ [][Next]_vars

-----------------------------------------------------------------------------
(* The days a recurrence means, told without the loop.  The rest of the first week is not *)
(* among them; nor are those of a last week whose day of the first event is past the      *)
(* limit; a monthly recurrence is stated for days that every month has.                    *)
Semanas(d, inicio) == ((d - DiaDaSemana(d)) - (inicio - DiaDaSemana(inicio))) \div 7

Periodica(d, inicio, r) ==
  CASE r.frequencia = "diaria" -> TRUE
    [] r.frequencia = "mensal" -> d - Mes(d).inicio = inicio - Mes(inicio).inicio
    [] PorDiaDaSemana(r) -> LET n == 7 * Semanas(d, inicio) IN
                            n > 0 /\ n % Passo(r) = 0 /\ inicio + n <= DataLimite(inicio, r)
    [] OTHER -> (d - inicio) % Passo(r) = 0

(* The places of dias_semana that ask for the day, each of them an occurrence. *)
Pedida(d, r) ==
  IF PorDiaDaSemana(r) THEN {i \in DOMAIN r.dias : r.dias[i] = DiaDaSemana(d)} ELSE {1}

Antes(u, v) == u[1] < v[1] \/ (u[1] = v[1] /\ u[2] < v[2])

(* The first 'total' occurrences, as a day and the place that asks for it. *)
Pretendidas(inicio, r) ==
  LET dias == {d \in (inicio + 1)..DataLimite(inicio, r) : Periodica(d, inicio, r)}
      todas == UNION {{<<d, i>> : i \in Pedida(d, r)} : d \in dias}
  IN {v \in todas : Cardinality({u \in todas : Antes(u, v)}) < r.total}

(* The day of the k-th occurrence that is meant. *)
DiaPretendido(d, k, inicio, r) ==
  LET todas == Pretendidas(inicio, r)
  IN \E v \in todas : v[1] = d /\ Cardinality({u \in todas : Antes(u, v)}) = k - 1

(* The loop computes the occurrences that are meant, in order. *)
DiasConformes(inicio, r) ==
  LET dias == Recorrencias(inicio, r)
  IN /\ dias \in Seq(Nat)
     /\ Len(dias) = Cardinality(Pretendidas(inicio, r))
     /\ \A k \in DOMAIN dias : DiaPretendido(dias[k], k, inicio, r)

(* The occurrences a request inserted for the series of o, and those that are of it now. *)
Inseridas(o) == {e \in DOMAIN eventos : eventos[e].vem = o}

Filhos(o) == {e \in DOMAIN eventos : eventos[e].origem = o}

(* Whatever is created, edited and cancelled between two insertions of a series: the k-th *)
(* it inserted has the series for origin and is on the k-th day that is meant, unless a   *)
(* body gave it another day or origin; an event that is of the series without a body's    *)
(* saying so was inserted by it; and all were inserted, but for those its request still   *)
(* holds, or held when it failed (agenda.js:288).                                         *)
SerieConforme ==
  \A o \in DOMAIN series :
    LET inicio == series[o].inicio
        r == series[o].regra
    IN /\ \A e \in Inseridas(o) : ~eventos[e].avulso =>
            /\ eventos[e].origem = o
            /\ DiaPretendido(eventos[e].dia, Cardinality({f \in Inseridas(o) : f < e}) + 1, inicio, r)
       /\ \A e \in Filhos(o) : eventos[e].avulso \/ e \in Inseridas(o)
       /\ series[o].inteira => Cardinality(Inseridas(o)) = Cardinality(Pretendidas(inicio, r))
       /\ \A p \in Tarefas : pedidos[p].pc = "ocorrencias" /\ pedidos[p].evento = o =>
            Cardinality(Inseridas(o)) + Len(pedidos[p].faltam) = Cardinality(Pretendidas(inicio, r))
=============================================================================
