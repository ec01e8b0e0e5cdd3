------------------------------ MODULE MCEntorno ------------------------------
(***************************************************************************)
(* Entorno on small instances: the constants that a cfg cannot write.      *)
(***************************************************************************)
EXTENDS Entorno

(* Three intervals: the first two overlap, so do the last two, the ends touch. *)
TresHorarios == {<<0, 2>>, <<1, 3>>, <<2, 3>>}

(* A series cut short by its total, with a weekday that was sent twice: two occurrences on *)
(* one day, which an edit may set apart.                                                   *)
RegrasDaAgenda == {[frequencia |-> "semanal", dias |-> <<5, 1, 1>>, ate |-> 31, total |-> 2]}

(* The computation of the days alone, on rules and first days that meet the end of a week, a  *)
(* short month, weekdays sent out of order and twice, the limit of days and that of           *)
(* occurrences.                                                                               *)
MuitasRegras ==
  [frequencia: {"semanal", "quinzenal"}, dias: {<<>>, <<0>>, <<6>>, <<5, 1>>, <<2, 6, 2>>, <<0, 0>>},
   ate: {20, 45}, total: {1, 4, 30}]
  \cup [frequencia: {"diaria", "mensal"}, dias: {<<>>}, ate: {20, NULL}, total: {1, 4, 30}]

ASSUME MuitosCalendarios == \A inicio \in {3, 6, 27}, r \in MuitasRegras : G!DiasConformes(inicio, r)

(* Every order of all the categories. *)
TodasAsOrdens == {ids \in [1..Cardinality(Categorias) -> Categorias] : \A i, j \in DOMAIN ids : ids[i] = ids[j] => i = j}
=============================================================================
