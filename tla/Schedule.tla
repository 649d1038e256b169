------------------------------ MODULE Schedule ------------------------------
(***************************************************************************)
(* The schedule of one event (src/src/modules/schedule).  A PATCH reads    *)
(* the item, validates the range that would result and then writes only    *)
(* the columns it brings, over whatever the row is by then; the CHECK      *)
(* schedule_items_rango is the last word.                                  *)
(***************************************************************************)
EXTENDS Integers

CONSTANTS Momentos,     \* ids of schedule items
          Instantes,    \* instants of the day
          SinFin,       \* endsAt null
          SinCambio,    \* a column the PATCH does not bring
          Ediciones,    \* concurrent PATCHes
          MaxEdiciones  \* bound of creations, changes and deletions

ASSUME SupuestosCronograma ==
  /\ Instantes \subseteq Nat /\ {SinFin, SinCambio} \cap Instantes = {} /\ SinFin # SinCambio
  /\ MaxEdiciones \in Nat

VARIABLES
  cronograma,  \* table schedule_items: a function on the ids that exist
  edicionItem, \* state of each PATCH
  porEditar    \* creations, changes and deletions still to come

scheduleVars == <<cronograma, edicionItem, porEditar>>

Momento == [startsAt: Instantes, endsAt: Instantes \cup {SinFin}, status: {"PENDING", "IN_PROGRESS", "DONE"}]
CambiosItem == [startsAt: Instantes \cup {SinCambio}, endsAt: Instantes \cup {SinFin, SinCambio},
                status: {"DONE", SinCambio}]
SinEditar == [pc |-> "libre"]

rangoValido(inicio, fin) == fin # SinFin => fin >= inicio
\* Mutant: the table without its CHECK, with the use case alone to judge.
SinCheckDeRango(fila) == fila \in Momento

\* The CHECK of the table, which sees the row as the statement leaves it.
schedule_items_rango(fila) == rangoValido(fila.startsAt, fila.endsAt)

ScheduleInit ==
  /\ cronograma = << >> /\ edicionItem = [d \in Ediciones |-> SinEditar]
  /\ porEditar \in {0, MaxEdiciones}

Edita == porEditar > 0 /\ porEditar' = porEditar - 1

\* CreateScheduleItemUseCase: status defaults to PENDING.
CrearItem(id, fila) ==
  /\ Edita
  /\ id \notin DOMAIN cronograma /\ rangoValido(fila.startsAt, fila.endsAt)
  /\ cronograma' = [x \in DOMAIN cronograma \cup {id} |-> IF x = id THEN fila ELSE cronograma[x]]
  /\ UNCHANGED edicionItem

\* What a PATCH leaves of a row.
Aplicado(fila, cambios) ==
  [c \in DOMAIN fila |-> IF cambios[c] = SinCambio THEN fila[c] ELSE cambios[c]]

\* UpdateScheduleItemUseCase: the range is validated against what is read ...
LeerItem(d, id, cambios) ==
  /\ Edita
  /\ edicionItem[d].pc = "libre" /\ id \in DOMAIN cronograma
  /\ LET fila == Aplicado(cronograma[id], cambios) IN rangoValido(fila.startsAt, fila.endsAt)
  /\ edicionItem' = [edicionItem EXCEPT ![d] = [pc |-> "actualizar", id |-> id, cambios |-> cambios]]
  /\ UNCHANGED cronograma

\* ... and updateMany writes: no row is a 404, and a row the CHECK refuses stays.
ActualizarItem(d) ==
  LET e == edicionItem[d]
  IN /\ e.pc = "actualizar"
     /\ cronograma' = IF /\ e.id \in DOMAIN cronograma
                         /\ schedule_items_rango(Aplicado(cronograma[e.id], e.cambios))
                      THEN [cronograma EXCEPT ![e.id] = Aplicado(cronograma[e.id], e.cambios)] ELSE cronograma
     /\ edicionItem' = [edicionItem EXCEPT ![d] = SinEditar]
     /\ UNCHANGED porEditar

BorrarItem(id) ==
  /\ Edita
  /\ id \in DOMAIN cronograma
  /\ cronograma' = [x \in DOMAIN cronograma \ {id} |-> cronograma[x]]
  /\ UNCHANGED edicionItem

\* The process dies between the read and the write.
CaeEdicionItem(d) ==
  /\ edicionItem[d].pc # "libre"
  /\ edicionItem' = [edicionItem EXCEPT ![d] = SinEditar]
  /\ UNCHANGED <<cronograma, porEditar>>

ScheduleNext ==
  \/ \E id \in Momentos :
       \/ BorrarItem(id)
       \/ \E fila \in Momento : CrearItem(id, fila)
       \/ \E d \in Ediciones, cambios \in CambiosItem : LeerItem(d, id, cambios)
  \/ \E d \in Ediciones : ActualizarItem(d) \/ CaeEdicionItem(d)

ScheduleSpec == ScheduleInit /\ [][ScheduleNext]_scheduleVars

-----------------------------------------------------------------------------
(* Properties *)

\* The types, and with them the range: no two PATCHes that were each validated
\* against the same read leave an item that ends before it begins.
ScheduleTypeOK ==
  /\ DOMAIN cronograma \subseteq Momentos
  /\ cronograma \in [DOMAIN cronograma -> Momento]
  /\ \A id \in DOMAIN cronograma : rangoValido(cronograma[id].startsAt, cronograma[id].endsAt)
=============================================================================
