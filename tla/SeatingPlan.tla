----------------------------- MODULE SeatingPlan -----------------------------
(***************************************************************************)
(* What the seating plan of one event promises: every operation of         *)
(* SeatingRepository takes effect at once and alone, as it does in the     *)
(* in-memory double the use cases are tested against                       *)
(* (seating.repository.fake.ts).  Seating shows that the transactions and  *)
(* row locks of Postgres keep this promise under concurrency.              *)
(***************************************************************************)
EXTENDS SeatingDomain

VARIABLES mesas,         \* the tables: a function on the ids that exist
          asignaciones,  \* the seats taken
          invitados      \* the guests of the event

planoVars == <<mesas, asignaciones, invitados>>

\* The plan may be watched from any moment at which it is in order.
Init ==
  /\ DOMAIN mesas \subseteq Mesas
  /\ \A m \in DOMAIN mesas : mesas[m] \in FilaMesa /\ rangoAsientosValido(mesas[m])
  /\ invitados \in [Invitados -> Filas]
  /\ \A a \in asignaciones : /\ a \in Asignacion /\ a.tableId \in DOMAIN mesas
                             /\ a.seatIndex < mesas[a.tableId].seatCount
  /\ SinChoques(asignaciones)

\* crearMesas: new empty tables of minSeats seats; the others stay as they are.
Crear(nuevas) ==
  /\ nuevas # {} /\ nuevas \cap DOMAIN mesas = {}
  /\ Cardinality(nuevas \cup DOMAIN mesas) <= MaxMesas
  /\ DOMAIN mesas' = nuevas \cup DOMAIN mesas
  /\ \A m \in DOMAIN mesas : mesas'[m] = mesas[m]
  /\ \A m \in nuevas : /\ mesas'[m] \in FilaMesa /\ rangoAsientosValido(mesas'[m])
                       /\ mesas'[m].seatCount = mesas'[m].minSeats
                       /\ \A k \in DOMAIN mesas' : mesas'[k].creada = mesas'[m].creada => k = m
  /\ UNCHANGED <<asignaciones, invitados>>

\* actualizarMesa: the range stays valid and no seat that is taken goes away.
Actualizar(m) ==
  /\ m \in DOMAIN mesas /\ DOMAIN mesas' = DOMAIN mesas
  /\ mesas' = [mesas EXCEPT ![m] = mesas'[m]]
  /\ mesas'[m] \in FilaMesa /\ rangoAsientosValido(mesas'[m])
  /\ mesas'[m].creada = mesas[m].creada
  /\ \A a \in asignaciones : a.tableId = m => a.seatIndex < mesas'[m].seatCount
  /\ UNCHANGED <<asignaciones, invitados>>

\* eliminarMesa and the deletion of a guest: their assignments go with them.
EliminarMesa(m) ==
  /\ mesas' = Sin(mesas, m)
  /\ asignaciones' = {a \in asignaciones : a.tableId # m}
  /\ UNCHANGED invitados
EliminarInvitado(g) ==
  /\ invitados' = Sin(invitados, g)
  /\ asignaciones' = {a \in asignaciones : a.guestId # g}
  /\ UNCHANGED mesas
CambiarInvitado(g) ==
  /\ g \in DOMAIN invitados
  /\ \E fila \in Filas : invitados' = [invitados EXCEPT ![g] = fila]
  /\ UNCHANGED <<mesas, asignaciones>>

\* asignar: the person moves to the seat; whoever had it takes the seat the
\* person leaves, or none.
Sentar(destino) ==
  LET suyas == {a \in asignaciones : MismaPersona(a, destino)}
      previas == {a \in asignaciones : MismoAsiento(a, destino)}
  IN /\ destino.tableId \in DOMAIN mesas /\ destino.guestId \in DOMAIN invitados
     /\ destino.seatIndex < mesas[destino.tableId].seatCount
     /\ asignaciones' = (asignaciones \ (suyas \cup previas)) \cup {destino}
                          \cup {Trasladada(b, a) : a \in suyas, b \in previas \ suyas}
     /\ UNCHANGED <<mesas, invitados>>

\* quitarAsiento.
Vaciar(m, i) ==
  /\ asignaciones' = {a \in asignaciones : a.tableId # m \/ a.seatIndex # i}
  /\ UNCHANGED <<mesas, invitados>>

Next ==
  \/ \E nuevas \in SUBSET Mesas : Crear(nuevas)
  \/ \E m \in Mesas : Actualizar(m) \/ EliminarMesa(m)
  \/ \E g \in Invitados : EliminarInvitado(g) \/ CambiarInvitado(g)
  \/ \E destino \in Asignacion : Sentar(destino)
  \/ \E m \in Mesas, i \in Asientos : Vaciar(m, i)

Spec == Init /\ [][Next]_planoVars
=============================================================================
