------------------------------- MODULE Seating -------------------------------
(***************************************************************************)
(* The seating plan of one event (src/src/modules/seating) over Postgres:  *)
(* each use case is a transaction of several statements that first takes   *)
(* the row of the event FOR UPDATE, except the deletion of a table, which  *)
(* takes no lock and cascades to the assignments, like the deletion of a   *)
(* guest.  RSVPs and edits change guests at any moment.                    *)
(*                                                                         *)
(* A request that the code rejects before it writes is a step back to      *)
(* "libre" or, when nothing was read after the lock, no step at all: the   *)
(* lock and the read of the table that follows it are one step, since      *)
(* nobody else waits on what lies between them.                            *)
(***************************************************************************)
EXTENDS SeatingDomain, Sequences

CONSTANTS Peticiones,        \* concurrent requests to /events/:eventId/seating
          Iniciales,         \* sequence of the tables there are at the start
          Nadie,             \* no request, no assignment
          Sentados,          \* assignments there are at the start
          FilaInicial,       \* the guests at the start
          MaxOperaciones     \* bound of the requests, deletions and changes of guests

ASSUME SupuestosSeating ==
  /\ Iniciales \in Seq(Mesas) /\ Len(Iniciales) <= MaxMesas
  /\ \A i, j \in 1..Len(Iniciales) : Iniciales[i] = Iniciales[j] => i = j
  /\ MaxAsientos > 1
  /\ Nadie \notin Peticiones /\ Nadie \notin Asignacion
  /\ FilaInicial \in Filas /\ Sentados \subseteq Asignacion /\ SinChoques(Sentados)
  /\ \A a \in Sentados : a.seatIndex = 0 /\ \E i \in 1..Len(Iniciales) : Iniciales[i] = a.tableId
  /\ MaxOperaciones \in Nat

VARIABLES
  mesas,         \* table seating_tables, committed: a function on the ids that exist
  asignaciones,  \* table seat_assignments, committed
  invitados,     \* table guests, committed
  peticion,      \* state of each request
  borrando,      \* ids of tables and guests whose DELETE waits for its cascade
  quedan         \* operations still to come

seatingVars == <<mesas, asignaciones, invitados, peticion, borrando, quedan>>

SinPeticion == [pc |-> "libre", op |-> << >>, n |-> 0, origen |-> Nadie, previo |-> Nadie,
                quitadas |-> {}, puestas |-> {}, filas |-> << >>]
En(p, pc) == peticion[p].pc = pc
Op(p) == peticion[p].op
Ir(p, pc) == peticion' = [peticion EXCEPT ![p].pc = pc]

\* Mutant: bloquearEvento without FOR UPDATE.
SinCerrojo == Peticiones # {}

\* bloquearEvento: FOR UPDATE on the event, held to the end of the transaction.
CerrojoLibre == \A p \in Peticiones : En(p, "libre")

\* Rows of seat_assignments an open transaction deleted or inserted, and the
\* tables and guests whose rows those inserts (FOR KEY SHARE) and an UPDATE hold.
Referida(x, as) == \E a \in as : x \in {a.tableId, a.guestId}
Retenida(x) == \E p \in Peticiones : \/ Referida(x, peticion[p].puestas)
                                     \/ x \in DOMAIN peticion[p].filas \cap DOMAIN mesas

\* The rows the transaction of p sees.
Vistas(p) == (asignaciones \ peticion[p].quitadas) \cup peticion[p].puestas

Gastar == quedan > 0 /\ quedan' = quedan - 1

Abrir(p, op, e) ==
  /\ CerrojoLibre /\ Gastar
  /\ peticion' = [peticion EXCEPT ![p] = [e EXCEPT !.op = op]]
  /\ UNCHANGED <<mesas, asignaciones, invitados, borrando>>

deTablas == <<mesas, asignaciones, invitados>>
deResto == <<borrando, quedan>>

\* With all of the bound ahead, or none of it.
SeatingInit ==
  /\ mesas = [m \in {Iniciales[j] : j \in 1..Len(Iniciales)} |->
                LET i == CHOOSE j \in 1..Len(Iniciales) : Iniciales[j] = m
                IN [minSeats |-> 1, seatCount |-> 1, maxSeats |-> 2,
                    creada |-> i, puesto |-> i - 1]]
  /\ asignaciones = Sentados
  /\ invitados = [g \in Invitados |-> FilaInicial]
  /\ peticion = [p \in Peticiones |-> SinPeticion]
  /\ borrando = {} /\ quedan \in {0, MaxOperaciones}

-----------------------------------------------------------------------------
(* PUT /seating/assignments *)

\* The lock, and the checks of the table.
Asignar(p, destino) ==
  /\ destino.tableId \in DOMAIN mesas
  /\ destino.seatIndex < mesas[destino.tableId].seatCount
  /\ Abrir(p, destino, [SinPeticion EXCEPT !.pc = "invitado"])

LeerInvitado(p) ==
  /\ En(p, "invitado")
  /\ IF ocupanteValido(Op(p), invitados) THEN Ir(p, "asignaciones")
     ELSE peticion' = [peticion EXCEPT ![p] = SinPeticion]
  /\ UNCHANGED <<deTablas, deResto>>

Primera(as) == IF as = {} THEN Nadie ELSE CHOOSE a \in as : TRUE

LeerAsignaciones(p) ==
  LET origen == Primera({a \in asignaciones : MismaPersona(a, Op(p))})
      previo == Primera({a \in asignaciones : MismoAsiento(a, Op(p))})
  IN /\ En(p, "asignaciones")
     /\ peticion' = [peticion EXCEPT ![p] =
                       IF origen # Nadie /\ origen = previo THEN SinPeticion
                       ELSE [@ EXCEPT !.pc = "quitar", !.origen = origen, !.previo = previo]]
     /\ UNCHANGED <<deTablas, deResto>>

\* Mutant: only the seat the person leaves is taken away, not the occupant's.
QuitarSoloOrigen(p) ==
  /\ En(p, "quitar")
  /\ peticion' = [peticion EXCEPT ![p].pc = "destino",
                    ![p].quitadas = {a \in asignaciones : MismaPersona(a, Op(p))}]
  /\ UNCHANGED <<deTablas, deResto>>

\* quitarOcupantes deletes by person; it waits for a cascade that deletes them too.
QuitarOcupantes(p) ==
  LET leidas == {peticion[p].origen, peticion[p].previo} \ {Nadie}
      filas == {a \in asignaciones : \E b \in leidas : MismaPersona(a, b)}
  IN /\ En(p, "quitar")
     /\ peticion' = [peticion EXCEPT ![p].pc = "destino", ![p].quitadas = filas]
     /\ UNCHANGED <<deTablas, deResto>>

\* A create of Prisma: the foreign keys wait for a DELETE of the rows they
\* name, and fail if they are gone; the unique indexes reject it.
Insertar(p, a, pc) ==
  /\ a.tableId \notin borrando /\ a.guestId \notin borrando
  /\ peticion' = [peticion EXCEPT ![p] =
                    IF \/ a.tableId \notin DOMAIN mesas \/ a.guestId \notin DOMAIN invitados
                       \/ ~Cabe(a, Vistas(p))
                    THEN SinPeticion
                    ELSE [@ EXCEPT !.pc = pc, !.puestas = peticion[p].puestas \cup {a}]]
  /\ UNCHANGED <<deTablas, deResto>>

\* Mutant: the occupant is left without a seat, in a swap too.
SinIntercambio(p) == p \notin Peticiones

HayIntercambio(p) == peticion[p].origen # Nadie /\ peticion[p].previo # Nadie

AsignarDestino(p) ==
  /\ En(p, "destino")
  /\ Insertar(p, Op(p), IF HayIntercambio(p) THEN "intercambio" ELSE "confirmar")

AsignarIntercambio(p) ==
  /\ En(p, "intercambio")
  /\ Insertar(p, Trasladada(peticion[p].previo, peticion[p].origen), "confirmar")

-----------------------------------------------------------------------------
(* The other writes *)

\* DELETE /seating/tables/:tableId/seats/:seatIndex.
VaciarAsiento(p, m, i) ==
  /\ m \in DOMAIN mesas /\ i < mesas[m].seatCount
  /\ Abrir(p, << >>, [SinPeticion EXCEPT
                        !.pc = "confirmar",
                        !.quitadas = {a \in asignaciones : a.tableId = m /\ a.seatIndex = i}])

\* POST /seating/tables and /tables/generate: after the count, in rows whose
\* createdAt follows the last one.  The clock stands still, the worst case.
MaxCreada == IF DOMAIN mesas = {} THEN 0
             ELSE CHOOSE c \in {mesas[m].creada : m \in DOMAIN mesas} :
                    \A m \in DOMAIN mesas : mesas[m].creada <= c
Contar(p, cuantas, min, max) ==
  /\ rangoAsientosValido([minSeats |-> min, seatCount |-> min, maxSeats |-> max])
  /\ Cardinality(DOMAIN mesas) + cuantas <= MaxMesas
  /\ Abrir(p, [cuantas |-> cuantas, minSeats |-> min, maxSeats |-> max],
           [SinPeticion EXCEPT !.pc = "crear", !.n = Cardinality(DOMAIN mesas)])

GenerarMesas(p, cuantas, min, max) == cuantas > 1 /\ Contar(p, cuantas, min, max)
CrearMesa(p, min, max) == Contar(p, 1, min, max)

\* Orders of the new ids: the first is created first.
Ordenes(n) == {ids \in [1..n -> Mesas \ DOMAIN mesas] : \A i, j \in 1..n : ids[i] = ids[j] => i = j}

NuevasFilas(ids, op, n) ==
  [m \in {ids[i] : i \in 1..op.cuantas} |->
    LET i == CHOOSE j \in 1..op.cuantas : ids[j] = m
    IN [minSeats |-> op.minSeats, seatCount |-> op.minSeats, maxSeats |-> op.maxSeats,
        creada |-> MaxCreada + i, puesto |-> n + i - 1]]

crearMesas(p) ==
  /\ En(p, "crear")
  /\ \E ids \in Ordenes(Op(p).cuantas) :
       peticion' = [peticion EXCEPT ![p].pc = "confirmar",
                      ![p].filas = NuevasFilas(ids, Op(p), peticion[p].n)]
  /\ UNCHANGED <<deTablas, deResto>>

\* PATCH /seating/tables/:tableId, with any of the three numbers.
ActualizarMesa(p, m, min, seats, max) ==
  /\ m \in DOMAIN mesas
  /\ LET fila == [mesas[m] EXCEPT !.minSeats = min, !.seatCount = seats, !.maxSeats = max]
     IN /\ rangoAsientosValido(fila) /\ fila # mesas[m]
        /\ Abrir(p, [m |-> m, fila |-> fila],
                 [SinPeticion EXCEPT
                    !.pc = IF seats < mesas[m].seatCount THEN "vacios" ELSE "actualizar"])

ComprobarVacios(p) ==
  LET op == Op(p)
  IN /\ En(p, "vacios")
     /\ IF \E a \in asignaciones : a.tableId = op.m /\ a.seatIndex >= op.fila.seatCount
        THEN peticion' = [peticion EXCEPT ![p] = SinPeticion]
        ELSE Ir(p, "actualizar")
     /\ UNCHANGED <<deTablas, deResto>>

\* updateMany and the read that follows: the row may be gone by now.
actualizarMesa(p) ==
  LET op == Op(p)
  IN /\ En(p, "actualizar")
     /\ op.m \notin borrando
     /\ peticion' = [peticion EXCEPT ![p] =
                       IF op.m \notin DOMAIN mesas THEN SinPeticion
                       ELSE [@ EXCEPT !.pc = "confirmar", !.filas = [m \in {op.m} |-> op.fila]]]
     /\ UNCHANGED <<deTablas, deResto>>

\* COMMIT: what the transaction wrote shows, and its locks go.
Confirmar(p) ==
  /\ En(p, "confirmar")
  /\ mesas' = Con(mesas, peticion[p].filas)
  /\ asignaciones' = Vistas(p)
  /\ peticion' = [peticion EXCEPT ![p] = SinPeticion]
  /\ UNCHANGED <<invitados, deResto>>

-----------------------------------------------------------------------------
(* Deletions and changes outside the lock *)

\* DELETE /seating/tables/:tableId and the deletion of a guest.  The row is
\* locked, unless a transaction holds it, and then the cascade waits for the
\* assignments that a transaction has deleted.
EmpezarBorrado(x) ==
  /\ x \in (DOMAIN mesas \cup DOMAIN invitados) \ borrando
  /\ ~Retenida(x) /\ Gastar
  /\ borrando' = borrando \cup {x}
  /\ UNCHANGED <<deTablas, peticion>>

EsperaA(x, p) == x \in borrando /\ Referida(x, peticion[p].quitadas)

TerminarBorrado(x) ==
  /\ x \in borrando
  /\ \A p \in Peticiones : ~EsperaA(x, p)
  /\ borrando' = borrando \ {x}
  /\ mesas' = Sin(mesas, x) /\ invitados' = Sin(invitados, x)
  /\ asignaciones' = {a \in asignaciones : ~Referida(x, {a})}
  /\ UNCHANGED <<peticion, quedan>>

\* RSVP or PATCH of a guest: an UPDATE that no foreign key waits for.
CambiarInvitado(g, fila) ==
  /\ g \in DOMAIN invitados \ borrando /\ Gastar
  /\ fila # invitados[g]
  /\ invitados' = [invitados EXCEPT ![g] = fila]
  /\ UNCHANGED <<mesas, asignaciones, peticion, borrando>>

\* The row the transaction of p waits for.
Espera(p, x) ==
  /\ x \in borrando
  /\ \/ En(p, "destino") /\ Referida(x, {Op(p)})
     \/ /\ En(p, "intercambio")
        /\ Referida(x, {Trasladada(peticion[p].previo, peticion[p].origen)})

\* Mutant: deadlock_timeout off: nobody breaks the wait.
NadieRompe(p, x) == /\ Espera(p, x) /\ EsperaA(x, p)
                    /\ UNCHANGED seatingVars

\* Each waits for the other: Postgres aborts one of the two.
Interbloqueo(p, x) ==
  /\ Espera(p, x) /\ EsperaA(x, p)
  /\ \/ /\ peticion' = [peticion EXCEPT ![p] = SinPeticion]
        /\ UNCHANGED borrando
     \/ borrando' = borrando \ {x} /\ UNCHANGED peticion
  /\ UNCHANGED <<deTablas, quedan>>

\* The process dies or the connection is lost: rollback.
Deshacer(p) ==
  /\ ~En(p, "libre")
  /\ peticion' = [peticion EXCEPT ![p] = SinPeticion]
  /\ UNCHANGED <<deTablas, deResto>>

-----------------------------------------------------------------------------
PasoDe(p) ==
  \/ LeerInvitado(p) \/ LeerAsignaciones(p) \/ QuitarOcupantes(p)
  \/ AsignarDestino(p) \/ AsignarIntercambio(p)
  \/ crearMesas(p) \/ ComprobarVacios(p) \/ actualizarMesa(p) \/ Confirmar(p)

SeatingNext ==
  \/ \E p \in Peticiones :
       \/ \E destino \in Asignacion : Asignar(p, destino)
       \/ \E m \in Mesas, i \in Asientos : VaciarAsiento(p, m, i)
       \/ \E min, max \in 1..MaxAsientos :
            CrearMesa(p, min, max) \/ \E n \in 2..MaxMesas : GenerarMesas(p, n, min, max)
       \/ \E m \in Mesas, min, seats, max \in 1..MaxAsientos :
            ActualizarMesa(p, m, min, seats, max)
       \/ PasoDe(p) \/ Deshacer(p)
  \/ \E x \in Mesas \cup Invitados : EmpezarBorrado(x) \/ TerminarBorrado(x)
  \/ \E g \in Invitados, fila \in Filas : CambiarInvitado(g, fila)
  \/ \E p \in Peticiones, x \in Mesas \cup Invitados : Interbloqueo(p, x)

SeatingSpec == SeatingInit /\ [][SeatingNext]_seatingVars

\* Node runs the continuations of a request and Postgres grants a lock that is
\* free and breaks a deadlock.  Nothing obliges a request to come or to fail.
SeatingEquidad ==
  /\ \A p \in Peticiones : WF_seatingVars(PasoDe(p))
  /\ \A x \in Mesas \cup Invitados : WF_seatingVars(TerminarBorrado(x))
  /\ WF_seatingVars(\E p \in Peticiones, x \in Mesas \cup Invitados : Interbloqueo(p, x))

-----------------------------------------------------------------------------
(* Properties *)

FilasBien == /\ DOMAIN mesas \subseteq Mesas
             /\ \A m \in DOMAIN mesas : mesas[m] \in FilaMesa /\ rangoAsientosValido(mesas[m])
             /\ asignaciones \subseteq Asignacion
             /\ DOMAIN invitados \subseteq Invitados
             /\ \A g \in DOMAIN invitados : invitados[g] \in Filas
PeticionesBien ==
  \A p \in Peticiones :
    /\ peticion[p].quitadas \subseteq Asignacion /\ peticion[p].puestas \subseteq Asignacion
    /\ {peticion[p].origen, peticion[p].previo} \subseteq Asignacion \cup {Nadie}
    /\ peticion[p].n \in Nat

\* The rows keep the CHECKs of the migration (rangoAsientosValido among them).
SeatingTypeOK == FilasBien /\ PeticionesBien /\ borrando \subseteq Mesas \cup Invitados

\* Everybody who is seated shows in exactly one seat of the plan.  That a seat
\* exists "cruza tablas y no cabe en un CHECK": an assignment past seatCount, or
\* of a table that is gone, would be dropped by armarDistribucion and the
\* person could be neither seen nor moved away.
EveryoneSeatedIsShown ==
  \A a \in asignaciones :
    Cardinality({s \in Mesas \X Asientos :
      /\ s[1] \in DOMAIN mesas /\ s[2] < mesas[s[1]].seatCount
      /\ \E o \in asientoVisto(s[1], s[2], asignaciones, invitados) : MismaPersona(o, a)}) = 1

\* The unique indexes of seat_assignments never reject a move or a swap: at
\* each insert of AssignSeatUseCase the seat and the person are free.
SeatIsFreeWhenTaken ==
  \A p \in Peticiones :
    /\ En(p, "destino") => Cabe(Op(p), Vistas(p))
    /\ En(p, "intercambio") =>
         Cabe(Trasladada(peticion[p].previo, peticion[p].origen), Vistas(p))

\* Every operation takes effect at once and alone, whatever runs beside it.
Plano == INSTANCE SeatingPlan
ImplementsSeatingPlan == Plano!Spec

\* A request always ends, also when its transaction and the unlocked deletion
\* of a table or guest wait for each other.
SeatingRequestEnds == \A p \in Peticiones : ~En(p, "libre") ~> En(p, "libre")
=============================================================================
