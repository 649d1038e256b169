---------------------------- MODULE SeatingProofs ----------------------------
(* What TLAPS proves of Seating, for any tables, guests and requests: the  *)
(* rows stay in order, a seat is free when it is taken, and the            *)
(* transactions implement SeatingPlan.                                     *)
EXTENDS Seating, FiniteSetTheorems, WellFoundedInduction, TLAPS

-----------------------------------------------------------------------------
(* The inductive invariant *)

\* What a request is about: a seat for somebody, new tables, or a table's new row.
OpCrear == [cuantas: Nat \ {0}, minSeats: 1..MaxAsientos, maxSeats: 1..MaxAsientos]
OpMesa == [m: Mesas, fila: FilaMesa]
Operaciones == Asignacion \cup OpCrear \cup OpMesa \cup {<< >>}
Puntos == {"libre", "invitado", "asignaciones", "quitar", "destino", "intercambio",
           "crear", "vacios", "actualizar", "confirmar"}
FilasNuevas == UNION {[S -> FilaMesa] : S \in SUBSET Mesas}
PeticionDePlano == [pc: Puntos, op: Operaciones, n: Nat,
             origen: Asignacion \cup {Nadie}, previo: Asignacion \cup {Nadie},
             quitadas: SUBSET Asignacion, puestas: SUBSET Asignacion, filas: FilasNuevas]

\* The rows are in order: the CHECKs hold, nobody sits twice, nobody shares a
\* seat, and every assignment is of a seat and a guest that exist.
Sitio(a) == a.tableId \in DOMAIN mesas => a.seatIndex < mesas[a.tableId].seatCount
Existen(a) == a.tableId \in DOMAIN mesas /\ a.guestId \in DOMAIN invitados
PlanEnOrden ==
  /\ FilasBien /\ mesas \in [DOMAIN mesas -> FilaMesa] /\ invitados \in [DOMAIN invitados -> Filas]
  /\ borrando \subseteq DOMAIN mesas \cup DOMAIN invitados
  /\ SinChoques(asignaciones)
  /\ \A a \in asignaciones : Existen(a) /\ Sitio(a)
  /\ \E tope \in Nat : \A m \in DOMAIN mesas : mesas[m].creada <= tope

\* The row of the event is locked.
UnaSola == \A p, q \in Peticiones : ~En(p, "libre") /\ ~En(q, "libre") => p = q

\* A row read under the lock: it is still there, or went with its table or guest.
Era(a) == a \in asignaciones \/ ~Existen(a)
Leido(t) ==
  /\ t.op \in Asignacion /\ Sitio(t.op)
  /\ t.origen # Nadie => MismaPersona(t.origen, t.op) /\ Era(t.origen) /\ Sitio(t.origen)
  /\ t.previo # Nadie => MismoAsiento(t.previo, t.op) /\ Era(t.previo) /\ ~MismaPersona(t.previo, t.op)
  /\ \A a \in asignaciones :
       /\ MismaPersona(a, t.op) => a = t.origen
       /\ MismoAsiento(a, t.op) => a = t.previo
       /\ t.previo # Nadie /\ MismaPersona(a, t.previo) => a = t.previo
       /\ t.origen # Nadie /\ MismoAsiento(a, t.origen) => a = t.origen
  /\ t.origen # Nadie => ~MismoAsiento(t.origen, t.op)

RetiraLoLeido(t) == t.quitadas = asignaciones \cap {t.origen, t.previo}
Firme(a) == Existen(a) /\ a.tableId \notin borrando /\ a.guestId \notin borrando
Hay2(t) == t.origen # Nadie /\ t.previo # Nadie
SinFilas(t) == t.filas = << >>
Intacta(t) == t.quitadas = {} /\ t.puestas = {} /\ SinFilas(t)

\* A table about to get its new row loses no seat that is taken.
Cabida(op) == \A a \in asignaciones : a.tableId = op.m => a.seatIndex < op.fila.seatCount
Cambio(op) == /\ op \in OpMesa /\ rangoAsientosValido(op.fila)
              /\ op.m \in DOMAIN mesas => op.fila.creada = mesas[op.m].creada

\* The four operations, at their commit.
Sentada(t) == /\ Leido(t) /\ RetiraLoLeido(t) /\ SinFilas(t)
              /\ t.puestas = {t.op} \cup IF Hay2(t) THEN {Trasladada(t.previo, t.origen)} ELSE {}
              /\ \A a \in t.puestas : Firme(a)
Vaciada(t) == /\ SinFilas(t) /\ t.puestas = {}
              /\ \E m \in Mesas, i \in Asientos :
                   t.quitadas = {a \in asignaciones : a.tableId = m /\ a.seatIndex = i}
Creada(t) == /\ t.quitadas = {} /\ t.puestas = {}
             /\ DOMAIN t.filas # {} /\ DOMAIN t.filas \cap DOMAIN mesas = {}
             /\ Cardinality(DOMAIN t.filas \cup DOMAIN mesas) <= MaxMesas
             /\ \E tope \in Nat : \A m \in DOMAIN t.filas : t.filas[m].creada <= tope
             /\ \A m \in DOMAIN t.filas :
                  /\ rangoAsientosValido(t.filas[m]) /\ t.filas[m].seatCount = t.filas[m].minSeats
                  /\ \A k \in DOMAIN mesas : mesas[k].creada # t.filas[m].creada
                  /\ \A k \in DOMAIN t.filas : t.filas[k].creada = t.filas[m].creada => k = m
Actualizada(t) == /\ t.quitadas = {} /\ t.puestas = {} /\ Cambio(t.op) /\ Cabida(t.op)
                  /\ t.op.m \in DOMAIN mesas \ borrando /\ t.filas = [m \in {t.op.m} |-> t.op.fila]

EnCurso(t) ==
  /\ t.pc = "libre" => t = SinPeticion
  /\ t.pc \in {"invitado", "asignaciones"} => t.op \in Asignacion /\ Sitio(t.op) /\ Intacta(t)
  /\ t.pc = "quitar" => Leido(t) /\ Intacta(t)
  /\ t.pc = "destino" => Leido(t) /\ RetiraLoLeido(t) /\ t.puestas = {} /\ SinFilas(t)
  /\ t.pc = "intercambio" =>
       Leido(t) /\ RetiraLoLeido(t) /\ Hay2(t) /\ t.puestas = {t.op} /\ Firme(t.op) /\ SinFilas(t)
  /\ t.pc = "crear" => /\ t.op \in OpCrear /\ t.op.minSeats <= t.op.maxSeats /\ Intacta(t)
                       /\ Cardinality(DOMAIN mesas) + t.op.cuantas <= MaxMesas
  /\ t.pc = "vacios" => Cambio(t.op) /\ Intacta(t)
  /\ t.pc = "actualizar" => Cambio(t.op) /\ Cabida(t.op) /\ Intacta(t)
  /\ t.pc = "confirmar" => Sentada(t) \/ Vaciada(t) \/ Creada(t) \/ Actualizada(t)

EnMarcha == peticion \in [Peticiones -> PeticionDePlano] /\ \A p \in Peticiones : EnCurso(peticion[p])

SInv == PlanEnOrden /\ UnaSola /\ EnMarcha

-----------------------------------------------------------------------------
(* Records of requests *)

LEMMA EmptyRow ==
  /\ SinPeticion \in PeticionDePlano /\ SinPeticion.pc = "libre" /\ SinPeticion.op = << >>
  /\ SinPeticion.n = 0 /\ SinPeticion.origen = Nadie /\ SinPeticion.previo = Nadie
  /\ SinPeticion.quitadas = {} /\ SinPeticion.puestas = {} /\ SinPeticion.filas = << >>
  /\ << >> \in FilasNuevas /\ DOMAIN << >> = {}
<1>1. DOMAIN << >> = {} /\ << >> \in [{} -> FilaMesa]
  OBVIOUS
<1>2. << >> \in FilasNuevas
  BY <1>1 DEF FilasNuevas
<1>3. << >> \in Operaciones
  BY DEF Operaciones
<1> HIDE DEF FilasNuevas, Operaciones
<1> QED BY <1>1, <1>2, <1>3 DEF SinPeticion, PeticionDePlano, Puntos

LEMMA PutPc ==
  ASSUME NEW t \in PeticionDePlano, NEW pc \in Puntos, NEW u, u = [t EXCEPT !.pc = pc]
  PROVE  /\ u \in PeticionDePlano /\ u.pc = pc /\ u.op = t.op /\ u.n = t.n
         /\ u.origen = t.origen /\ u.previo = t.previo
         /\ u.quitadas = t.quitadas /\ u.puestas = t.puestas /\ u.filas = t.filas
BY DEF PeticionDePlano

\* The rows a request speaks of do not change: nothing changes for it.
LEMMA SameRows ==
  ASSUME UNCHANGED <<mesas, asignaciones, invitados, borrando>>, NEW t
  PROVE  EnCurso(t) <=> EnCurso(t)'
BY DEF EnCurso, Leido, Era, Existen, Sitio, RetiraLoLeido, Firme, Hay2, SinFilas, Intacta, Cabida, Cambio,
       Sentada, Vaciada, Creada, Actualizada

\* What the new state says of a request, said of the request as it is then.
LEMMA Place ==
  ASSUME NEW q, NEW t, peticion'[q] = t, EnCurso(t)'
  PROVE  EnCurso(peticion[q])'
BY DEF EnCurso, Leido, Era, Existen, Sitio, RetiraLoLeido, Firme, Hay2, SinFilas, Intacta, Cabida, Cambio,
       Sentada, Vaciada, Creada, Actualizada

LEMMA EmptyRunsAlways == EnCurso(SinPeticion) /\ EnCurso(SinPeticion)'
BY EmptyRow DEF EnCurso

\* A step of the one request in flight that writes no row.
LEMMA OwnStep ==
  ASSUME SInv, NEW p \in Peticiones, NEW t \in PeticionDePlano, EnCurso(t),
         \A q \in Peticiones \ {p} : En(q, "libre"),
         peticion' = [peticion EXCEPT ![p] = t],
         UNCHANGED <<mesas, asignaciones, invitados, borrando>>
  PROVE  SInv'
<1>1. PlanEnOrden'
  BY DEF SInv, PlanEnOrden, FilasBien, Existen, Sitio
<1>2. /\ peticion' \in [Peticiones -> PeticionDePlano] /\ peticion'[p] = t
      /\ \A q \in Peticiones \ {p} : peticion'[q] = peticion[q]
  BY DEF SInv, EnMarcha
<1>3. UnaSola'
  BY <1>2 DEF UnaSola, En
<1>4. ASSUME NEW q \in Peticiones PROVE EnCurso(peticion[q])'
  <2>1. CASE q = p
    BY <1>2, <2>1, SameRows, Place
  <2>2. CASE q # p
    <3>1. EnCurso(peticion[q]) /\ peticion[q].pc = "libre"
      BY <2>2 DEF SInv, EnMarcha, En
    <3>2. peticion'[q] = SinPeticion
      BY <1>2, <2>2, <3>1 DEF EnCurso
    <3> QED BY <3>2, EmptyRunsAlways, Place
  <2> QED BY <2>1, <2>2
<1> QED BY <1>1, <1>2, <1>3, <1>4 DEF SInv, EnMarcha

LEMMA RowOf ==
  ASSUME SInv, NEW p \in Peticiones
  PROVE  /\ peticion[p] \in PeticionDePlano /\ EnCurso(peticion[p])
         /\ ~En(p, "libre") => \A q \in Peticiones \ {p} : En(q, "libre")
BY DEF SInv, EnMarcha, UnaSola

\* A request that gives up, or is rolled back, leaves nothing behind.
LEMMA GivingUp ==
  ASSUME SInv, NEW p \in Peticiones, ~En(p, "libre"),
         peticion' = [peticion EXCEPT ![p] = SinPeticion],
         UNCHANGED <<mesas, asignaciones, invitados, borrando>>
  PROVE  SInv'
BY RowOf, OwnStep, EmptyRow, EmptyRunsAlways

-----------------------------------------------------------------------------
(* The initial states *)

LEMMA InitHolds == SeatingInit => SInv
<1> SUFFICES ASSUME SeatingInit PROVE SInv
  OBVIOUS
<1> DEFINE Indice(m) == CHOOSE j \in 1..Len(Iniciales) : Iniciales[j] = m
           Ids == {Iniciales[j] : j \in 1..Len(Iniciales)}
<1>1. Len(Iniciales) \in Nat /\ Ids \subseteq Mesas
  BY SupuestosSeating
<1>2. \A m \in Ids : Indice(m) \in 1..Len(Iniciales)
  OBVIOUS
<1>3. mesas = [m \in Ids |-> [minSeats |-> 1, seatCount |-> 1, maxSeats |-> 2,
                              creada |-> Indice(m), puesto |-> Indice(m) - 1]]
  BY DEF SeatingInit
<1> HIDE DEF Indice, Ids
<1>4. DOMAIN mesas = Ids
  BY <1>3
<1>5. \A m \in DOMAIN mesas :
        /\ mesas[m] \in FilaMesa /\ rangoAsientosValido(mesas[m])
        /\ mesas[m].seatCount = 1 /\ mesas[m].creada <= Len(Iniciales)
  BY <1>1, <1>2, <1>3, SupuestosPlano, SupuestosSeating DEF FilaMesa, rangoAsientosValido
<1>6. FilasBien
  BY <1>1, <1>4, <1>5, SupuestosSeating DEF SeatingInit, FilasBien
<1>7. \A a \in asignaciones : Existen(a) /\ Sitio(a)
  BY <1>4, <1>5, SupuestosSeating DEF SeatingInit, Existen, Sitio, Asignacion, Ids
<1>8. mesas \in [DOMAIN mesas -> FilaMesa] /\ invitados \in [DOMAIN invitados -> Filas]
  BY <1>3, <1>5, SupuestosSeating DEF SeatingInit
<1>9. PlanEnOrden
  BY <1>1, <1>5, <1>6, <1>7, <1>8, SupuestosSeating DEF PlanEnOrden, SeatingInit
<1>10. UnaSola /\ EnMarcha
  BY EmptyRow, EmptyRunsAlways DEF SeatingInit, UnaSola, EnMarcha, En
<1> QED BY <1>9, <1>10 DEF SInv

-----------------------------------------------------------------------------
(* Requests that begin *)

LEMMA Beginning ==
  ASSUME SInv, NEW p \in Peticiones, NEW op, NEW e, Abrir(p, op, e),
         [e EXCEPT !.op = op] \in PeticionDePlano, EnCurso([e EXCEPT !.op = op])
  PROVE  SInv'
BY OwnStep DEF Abrir, CerrojoLibre

LEMMA AsignarHolds ==
  ASSUME SInv, NEW p \in Peticiones, NEW destino \in Asignacion, Asignar(p, destino)
  PROVE  SInv'
<1> DEFINE u == [[SinPeticion EXCEPT !.pc = "invitado"] EXCEPT !.op = destino]
<1>0. "invitado" \in Puntos /\ destino \in Operaciones
  BY DEF Operaciones, Puntos
<1>1. /\ u \in PeticionDePlano /\ u.pc = "invitado" /\ u.op = destino
      /\ u.quitadas = {} /\ u.puestas = {} /\ u.filas = << >>
  BY <1>0, EmptyRow DEF PeticionDePlano
<1>2. Sitio(destino) /\ Abrir(p, destino, [SinPeticion EXCEPT !.pc = "invitado"])
  BY DEF Asignar, Sitio
<1> HIDE DEF u
<1>3. EnCurso(u)
  BY <1>1, <1>2 DEF EnCurso, Intacta, SinFilas
<1> QED BY <1>1, <1>2, <1>3, Beginning DEF u

LEMMA VaciarHolds ==
  ASSUME SInv, NEW p \in Peticiones, NEW m \in Mesas, NEW i \in Asientos, VaciarAsiento(p, m, i)
  PROVE  SInv'
<1> DEFINE S == {a \in asignaciones : a.tableId = m /\ a.seatIndex = i}
<1>0. PICK q : q = S
  OBVIOUS
<1> DEFINE e == [SinPeticion EXCEPT !.pc = "confirmar", !.quitadas = q]
           u == [e EXCEPT !.op = << >>]
<1>1. q \subseteq Asignacion
  BY <1>0 DEF SInv, PlanEnOrden, FilasBien
<1>2. /\ u \in PeticionDePlano /\ u.pc = "confirmar"
      /\ u.quitadas = q /\ u.puestas = {} /\ u.filas = << >>
  BY <1>1, EmptyRow DEF PeticionDePlano, Puntos, Operaciones
<1>3. Abrir(p, << >>, e)
  BY <1>0 DEF VaciarAsiento
<1> HIDE DEF e
<1> SUFFICES EnCurso(u)
  BY <1>2, <1>3, Beginning
<1> HIDE DEF u
<1> QED BY <1>0, <1>2 DEF EnCurso, Vaciada, SinFilas

LEMMA ContarHolds ==
  ASSUME SInv, NEW p \in Peticiones, NEW n \in Nat \ {0},
         NEW min \in 1..MaxAsientos, NEW max \in 1..MaxAsientos, Contar(p, n, min, max)
  PROVE  SInv'
<1>0. PICK k : k = Cardinality(DOMAIN mesas)
  OBVIOUS
<1> DEFINE op == [cuantas |-> n, minSeats |-> min, maxSeats |-> max]
           e == [SinPeticion EXCEPT !.pc = "crear", !.n = k]
           u == [e EXCEPT !.op = op]
<1>1. k \in Nat
  BY <1>0, SupuestosPlano, FS_Subset, FS_CardinalityType DEF SInv, PlanEnOrden, FilasBien
<1>2. op \in OpCrear /\ op \in Operaciones
  BY DEF OpCrear, Operaciones
<1>3. /\ u \in PeticionDePlano /\ u.pc = "crear" /\ u.op = op
      /\ u.quitadas = {} /\ u.puestas = {} /\ u.filas = << >>
  BY <1>1, <1>2, EmptyRow DEF PeticionDePlano, Puntos
<1>4. Abrir(p, op, e) /\ min <= max /\ k + n <= MaxMesas
  BY <1>0, SupuestosPlano DEF Contar, rangoAsientosValido
<1> HIDE DEF e
<1> SUFFICES EnCurso(u)
  BY <1>3, <1>4, Beginning
<1> HIDE DEF u
<1> QED BY <1>0, <1>2, <1>3, <1>4 DEF EnCurso, Intacta, SinFilas

LEMMA ActualizarHolds ==
  ASSUME SInv, NEW p \in Peticiones, NEW m \in Mesas, NEW min \in 1..MaxAsientos,
         NEW seats \in 1..MaxAsientos, NEW max \in 1..MaxAsientos,
         ActualizarMesa(p, m, min, seats, max)
  PROVE  SInv'
<1>0. PICK fila : fila = [mesas[m] EXCEPT !.minSeats = min, !.seatCount = seats, !.maxSeats = max]
  OBVIOUS
<1>1. m \in DOMAIN mesas /\ mesas[m] \in FilaMesa /\ rangoAsientosValido(fila)
  BY <1>0 DEF ActualizarMesa, SInv, PlanEnOrden, FilasBien
<1>2. fila \in FilaMesa /\ fila.creada = mesas[m].creada /\ fila.seatCount = seats
  BY <1>0, <1>1 DEF FilaMesa
<1>3. PICK pc \in {"vacios", "actualizar"} :
        pc = IF seats < mesas[m].seatCount THEN "vacios" ELSE "actualizar"
  OBVIOUS
<1> DEFINE op == [m |-> m, fila |-> fila]
           u == [[SinPeticion EXCEPT !.pc = pc] EXCEPT !.op = op]
<1>4. op \in OpMesa /\ op \in Operaciones
  BY <1>2 DEF OpMesa, Operaciones
<1>5. /\ u \in PeticionDePlano /\ u.pc = pc /\ u.op = op
      /\ u.quitadas = {} /\ u.puestas = {} /\ u.filas = << >>
  <2>1. pc \in Puntos
    BY DEF Puntos
  <2> QED BY <1>4, <2>1, EmptyRow DEF PeticionDePlano
<1>6. Abrir(p, op, [SinPeticion EXCEPT !.pc = pc])
  BY <1>0, <1>3 DEF ActualizarMesa
<1>7. Cambio(op)
  BY <1>1, <1>2, <1>4 DEF Cambio
<1>8. pc = "actualizar" => Cabida(op)
  BY <1>1, <1>2, <1>3, SupuestosPlano DEF Cabida, SInv, PlanEnOrden, FilasBien, Existen, Sitio,
     Asignacion, Asientos, FilaMesa
<1> SUFFICES EnCurso(u)
  BY <1>5, <1>6, Beginning
<1> HIDE DEF u, op
<1> QED BY <1>5, <1>7, <1>8 DEF EnCurso, Intacta, SinFilas

-----------------------------------------------------------------------------
(* Requests that read and write beside the rows *)

LEMMA LeerInvitadoHolds ==
  ASSUME SInv, NEW p \in Peticiones, LeerInvitado(p)
  PROVE  SInv'
<1>1. PICK t \in PeticionDePlano : t = peticion[p]
  BY RowOf
<1>2. /\ t.pc = "invitado" /\ EnCurso(t) /\ ~En(p, "libre")
      /\ UNCHANGED <<mesas, asignaciones, invitados, borrando>>
  BY <1>1, RowOf DEF LeerInvitado, En, deTablas, deResto
<1>3. CASE peticion' = [peticion EXCEPT ![p] = SinPeticion]
  BY <1>2, <1>3, GivingUp
<1>4. CASE Ir(p, "asignaciones")
  <2>1. PICK u : u = [t EXCEPT !.pc = "asignaciones"]
    OBVIOUS
  <2>2. u \in PeticionDePlano /\ EnCurso(u)
    BY <1>2, <2>1, PutPc DEF EnCurso, Intacta, SinFilas, Puntos
  <2>3. peticion' = [peticion EXCEPT ![p] = u]
    BY <1>1, <1>4, <2>1 DEF Ir
  <2> QED BY <1>2, <2>2, <2>3, RowOf, OwnStep
<1> QED BY <1>3, <1>4 DEF LeerInvitado

LEMMA FirstOf ==
  ASSUME NEW S
  PROVE  (S = {} /\ Primera(S) = Nadie) \/ Primera(S) \in S
BY DEF Primera

LEMMA LeerAsignacionesHolds ==
  ASSUME SInv, NEW p \in Peticiones, LeerAsignaciones(p)
  PROVE  SInv'
<1>1. PICK t \in PeticionDePlano : t = peticion[p]
  BY RowOf
<1>2. /\ t.pc = "asignaciones" /\ EnCurso(t) /\ ~En(p, "libre")
      /\ UNCHANGED <<mesas, asignaciones, invitados, borrando>>
  BY <1>1, RowOf DEF LeerAsignaciones, En, deTablas, deResto
<1>3. t.op \in Asignacion /\ Sitio(t.op) /\ Intacta(t)
  BY <1>2 DEF EnCurso
<1>4. PICK origen, previo :
        /\ origen = Primera({a \in asignaciones : MismaPersona(a, t.op)})
        /\ previo = Primera({a \in asignaciones : MismoAsiento(a, t.op)})
  OBVIOUS
<1>5. /\ asignaciones \subseteq Asignacion /\ Nadie \notin asignaciones
      /\ SinChoques(asignaciones) /\ \A a \in asignaciones : Existen(a) /\ Sitio(a)
  BY SupuestosSeating DEF SInv, PlanEnOrden, FilasBien
<1>6. /\ origen # Nadie => origen \in asignaciones /\ MismaPersona(origen, t.op)
      /\ origen = Nadie => \A a \in asignaciones : ~MismaPersona(a, t.op)
  <2> DEFINE S == {a \in asignaciones : MismaPersona(a, t.op)}
  <2>1. (S = {} /\ origen = Nadie) \/ origen \in S
    BY <1>4, FirstOf
  <2> QED BY <1>5, <2>1
<1>7. /\ previo # Nadie => previo \in asignaciones /\ MismoAsiento(previo, t.op)
      /\ previo = Nadie => \A a \in asignaciones : ~MismoAsiento(a, t.op)
  <2> DEFINE S == {a \in asignaciones : MismoAsiento(a, t.op)}
  <2>1. (S = {} /\ previo = Nadie) \/ previo \in S
    BY <1>4, FirstOf
  <2> QED BY <1>5, <2>1
<1>8. CASE origen # Nadie /\ origen = previo
  <2>1. peticion' = [peticion EXCEPT ![p] = SinPeticion]
    BY <1>1, <1>4, <1>8 DEF LeerAsignaciones, Op
  <2> QED BY <1>2, <2>1, GivingUp
<1>9. CASE ~(origen # Nadie /\ origen = previo)
  <2>1. PICK u : u = [t EXCEPT !.pc = "quitar", !.origen = origen, !.previo = previo]
    OBVIOUS
  <2>2. peticion' = [peticion EXCEPT ![p] = u]
    BY <1>1, <1>4, <1>9, <2>1 DEF LeerAsignaciones, Op
  <2>3. /\ u \in PeticionDePlano /\ u.pc = "quitar" /\ u.op = t.op /\ u.origen = origen
        /\ u.previo = previo /\ u.quitadas = t.quitadas /\ u.puestas = t.puestas
        /\ u.filas = t.filas
    BY <1>5, <1>6, <1>7, <2>1 DEF PeticionDePlano, Puntos
  <2>4. origen # Nadie => ~MismoAsiento(origen, t.op)
    BY <1>5, <1>6, <1>7, <1>9 DEF SinChoques, MismoAsiento
  <2>5. previo # Nadie => ~MismaPersona(previo, t.op)
    BY <1>5, <1>6, <1>7, <1>9 DEF SinChoques, MismaPersona
  <2>6. \A a \in asignaciones :
          /\ MismaPersona(a, t.op) => a = origen
          /\ MismoAsiento(a, t.op) => a = previo
          /\ previo # Nadie /\ MismaPersona(a, previo) => a = previo
          /\ origen # Nadie /\ MismoAsiento(a, origen) => a = origen
    BY <1>5, <1>6, <1>7 DEF SinChoques, MismaPersona, MismoAsiento
  <2>7. Leido(u)
    BY <1>3, <1>5, <1>6, <1>7, <2>3, <2>4, <2>5, <2>6 DEF Leido, Era
  <2>8. EnCurso(u)
    BY <1>3, <2>3, <2>7 DEF EnCurso, Intacta, SinFilas
  <2> QED BY <1>2, <2>2, <2>3, <2>8, RowOf, OwnStep
<1> QED BY <1>8, <1>9

LEMMA QuitarOcupantesHolds ==
  ASSUME SInv, NEW p \in Peticiones, QuitarOcupantes(p)
  PROVE  SInv'
<1>1. PICK t \in PeticionDePlano : t = peticion[p]
  BY RowOf
<1>2. /\ t.pc = "quitar" /\ EnCurso(t) /\ ~En(p, "libre")
      /\ UNCHANGED <<mesas, asignaciones, invitados, borrando>>
  BY <1>1, RowOf DEF QuitarOcupantes, En, deTablas, deResto
<1>3. Leido(t) /\ Intacta(t)
  BY <1>2 DEF EnCurso
<1>4. asignaciones \subseteq Asignacion /\ Nadie \notin asignaciones
  BY SupuestosSeating DEF SInv, PlanEnOrden, FilasBien
<1>5. PICK filas : filas = asignaciones \cap {t.origen, t.previo}
  OBVIOUS
<1>6. filas = {a \in asignaciones :
                 \E b \in {t.origen, t.previo} \ {Nadie} : MismaPersona(a, b)}
  <2>1. ASSUME NEW a \in asignaciones, t.origen # Nadie, MismaPersona(a, t.origen)
        PROVE  a = t.origen
    BY <1>3, <2>1 DEF Leido, MismaPersona
  <2>2. ASSUME NEW a \in asignaciones, t.previo # Nadie, MismaPersona(a, t.previo)
        PROVE  a = t.previo
    BY <1>3, <2>2 DEF Leido
  <2>3. \A a : MismaPersona(a, a)
    BY DEF MismaPersona
  <2> QED BY <1>4, <1>5, <2>1, <2>2, <2>3
<1>7. PICK u : u = [t EXCEPT !.pc = "destino", !.quitadas = filas]
  OBVIOUS
<1>8. peticion' = [peticion EXCEPT ![p] = u]
  BY <1>1, <1>6, <1>7 DEF QuitarOcupantes
<1>9. /\ u \in PeticionDePlano /\ u.pc = "destino" /\ u.op = t.op /\ u.origen = t.origen
      /\ u.previo = t.previo /\ u.quitadas = filas /\ u.puestas = t.puestas
      /\ u.filas = t.filas
  BY <1>4, <1>5, <1>7 DEF PeticionDePlano, Puntos
<1>10. Leido(u) /\ RetiraLoLeido(u) /\ u.puestas = {} /\ SinFilas(u)
  BY <1>3, <1>5, <1>9 DEF Leido, RetiraLoLeido, Intacta, SinFilas
<1>11. EnCurso(u)
  BY <1>9, <1>10 DEF EnCurso
<1> QED BY <1>2, <1>8, <1>9, <1>11, RowOf, OwnStep

\* The person of b in the seat of a: an assignment like any other.
LEMMA Moved ==
  ASSUME NEW a \in Asignacion, NEW b \in Asignacion
  PROVE  /\ Trasladada(b, a) \in Asignacion
         /\ Trasladada(b, a).tableId = a.tableId /\ Trasladada(b, a).seatIndex = a.seatIndex
         /\ Trasladada(b, a).guestId = b.guestId
         /\ Trasladada(b, a).companionIndex = b.companionIndex
BY DEF Trasladada, Asignacion

\* A create that the foreign keys and the unique indexes let through.
LEMMA Inserting ==
  ASSUME SInv, NEW p \in Peticiones, NEW t \in PeticionDePlano, t = peticion[p], t.pc # "libre",
         NEW a \in Asignacion, NEW pc \in {"intercambio", "confirmar"}, Insertar(p, a, pc),
         NEW u, u = [t EXCEPT !.pc = pc, !.puestas = t.puestas \cup {a}],
         Firme(a) => EnCurso(u)
  PROVE  SInv'
<1>1. ~En(p, "libre") /\ UNCHANGED <<mesas, asignaciones, invitados, borrando>>
  BY DEF Insertar, En, deTablas, deResto
<1>2. CASE peticion' = [peticion EXCEPT ![p] = SinPeticion]
  BY <1>1, <1>2, GivingUp
<1>3. CASE peticion' # [peticion EXCEPT ![p] = SinPeticion]
  <2>1. Firme(a) /\ peticion' = [peticion EXCEPT ![p] = u]
    <3> DEFINE C == \/ a.tableId \notin DOMAIN mesas \/ a.guestId \notin DOMAIN invitados
                    \/ ~Cabe(a, Vistas(p))
    <3>1. peticion' = [peticion EXCEPT ![p] = IF C THEN SinPeticion ELSE u]
      BY DEF Insertar
    <3>2. ~C
      <4> SUFFICES ASSUME C PROVE FALSE
        OBVIOUS
      <4> HIDE DEF C
      <4> QED BY <1>3, <3>1
    <3>3. peticion' = [peticion EXCEPT ![p] = u]
      <4> HIDE DEF C
      <4> QED BY <3>1, <3>2
    <3> QED BY <3>2, <3>3 DEF Insertar, Firme, Existen
  <2>2. u \in PeticionDePlano
    BY DEF PeticionDePlano, Puntos
  <2> QED BY <1>1, <2>1, <2>2, RowOf, OwnStep
<1> QED BY <1>2, <1>3

LEMMA AsignarDestinoHolds ==
  ASSUME SInv, NEW p \in Peticiones, AsignarDestino(p)
  PROVE  SInv'
<1>1. PICK t \in PeticionDePlano : t = peticion[p]
  BY RowOf
<1>2. t.pc = "destino" /\ EnCurso(t)
  BY <1>1, RowOf DEF AsignarDestino, En
<1>3. Leido(t) /\ RetiraLoLeido(t) /\ t.puestas = {} /\ SinFilas(t) /\ t.op \in Asignacion
  BY <1>2 DEF EnCurso, Leido
<1>4. PICK pc \in {"intercambio", "confirmar"} :
        pc = IF Hay2(t) THEN "intercambio" ELSE "confirmar"
  OBVIOUS
<1>b. PICK a \in Asignacion : a = t.op
  BY <1>3
<1>5. Insertar(p, a, pc)
  BY <1>1, <1>4, <1>b DEF AsignarDestino, HayIntercambio, Hay2, Op
<1>6. PICK u : u = [t EXCEPT !.pc = pc, !.puestas = t.puestas \cup {a}]
  OBVIOUS
<1>7. /\ u.pc = pc /\ u.op = t.op /\ u.origen = t.origen /\ u.previo = t.previo
      /\ u.quitadas = t.quitadas /\ u.puestas = {a} /\ u.filas = t.filas
  BY <1>3, <1>6 DEF PeticionDePlano
<1>8. Leido(u) /\ RetiraLoLeido(u) /\ SinFilas(u) /\ (Hay2(u) <=> Hay2(t))
  BY <1>3, <1>7 DEF Leido, RetiraLoLeido, SinFilas, Hay2
<1>9. Firme(a) => EnCurso(u)
  BY <1>4, <1>7, <1>8, <1>b DEF EnCurso, Sentada
<1>10. t.pc # "libre"
  BY <1>2
<1> QED BY <1>1, <1>5, <1>6, <1>9, <1>10, Inserting

LEMMA AsignarIntercambioHolds ==
  ASSUME SInv, NEW p \in Peticiones, AsignarIntercambio(p)
  PROVE  SInv'
<1>1. PICK t \in PeticionDePlano : t = peticion[p]
  BY RowOf
<1>2. t.pc = "intercambio" /\ EnCurso(t)
  BY <1>1, RowOf DEF AsignarIntercambio, En
<1>3. /\ Leido(t) /\ RetiraLoLeido(t) /\ Hay2(t) /\ t.puestas = {t.op}
      /\ Firme(t.op) /\ SinFilas(t)
  BY <1>2 DEF EnCurso
<1>4. PICK a : a = Trasladada(t.previo, t.origen)
  OBVIOUS
<1>5. a \in Asignacion
  BY <1>3, <1>4, Moved DEF Hay2, PeticionDePlano
<1>6. Insertar(p, a, "confirmar")
  BY <1>1, <1>4 DEF AsignarIntercambio
<1>7. PICK u : u = [t EXCEPT !.pc = "confirmar", !.puestas = t.puestas \cup {a}]
  OBVIOUS
<1>8. /\ u.pc = "confirmar" /\ u.op = t.op /\ u.origen = t.origen /\ u.previo = t.previo
      /\ u.quitadas = t.quitadas /\ u.puestas = {t.op} \cup {a} /\ u.filas = t.filas
  BY <1>3, <1>7 DEF PeticionDePlano
<1>9. Leido(u) /\ RetiraLoLeido(u) /\ SinFilas(u) /\ Hay2(u)
  BY <1>3, <1>8 DEF Leido, RetiraLoLeido, SinFilas, Hay2
<1>10. Firme(a) => EnCurso(u)
  BY <1>3, <1>4, <1>8, <1>9 DEF EnCurso, Sentada
<1> QED BY <1>1, <1>2, <1>5, <1>6, <1>7, <1>10, Inserting

LEMMA ComprobarVaciosHolds ==
  ASSUME SInv, NEW p \in Peticiones, ComprobarVacios(p)
  PROVE  SInv'
<1>1. PICK t \in PeticionDePlano : t = peticion[p]
  BY RowOf
<1>2. /\ t.pc = "vacios" /\ EnCurso(t) /\ ~En(p, "libre")
      /\ UNCHANGED <<mesas, asignaciones, invitados, borrando>>
  BY <1>1, RowOf DEF ComprobarVacios, En, deTablas, deResto
<1>3. CASE peticion' = [peticion EXCEPT ![p] = SinPeticion]
  BY <1>2, <1>3, GivingUp
<1>4. CASE /\ Ir(p, "actualizar")
           /\ ~\E a \in asignaciones : a.tableId = t.op.m /\ a.seatIndex >= t.op.fila.seatCount
  <2>1. PICK u : u = [t EXCEPT !.pc = "actualizar"]
    OBVIOUS
  <2>2. /\ u \in PeticionDePlano /\ u.pc = "actualizar" /\ u.op = t.op /\ u.quitadas = t.quitadas
        /\ u.puestas = t.puestas /\ u.filas = t.filas
    BY <2>1 DEF PeticionDePlano, Puntos
  <2>3. Cambio(t.op) /\ Intacta(t)
    BY <1>2 DEF EnCurso
  <2>4. Cabida(t.op)
    BY <1>4, <2>3, SupuestosPlano DEF Cabida, Cambio, OpMesa, FilaMesa, Asignacion, Asientos,
       SInv, PlanEnOrden, FilasBien
  <2>5. EnCurso(u)
    BY <2>2, <2>3, <2>4 DEF EnCurso, Intacta, SinFilas
  <2>6. peticion' = [peticion EXCEPT ![p] = u]
    BY <1>1, <1>4, <2>1 DEF Ir
  <2> QED BY <1>2, <2>2, <2>5, <2>6, RowOf, OwnStep
<1> QED BY <1>1, <1>3, <1>4 DEF ComprobarVacios, Op

LEMMA actualizarMesaHolds ==
  ASSUME SInv, NEW p \in Peticiones, actualizarMesa(p)
  PROVE  SInv'
<1>1. PICK t \in PeticionDePlano : t = peticion[p]
  BY RowOf
<1>2. /\ t.pc = "actualizar" /\ EnCurso(t) /\ ~En(p, "libre")
      /\ UNCHANGED <<mesas, asignaciones, invitados, borrando>>
  BY <1>1, RowOf DEF actualizarMesa, En, deTablas, deResto
<1>3. CASE peticion' = [peticion EXCEPT ![p] = SinPeticion]
  BY <1>2, <1>3, GivingUp
<1>4. CASE peticion' # [peticion EXCEPT ![p] = SinPeticion]
  <2>1. PICK filas : filas = [m \in {t.op.m} |-> t.op.fila]
    OBVIOUS
  <2>2. PICK u : u = [t EXCEPT !.pc = "confirmar", !.filas = filas]
    OBVIOUS
  <2>3. t.op.m \in DOMAIN mesas \ borrando /\ peticion' = [peticion EXCEPT ![p] = u]
    BY <1>1, <1>4, <2>1, <2>2 DEF actualizarMesa, Op
  <2>4. Cambio(t.op) /\ Cabida(t.op) /\ Intacta(t)
    BY <1>2 DEF EnCurso
  <2>5. filas \in FilasNuevas
    <3>1. t.op.m \in Mesas /\ t.op.fila \in FilaMesa
      BY <2>4 DEF Cambio, OpMesa
    <3>2. filas \in [{t.op.m} -> FilaMesa] /\ {t.op.m} \in SUBSET Mesas
      BY <2>1, <3>1
    <3> QED BY <3>2 DEF FilasNuevas
  <2>6. /\ u \in PeticionDePlano /\ u.pc = "confirmar" /\ u.op = t.op /\ u.quitadas = t.quitadas
        /\ u.puestas = t.puestas /\ u.filas = filas
    <3> HIDE DEF FilasNuevas
    <3> QED BY <2>2, <2>5 DEF PeticionDePlano, Puntos
  <2>7. EnCurso(u)
    BY <2>1, <2>3, <2>4, <2>6 DEF EnCurso, Actualizada, Intacta
  <2> QED BY <1>2, <2>3, <2>6, <2>7, RowOf, OwnStep
<1> QED BY <1>3, <1>4

-----------------------------------------------------------------------------
(* New tables *)

ParesCrecientes == {s \in Nat \X Nat : s[1] < s[2]}

LEMMA LeastNumber ==
  ASSUME NEW T, T \subseteq Nat, T # {}
  PROVE  \E x \in T : \A y \in T : x <= y
<1>1. IsWellFoundedOn(ParesCrecientes, Nat)
  BY NatLessThanWellFounded, Zenon DEF OpToRel, ParesCrecientes
<1>2. \E x \in T : \A y \in T : ~ (<<y, x>> \in ParesCrecientes)
  BY <1>1, WFMin, Zenon
<1>3. PICK x \in T : \A y \in T : ~ (<<y, x>> \in ParesCrecientes)
  BY <1>2
<1>4. ASSUME NEW y \in T PROVE x <= y
  <2>1. x \in Nat /\ y \in Nat
    OBVIOUS
  <2>2. y < x => <<y, x>> \in ParesCrecientes
    BY <2>1 DEF ParesCrecientes
  <2> QED BY <1>3, <2>1, <2>2
<1> QED BY <1>4

\* The last table created is the last one.
LEMMA LastCreated ==
  ASSUME SInv
  PROVE  MaxCreada \in Nat /\ \A m \in DOMAIN mesas : mesas[m].creada <= MaxCreada
<1> DEFINE C == {mesas[m].creada : m \in DOMAIN mesas}
           Topes == {c \in Nat : \A m \in DOMAIN mesas : mesas[m].creada <= c}
<1>1. /\ \A m \in DOMAIN mesas : mesas[m].creada \in Nat
      /\ \E tope \in Nat : \A m \in DOMAIN mesas : mesas[m].creada <= tope
  BY DEF SInv, PlanEnOrden, FilasBien, FilaMesa
<1>2. CASE DOMAIN mesas = {}
  BY <1>2 DEF MaxCreada
<1>3. CASE DOMAIN mesas # {}
  <2>1. PICK c \in Topes : \A d \in Topes : c <= d
    BY <1>1, LeastNumber
  <2>2. c \in C
    <3> SUFFICES ASSUME c \notin C PROVE FALSE
      OBVIOUS
    <3>1. \A m \in DOMAIN mesas : mesas[m].creada < c
      BY <1>1, <2>1
    <3>2. c - 1 \in Topes
      BY <1>1, <1>3, <2>1, <3>1
    <3> QED BY <2>1, <3>2
  <2>3. \E d \in C : \A m \in DOMAIN mesas : mesas[m].creada <= d
    BY <2>1, <2>2
  <2>4. MaxCreada \in C /\ \A m \in DOMAIN mesas : mesas[m].creada <= MaxCreada
    BY <1>3, <2>3 DEF MaxCreada
  <2> QED BY <1>1, <2>4
<1> QED BY <1>2, <1>3

LEMMA crearMesasHolds ==
  ASSUME SInv, NEW p \in Peticiones, crearMesas(p)
  PROVE  SInv'
<1>1. PICK t \in PeticionDePlano : t = peticion[p]
  BY RowOf
<1>2. /\ t.pc = "crear" /\ EnCurso(t) /\ ~En(p, "libre")
      /\ UNCHANGED <<mesas, asignaciones, invitados, borrando>>
  BY <1>1, RowOf DEF crearMesas, En, deTablas, deResto
<1>3. PICK n, min, max : n = t.op.cuantas /\ min = t.op.minSeats /\ max = t.op.maxSeats
  OBVIOUS
<1>4. /\ n \in Nat \ {0} /\ min \in 1..MaxAsientos /\ max \in 1..MaxAsientos /\ min <= max
      /\ Intacta(t) /\ Cardinality(DOMAIN mesas) + n <= MaxMesas
  BY <1>2, <1>3 DEF EnCurso, OpCrear
<1>5. PICK k, c : k = t.n /\ c = MaxCreada
  OBVIOUS
<1>6. k \in Nat /\ c \in Nat /\ \A m \in DOMAIN mesas : mesas[m].creada <= c
  BY <1>5, LastCreated DEF PeticionDePlano
<1>7. PICK ids \in Ordenes(n) :
        peticion' = [peticion EXCEPT ![p].pc = "confirmar",
                       ![p].filas = NuevasFilas(ids, t.op, k)]
  BY <1>1, <1>3, <1>5 DEF crearMesas, Op
<1> DEFINE Nuevas == {ids[i] : i \in 1..n}
           Indice(m) == CHOOSE j \in 1..n : ids[j] = m
<1>8. /\ ids \in [1..n -> Mesas \ DOMAIN mesas]
      /\ \A i, j \in 1..n : ids[i] = ids[j] => i = j
  BY DEF Ordenes
<1>9. \A m \in Nuevas : Indice(m) \in 1..n /\ ids[Indice(m)] = m
  OBVIOUS
<1>10. PICK filas : filas = [m \in Nuevas |->
                      [minSeats |-> min, seatCount |-> min, maxSeats |-> max,
                       creada |-> c + Indice(m), puesto |-> k + Indice(m) - 1]]
  OBVIOUS
<1>b. filas = NuevasFilas(ids, t.op, k)
  BY <1>3, <1>5, <1>10 DEF NuevasFilas
<1>11. PICK u : u = [t EXCEPT !.pc = "confirmar", !.filas = filas]
  OBVIOUS
<1>12. peticion' = [peticion EXCEPT ![p] = u]
  BY <1>1, <1>7, <1>b, <1>11
<1>13. /\ Nuevas \subseteq Mesas /\ Nuevas \cap DOMAIN mesas = {} /\ Nuevas # {}
       /\ DOMAIN filas = Nuevas
  <2>1. 1 \in 1..n
    BY <1>4
  <2> QED BY <1>8, <1>10, <2>1
<1>14. Cardinality(Nuevas \cup DOMAIN mesas) <= MaxMesas
  <2>1. ids \in Surjection(1..n, Nuevas)
    BY <1>8 DEF Surjection
  <2>2. IsFiniteSet(1..n) /\ Cardinality(1..n) = n
    BY <1>4, FS_Interval
  <2>3. IsFiniteSet(Nuevas) /\ Cardinality(Nuevas) <= n
    BY <2>1, <2>2, FS_Surjection
  <2>4. IsFiniteSet(DOMAIN mesas)
    BY SupuestosPlano, FS_Subset DEF SInv, PlanEnOrden, FilasBien
  <2> HIDE DEF Nuevas
  <2>5. Nuevas \cap DOMAIN mesas = {} /\ Cardinality({}) = 0
    BY <1>13, FS_EmptySet
  <2>6. Cardinality(Nuevas \cup DOMAIN mesas) = Cardinality(Nuevas) + Cardinality(DOMAIN mesas)
    <3>1. Cardinality(Nuevas) \in Nat /\ Cardinality(DOMAIN mesas) \in Nat
      BY <2>3, <2>4, FS_CardinalityType
    <3>2. Cardinality(Nuevas \cup DOMAIN mesas) =
            Cardinality(Nuevas) + Cardinality(DOMAIN mesas) - Cardinality(Nuevas \cap DOMAIN mesas)
      BY <2>3, <2>4, FS_Union
    <3>3. Cardinality(Nuevas \cap DOMAIN mesas) = 0
      BY <2>5
    <3> QED BY <3>1, <3>2, <3>3
  <2>7. Cardinality(Nuevas) \in Nat /\ Cardinality(DOMAIN mesas) \in Nat
    BY <2>3, <2>4, FS_CardinalityType
  <2> QED BY <1>4, <2>3, <2>6, <2>7, SupuestosPlano
<1> HIDE DEF Indice
<1>15. \A m \in Nuevas :
         /\ filas[m] \in FilaMesa /\ rangoAsientosValido(filas[m])
         /\ filas[m].seatCount = filas[m].minSeats
         /\ filas[m].creada = c + Indice(m) /\ Indice(m) \in 1..n
  BY <1>4, <1>6, <1>9, <1>10, SupuestosPlano DEF FilaMesa, rangoAsientosValido
<1>16. \A m, l \in Nuevas : filas[m].creada = filas[l].creada => m = l
  BY <1>4, <1>6, <1>9, <1>15
<1> HIDE DEF Nuevas
<1>17. filas \in FilasNuevas
  <2>1. filas \in [Nuevas -> FilaMesa]
    BY <1>10, <1>13, <1>15
  <2> QED BY <1>13, <2>1 DEF FilasNuevas
<1>18. /\ u \in PeticionDePlano /\ u.pc = "confirmar" /\ u.quitadas = t.quitadas
       /\ u.puestas = t.puestas /\ u.filas = filas
  <2> HIDE DEF FilasNuevas
  <2> QED BY <1>11, <1>17 DEF PeticionDePlano, Puntos
<1>19. /\ \E tope \in Nat : \A m \in Nuevas : filas[m].creada <= tope
       /\ \A m \in Nuevas, l \in DOMAIN mesas : mesas[l].creada # filas[m].creada
  <2>1. c + n \in Nat /\ \A m \in Nuevas : filas[m].creada <= c + n
    BY <1>4, <1>6, <1>15
  <2>2. \A m \in DOMAIN mesas : mesas[m].creada \in Nat
    BY DEF SInv, PlanEnOrden, FilasBien, FilaMesa
  <2> QED BY <1>4, <1>6, <1>15, <2>1, <2>2
<1>20. Creada(u)
  BY <1>4, <1>13, <1>14, <1>15, <1>16, <1>18, <1>19 DEF Creada, Intacta
<1>21. EnCurso(u)
  BY <1>18, <1>20 DEF EnCurso
<1> QED BY <1>2, <1>12, <1>18, <1>21, RowOf, OwnStep

-----------------------------------------------------------------------------
(* The commit of each operation *)

LEMMA NoNewRows ==
  ASSUME SInv, NEW t, SinFilas(t), mesas' = Con(mesas, t.filas)
  PROVE  mesas' = mesas
BY EmptyRow DEF SInv, PlanEnOrden, SinFilas, Con

\* What a move leaves: nobody else has the person or the seat.
LEMMA SeatedApart ==
  ASSUME SInv, NEW t \in PeticionDePlano, Leido(t), RetiraLoLeido(t)
  PROVE  LET otras == asignaciones \ {t.origen, t.previo}
             T == Trasladada(t.previo, t.origen)
         IN  /\ asignaciones \ t.quitadas = otras
             /\ t.op \notin otras /\ SinChoques(otras \cup {t.op})
             /\ Hay2(t) => /\ T \notin otras \cup {t.op}
                           /\ SinChoques((otras \cup {t.op}) \cup {T})
<1> DEFINE T == Trasladada(t.previo, t.origen)
           otras == asignaciones \ {t.origen, t.previo}
<1>1. ASSUME NEW a \in otras PROVE ~MismaPersona(a, t.op) /\ ~MismoAsiento(a, t.op)
  BY DEF Leido
<1>2. ASSUME Hay2(t)
      PROVE  /\ T.tableId = t.origen.tableId /\ T.seatIndex = t.origen.seatIndex
             /\ T.guestId = t.previo.guestId /\ T.companionIndex = t.previo.companionIndex
  BY <1>2, Moved DEF Hay2, PeticionDePlano
<1>3. SinChoques(otras)
  BY DEF SInv, PlanEnOrden, SinChoques
<1>a. asignaciones \ t.quitadas = otras
  BY DEF RetiraLoLeido
<1> HIDE DEF T
<1>4. ASSUME Hay2(t), NEW a \in otras PROVE ~MismaPersona(a, T) /\ ~MismoAsiento(a, T)
  BY <1>2, <1>4 DEF Leido, Hay2, MismaPersona, MismoAsiento
<1> HIDE DEF otras
<1>5. ASSUME Hay2(t)
      PROVE  ~MismaPersona(t.op, T) /\ ~MismoAsiento(t.op, T)
  BY <1>2, <1>5 DEF Leido, Hay2, MismaPersona, MismoAsiento
<1>6. /\ \A a, b : /\ MismaPersona(a, b) <=> MismaPersona(b, a)
                   /\ MismoAsiento(a, b) <=> MismoAsiento(b, a)
      /\ \A a : MismaPersona(a, a)
  BY DEF MismaPersona, MismoAsiento
<1>7. t.op \notin otras /\ SinChoques(otras \cup {t.op})
  BY <1>1, <1>3, <1>6 DEF SinChoques
<1>8. Hay2(t) => T \notin otras \cup {t.op} /\ SinChoques((otras \cup {t.op}) \cup {T})
  BY <1>4, <1>5, <1>6, <1>7 DEF SinChoques
<1> QED BY <1>a, <1>7, <1>8 DEF otras, T

LEMMA SentadaOrder ==
  ASSUME SInv, NEW t \in PeticionDePlano, Sentada(t), mesas' = Con(mesas, t.filas),
         asignaciones' = (asignaciones \ t.quitadas) \cup t.puestas,
         UNCHANGED <<invitados, borrando>>
  PROVE  PlanEnOrden'
<1>1. mesas' = mesas
  BY NoNewRows DEF Sentada
<1>2. Leido(t) /\ SinChoques(asignaciones') /\ (\A a \in t.puestas : Existen(a))
  <2>1. Leido(t) /\ RetiraLoLeido(t) /\ (\A a \in t.puestas : Existen(a))
    BY DEF Sentada, Firme
  <2>2. CASE Hay2(t)
    <3>1. t.puestas = {t.op} \cup {Trasladada(t.previo, t.origen)}
      BY <2>2 DEF Sentada
    <3> QED BY <2>1, <2>2, <3>1, SeatedApart
  <2>3. CASE ~Hay2(t)
    <3>1. t.puestas = {t.op}
      BY <2>3 DEF Sentada
    <3> QED BY <2>1, <3>1, SeatedApart
  <2> QED BY <2>2, <2>3
<1>3. t.puestas \subseteq Asignacion
  BY DEF PeticionDePlano
<1>4. \A a \in t.puestas : Sitio(a)
  <2>1. Sitio(t.op)
    BY <1>2 DEF Leido
  <2>2. Hay2(t) => Sitio(Trasladada(t.previo, t.origen))
    BY <1>2, Moved DEF Leido, Hay2, PeticionDePlano, Sitio
  <2> QED BY <2>1, <2>2 DEF Sentada
<1> QED BY <1>1, <1>2, <1>3, <1>4 DEF SInv, PlanEnOrden, FilasBien, Existen, Sitio

LEMMA VaciadaOrder ==
  ASSUME SInv, NEW t \in PeticionDePlano, Vaciada(t), mesas' = Con(mesas, t.filas),
         asignaciones' = (asignaciones \ t.quitadas) \cup t.puestas,
         UNCHANGED <<invitados, borrando>>
  PROVE  PlanEnOrden'
<1>1. mesas' = mesas /\ asignaciones' \subseteq asignaciones
  BY NoNewRows DEF Vaciada
<1>2. SinChoques(asignaciones')
  BY <1>1 DEF SInv, PlanEnOrden, SinChoques
<1> QED BY <1>1, <1>2 DEF SInv, PlanEnOrden, FilasBien, Existen, Sitio

\* The tables with the rows that a commit adds or changes.
LEMMA NewRows ==
  ASSUME SInv, NEW f \in FilasNuevas, mesas' = Con(mesas, f)
  PROVE  /\ DOMAIN mesas' = DOMAIN mesas \cup DOMAIN f
         /\ \A m \in DOMAIN f : mesas'[m] = f[m] /\ m \in Mesas /\ f[m] \in FilaMesa
         /\ \A m \in DOMAIN mesas \ DOMAIN f : mesas'[m] = mesas[m]
         /\ mesas' \in [DOMAIN mesas' -> FilaMesa]
         /\ (\A m \in DOMAIN f : rangoAsientosValido(f[m])) =>
               /\ DOMAIN mesas' \subseteq Mesas
               /\ \A m \in DOMAIN mesas' : mesas'[m] \in FilaMesa /\ rangoAsientosValido(mesas'[m])
         /\ (\E tope \in Nat : \A m \in DOMAIN f : f[m].creada <= tope) =>
               \E tope \in Nat : \A m \in DOMAIN mesas' : mesas'[m].creada <= tope
<1>1. \A m \in DOMAIN f : m \in Mesas /\ f[m] \in FilaMesa
  BY DEF FilasNuevas
<1>2. /\ DOMAIN mesas' = DOMAIN mesas \cup DOMAIN f
      /\ \A m \in DOMAIN f : mesas'[m] = f[m]
      /\ \A m \in DOMAIN mesas \ DOMAIN f : mesas'[m] = mesas[m]
  BY DEF Con
<1>3. /\ DOMAIN mesas \subseteq Mesas
      /\ \A m \in DOMAIN mesas : mesas[m] \in FilaMesa /\ rangoAsientosValido(mesas[m])
      /\ \E tope \in Nat : \A m \in DOMAIN mesas : mesas[m].creada <= tope
  BY DEF SInv, PlanEnOrden, FilasBien
<1>4. mesas' \in [DOMAIN mesas' -> FilaMesa]
  BY <1>1, <1>2, <1>3 DEF Con
<1>5. ASSUME \A m \in DOMAIN f : rangoAsientosValido(f[m]), NEW m \in DOMAIN mesas'
      PROVE  m \in Mesas /\ mesas'[m] \in FilaMesa /\ rangoAsientosValido(mesas'[m])
  BY <1>1, <1>2, <1>3, <1>5
<1>6. ASSUME NEW tope \in Nat, \A m \in DOMAIN f : f[m].creada <= tope
      PROVE  \E c \in Nat : \A m \in DOMAIN mesas' : mesas'[m].creada <= c
  <2>1. PICK otro \in Nat : \A m \in DOMAIN mesas : mesas[m].creada <= otro
    BY <1>3
  <2>2. \A m \in DOMAIN mesas' : mesas'[m].creada \in Nat
    BY <1>1, <1>2, <1>3 DEF FilaMesa
  <2>3. tope + otro \in Nat /\ \A m \in DOMAIN mesas' : mesas'[m].creada <= tope + otro
    <3> SUFFICES ASSUME NEW m \in DOMAIN mesas' PROVE mesas'[m].creada <= tope + otro
      OBVIOUS
    <3>1. CASE m \in DOMAIN f
      BY <1>2, <1>6, <2>2, <3>1
    <3>2. CASE m \notin DOMAIN f
      BY <1>2, <2>1, <2>2, <3>2
    <3> QED BY <3>1, <3>2
  <2> QED BY <2>3
<1> QED BY <1>1, <1>2, <1>4, <1>5, <1>6

LEMMA CreadaOrder ==
  ASSUME SInv, NEW t \in PeticionDePlano, Creada(t), mesas' = Con(mesas, t.filas),
         asignaciones' = (asignaciones \ t.quitadas) \cup t.puestas,
         UNCHANGED <<invitados, borrando>>
  PROVE  PlanEnOrden'
<1>1. t.filas \in FilasNuevas /\ asignaciones' = asignaciones
  BY DEF PeticionDePlano, Creada
<1> HIDE DEF FilasNuevas
<1>2. \A m \in DOMAIN mesas : m \in DOMAIN mesas' /\ mesas'[m] = mesas[m]
  BY <1>1, NewRows DEF Creada
<1>3. FilasBien'
  BY <1>1, NewRows DEF Creada, SInv, PlanEnOrden, FilasBien
<1>4. \A a \in asignaciones : Existen(a)' /\ Sitio(a)'
  BY <1>1, <1>2 DEF SInv, PlanEnOrden, Existen, Sitio
<1>5. /\ mesas' \in [DOMAIN mesas' -> FilaMesa]
      /\ \E tope \in Nat : \A m \in DOMAIN mesas' : mesas'[m].creada <= tope
  BY <1>1, NewRows DEF Creada
<1> QED BY <1>1, <1>2, <1>3, <1>4, <1>5 DEF SInv, PlanEnOrden

LEMMA ActualizadaOrder ==
  ASSUME SInv, NEW t \in PeticionDePlano, Actualizada(t), mesas' = Con(mesas, t.filas),
         asignaciones' = (asignaciones \ t.quitadas) \cup t.puestas,
         UNCHANGED <<invitados, borrando>>
  PROVE  PlanEnOrden'
<1>1. t.filas \in FilasNuevas /\ asignaciones' = asignaciones
  BY DEF PeticionDePlano, Actualizada
<1> HIDE DEF FilasNuevas
<1>2. PICK m, fila : m = t.op.m /\ fila = t.op.fila
  OBVIOUS
<1>3. /\ m \in DOMAIN mesas /\ DOMAIN t.filas = {m} /\ t.filas[m] = fila
      /\ rangoAsientosValido(fila) /\ fila \in FilaMesa
      /\ \A a \in asignaciones : a.tableId = m => a.seatIndex < fila.seatCount
  BY <1>2 DEF Actualizada, Cambio, Cabida, OpMesa
<1>4. /\ DOMAIN mesas' = DOMAIN mesas /\ mesas'[m] = fila
      /\ \A k \in DOMAIN mesas \ {m} : mesas'[k] = mesas[k]
  BY <1>1, <1>3, NewRows
<1>5. FilasBien'
  BY <1>1, <1>3, NewRows DEF SInv, PlanEnOrden, FilasBien
<1>6. \A a \in asignaciones : Existen(a)' /\ Sitio(a)'
  BY <1>1, <1>3, <1>4 DEF SInv, PlanEnOrden, Existen, Sitio
<1>7. /\ mesas' \in [DOMAIN mesas' -> FilaMesa]
      /\ \E tope \in Nat : \A k \in DOMAIN mesas' : mesas'[k].creada <= tope
  <2>1. fila.creada \in Nat /\ \A k \in DOMAIN t.filas : t.filas[k].creada <= fila.creada
    BY <1>3 DEF FilaMesa
  <2> QED BY <1>1, <2>1, NewRows
<1> QED BY <1>1, <1>4, <1>5, <1>6, <1>7 DEF SInv, PlanEnOrden

LEMMA ConfirmarHolds ==
  ASSUME SInv, NEW p \in Peticiones, Confirmar(p)
  PROVE  SInv'
<1>1. PICK t \in PeticionDePlano : t = peticion[p]
  BY RowOf
<1>2. /\ mesas' = Con(mesas, t.filas) /\ UNCHANGED <<invitados, borrando>>
      /\ asignaciones' = (asignaciones \ t.quitadas) \cup t.puestas
      /\ peticion' = [peticion EXCEPT ![p] = SinPeticion] /\ ~En(p, "libre")
  BY <1>1 DEF Confirmar, Vistas, En, deResto
<1>3. Sentada(t) \/ Vaciada(t) \/ Creada(t) \/ Actualizada(t)
  BY <1>1, RowOf DEF Confirmar, En, EnCurso
<1>4. PlanEnOrden'
  BY <1>2, <1>3, SentadaOrder, VaciadaOrder, CreadaOrder, ActualizadaOrder
<1>5. peticion' = [q \in Peticiones |-> SinPeticion]
  <2>1. \A q \in Peticiones \ {p} : peticion[q] = SinPeticion
    <3> SUFFICES ASSUME NEW q \in Peticiones \ {p} PROVE peticion[q] = SinPeticion
      OBVIOUS
    <3>1. peticion[q].pc = "libre" /\ EnCurso(peticion[q])
      BY <1>2, RowOf DEF En
    <3> QED BY <3>1 DEF EnCurso
  <2> QED BY <1>2, <2>1 DEF SInv, EnMarcha
<1>6. UnaSola'
  BY <1>5, EmptyRow DEF UnaSola, En
<1>7. ASSUME NEW q \in Peticiones PROVE EnCurso(peticion[q])'
  BY <1>5, EmptyRunsAlways, Place
<1>8. peticion' \in [Peticiones -> PeticionDePlano]
  BY <1>5, EmptyRow
<1> QED BY <1>4, <1>6, <1>7, <1>8 DEF SInv, EnMarcha

-----------------------------------------------------------------------------
(* Deletions and changes outside the lock *)

LEMMA BesideRequests ==
  ASSUME SInv, UNCHANGED peticion, PlanEnOrden',
         \A p \in Peticiones : \A t \in PeticionDePlano : t = peticion[p] /\ EnCurso(t) => EnCurso(t)'
  PROVE  SInv'
<1>1. UnaSola' /\ peticion' \in [Peticiones -> PeticionDePlano]
  BY DEF SInv, UnaSola, En, EnMarcha
<1>2. ASSUME NEW p \in Peticiones PROVE EnCurso(peticion[p])'
  <2>1. PICK t \in PeticionDePlano : t = peticion[p] /\ EnCurso(t)
    BY RowOf
  <2>2. EnCurso(t)' /\ peticion'[p] = t
    BY <2>1
  <2> QED BY <2>2, Place
<1> QED BY <1>1, <1>2 DEF SInv, EnMarcha

LEMMA CambiarInvitadoHolds ==
  ASSUME SInv, NEW g \in Invitados, NEW fila \in Filas, CambiarInvitado(g, fila)
  PROVE  SInv'
<1>1. /\ invitados' = [invitados EXCEPT ![g] = fila]
      /\ UNCHANGED <<mesas, asignaciones, peticion, borrando>>
  BY DEF CambiarInvitado
<1>2. DOMAIN invitados' = DOMAIN invitados /\ invitados' \in [DOMAIN invitados' -> Filas]
  BY <1>1 DEF SInv, PlanEnOrden
<1>3. PlanEnOrden'
  BY <1>1, <1>2 DEF SInv, PlanEnOrden, FilasBien, Existen, Sitio
<1>4. ASSUME NEW t, EnCurso(t) PROVE EnCurso(t)'
  BY <1>1, <1>2, <1>4 DEF EnCurso, Leido, Era, Existen, Sitio, RetiraLoLeido, Firme, Hay2, SinFilas,
     Intacta, Cabida, Cambio, Sentada, Vaciada, Creada, Actualizada
<1> QED BY <1>1, <1>3, <1>4, BesideRequests

LEMMA EmpezarBorradoHolds ==
  ASSUME SInv, NEW x, EmpezarBorrado(x)
  PROVE  SInv'
<1>1. /\ UNCHANGED <<mesas, asignaciones, invitados, peticion>> /\ borrando' = borrando \cup {x}
      /\ x \in DOMAIN mesas \cup DOMAIN invitados /\ ~Retenida(x)
  BY DEF EmpezarBorrado, deTablas
<1>2. PlanEnOrden'
  BY <1>1 DEF SInv, PlanEnOrden, FilasBien, Existen, Sitio
<1>3. ASSUME NEW p \in Peticiones, NEW t \in PeticionDePlano, t = peticion[p], EnCurso(t)
      PROVE  EnCurso(t)'
  <2>1. /\ \A a \in t.puestas : x # a.tableId /\ x # a.guestId
        /\ x \notin DOMAIN t.filas \cap DOMAIN mesas
    BY <1>1, <1>3 DEF Retenida, Referida
  <2>2. \A a \in t.puestas : Firme(a) => Firme(a)'
    BY <1>1, <2>1 DEF Firme, Existen
  <2>3. /\ (Leido(t) => Leido(t)') /\ (RetiraLoLeido(t) => RetiraLoLeido(t)')
        /\ (Cambio(t.op) => Cambio(t.op)') /\ (Cabida(t.op) => Cabida(t.op)')
        /\ (Sitio(t.op) => Sitio(t.op)') /\ (Vaciada(t) => Vaciada(t)')
        /\ (Creada(t) => Creada(t)')
    BY <1>1 DEF Leido, Era, Existen, Sitio, RetiraLoLeido, Cambio, Cabida, Vaciada, Creada, SinFilas
  <2>4. Sentada(t) => Sentada(t)'
    BY <1>1, <2>2, <2>3 DEF Sentada, SinFilas, Hay2
  <2>5. Actualizada(t) => Actualizada(t)'
    <3> SUFFICES ASSUME Actualizada(t) PROVE Actualizada(t)'
      OBVIOUS
    <3>1. DOMAIN t.filas = {t.op.m}
      BY DEF Actualizada
    <3> QED BY <1>1, <2>1, <2>3, <3>1 DEF Actualizada
  <2>6. t.pc = "intercambio" => Firme(t.op)'
    BY <1>3, <2>2 DEF EnCurso
  <2> QED BY <1>1, <1>3, <2>3, <2>4, <2>5, <2>6 DEF EnCurso, Intacta, SinFilas, Hay2
<1> QED BY <1>1, <1>2, <1>3, BesideRequests

LEMMA TerminarBorradoHolds ==
  ASSUME SInv, NEW x \in Mesas \cup Invitados, TerminarBorrado(x)
  PROVE  SInv'
<1>1. /\ mesas' = Sin(mesas, x) /\ invitados' = Sin(invitados, x) /\ UNCHANGED peticion
      /\ borrando' = borrando \ {x} /\ x \in borrando
      /\ asignaciones' = {a \in asignaciones : x # a.tableId /\ x # a.guestId}
      /\ \A p \in Peticiones : \A a \in peticion[p].quitadas : x # a.tableId /\ x # a.guestId
  BY DEF TerminarBorrado, EsperaA, Referida
<1>2. /\ DOMAIN mesas' = DOMAIN mesas \ {x} /\ DOMAIN invitados' = DOMAIN invitados \ {x}
      /\ \A m \in DOMAIN mesas' : mesas'[m] = mesas[m]
      /\ \A g \in DOMAIN invitados' : invitados'[g] = invitados[g]
  BY <1>1 DEF Sin
<1>3. mesas' \in [DOMAIN mesas' -> FilaMesa] /\ invitados' \in [DOMAIN invitados' -> Filas]
  BY <1>1, <1>2 DEF SInv, PlanEnOrden, Sin
<1>4. IsFiniteSet(DOMAIN mesas)
  BY SupuestosPlano, FS_Subset DEF SInv, PlanEnOrden, FilasBien
<1>5. PlanEnOrden'
  <2>1. FilasBien' /\ borrando' \subseteq DOMAIN mesas' \cup DOMAIN invitados'
    BY <1>1, <1>2, <1>3 DEF SInv, PlanEnOrden, FilasBien
  <2>2. SinChoques(asignaciones')
    BY <1>1 DEF SInv, PlanEnOrden, SinChoques
  <2>3. \A a \in asignaciones' : Existen(a)' /\ Sitio(a)'
    BY <1>1, <1>2 DEF SInv, PlanEnOrden, Existen, Sitio
  <2>4. \E tope \in Nat : \A m \in DOMAIN mesas' : mesas'[m].creada <= tope
    BY <1>2 DEF SInv, PlanEnOrden
  <2> QED BY <1>3, <2>1, <2>2, <2>3, <2>4 DEF PlanEnOrden
<1>6. ASSUME NEW p \in Peticiones, NEW t \in PeticionDePlano, t = peticion[p], EnCurso(t)
      PROVE  EnCurso(t)'
  <2>1. \A a \in t.quitadas : x # a.tableId /\ x # a.guestId
    BY <1>1, <1>6
  <2>2. \A a : (Sitio(a) => Sitio(a)') /\ (Firme(a) => Firme(a)') /\ (Era(a) => Era(a)')
    BY <1>1, <1>2 DEF Sitio, Firme, Existen, Era
  <2>3. Leido(t) => Leido(t)'
    BY <1>1, <2>2 DEF Leido
  <2>4. RetiraLoLeido(t) => RetiraLoLeido(t)'
    BY <1>1, <2>1 DEF RetiraLoLeido
  <2>5. (Cambio(t.op) => Cambio(t.op)') /\ (Cabida(t.op) => Cabida(t.op)')
    BY <1>1, <1>2 DEF Cambio, Cabida
  <2>6. Sentada(t) => Sentada(t)'
    BY <2>2, <2>3, <2>4 DEF Sentada, SinFilas, Hay2
  <2>7. Vaciada(t) => Vaciada(t)'
    <3> SUFFICES ASSUME Vaciada(t) PROVE Vaciada(t)'
      OBVIOUS
    <3>1. PICK m \in Mesas, i \in Asientos :
            t.quitadas = {a \in asignaciones : a.tableId = m /\ a.seatIndex = i}
      BY DEF Vaciada
    <3>2. t.quitadas = {a \in asignaciones' : a.tableId = m /\ a.seatIndex = i}
      BY <1>1, <2>1, <3>1
    <3> QED BY <3>2 DEF Vaciada
  <2>8. /\ Cardinality(DOMAIN mesas') <= Cardinality(DOMAIN mesas)
        /\ Cardinality(DOMAIN mesas) \in Nat /\ Cardinality(DOMAIN mesas') \in Nat
    BY <1>2, <1>4, FS_Subset, FS_CardinalityType
  <2>9. Creada(t) => Creada(t)'
    <3> SUFFICES ASSUME Creada(t) PROVE Creada(t)'
      OBVIOUS
    <3>1. Cardinality(DOMAIN t.filas \cup DOMAIN mesas') <= MaxMesas
      <4> DEFINE A == DOMAIN t.filas \cup DOMAIN mesas
                 B == DOMAIN t.filas \cup DOMAIN mesas'
      <4>1. IsFiniteSet(A) /\ B \subseteq A
        <5>1. DOMAIN t.filas \subseteq Mesas
          BY DEF PeticionDePlano, FilasNuevas
        <5>2. A \subseteq Mesas
          BY <5>1 DEF SInv, PlanEnOrden, FilasBien
        <5>3. IsFiniteSet(A)
          BY <5>2, SupuestosPlano, FS_Subset
        <5> QED BY <1>2, <5>3
      <4>2. Cardinality(A) <= MaxMesas
        BY DEF Creada
      <4> HIDE DEF A, B
      <4>3. Cardinality(B) <= Cardinality(A) /\ Cardinality(A) \in Nat /\ Cardinality(B) \in Nat
        BY <4>1, FS_Subset, FS_CardinalityType
      <4>4. Cardinality(B) <= MaxMesas
        BY <4>2, <4>3, SupuestosPlano
      <4> QED BY <4>4 DEF B
    <3>2. /\ t.quitadas = {} /\ t.puestas = {}
          /\ DOMAIN t.filas # {} /\ DOMAIN t.filas \cap DOMAIN mesas' = {}
          /\ \E tope \in Nat : \A m \in DOMAIN t.filas : t.filas[m].creada <= tope
      BY <1>2 DEF Creada
    <3>3. \A m \in DOMAIN t.filas :
            /\ rangoAsientosValido(t.filas[m]) /\ t.filas[m].seatCount = t.filas[m].minSeats
            /\ \A k \in DOMAIN mesas' : mesas'[k].creada # t.filas[m].creada
            /\ \A k \in DOMAIN t.filas : t.filas[k].creada = t.filas[m].creada => k = m
      BY <1>2 DEF Creada
    <3> QED BY <3>1, <3>2, <3>3 DEF Creada
  <2>10. Actualizada(t) => Actualizada(t)'
    BY <1>1, <1>2, <2>5 DEF Actualizada
  <2>11. t.op \in OpCrear /\ Cardinality(DOMAIN mesas) + t.op.cuantas <= MaxMesas
           => Cardinality(DOMAIN mesas') + t.op.cuantas <= MaxMesas
    BY <2>8, SupuestosPlano DEF OpCrear
  <2> QED BY <1>6, <2>2, <2>3, <2>4, <2>5, <2>6, <2>7, <2>9, <2>10, <2>11
          DEF EnCurso, SinFilas, Intacta, Hay2
<1> QED BY <1>1, <1>5, <1>6, BesideRequests

LEMMA InterbloqueoHolds ==
  ASSUME SInv, NEW p \in Peticiones, NEW x, Interbloqueo(p, x)
  PROVE  SInv'
<1>1. ~En(p, "libre") /\ UNCHANGED <<mesas, asignaciones, invitados>>
  BY DEF Interbloqueo, Espera, En, deTablas
<1>2. CASE peticion' = [peticion EXCEPT ![p] = SinPeticion] /\ UNCHANGED borrando
  BY <1>1, <1>2, GivingUp
<1>3. CASE borrando' = borrando \ {x} /\ UNCHANGED peticion
  <2>1. PlanEnOrden'
    BY <1>1, <1>3 DEF SInv, PlanEnOrden, FilasBien, Existen, Sitio
  <2>2. ASSUME NEW t, EnCurso(t) PROVE EnCurso(t)'
    <3>1. \A a : Firme(a) => Firme(a)'
      BY <1>1, <1>3 DEF Firme, Existen
    <3>2. /\ (Leido(t) => Leido(t)') /\ (RetiraLoLeido(t) => RetiraLoLeido(t)')
          /\ (Cambio(t.op) => Cambio(t.op)') /\ (Cabida(t.op) => Cabida(t.op)')
          /\ (Sitio(t.op) => Sitio(t.op)') /\ (Vaciada(t) => Vaciada(t)')
          /\ (Creada(t) => Creada(t)')
      BY <1>1 DEF Leido, Era, Existen, Sitio, RetiraLoLeido, Cambio, Cabida, Vaciada, Creada, SinFilas
    <3>3. Sentada(t) => Sentada(t)'
      BY <3>1, <3>2 DEF Sentada, SinFilas, Hay2
    <3>4. Actualizada(t) => Actualizada(t)'
      BY <1>1, <1>3, <3>2 DEF Actualizada
    <3> QED BY <1>1, <2>2, <3>1, <3>2, <3>3, <3>4 DEF EnCurso, Intacta, SinFilas, Hay2
  <2> QED BY <1>1, <1>3, <2>1, <2>2, BesideRequests
<1> QED BY <1>2, <1>3 DEF Interbloqueo

-----------------------------------------------------------------------------
(* Theorems *)

LEMMA StepHolds == SInv /\ [SeatingNext]_seatingVars => SInv'
<1> SUFFICES ASSUME SInv, [SeatingNext]_seatingVars PROVE SInv'
  OBVIOUS
<1>1. ASSUME NEW p \in Peticiones, PasoDe(p) PROVE SInv'
  BY <1>1, LeerInvitadoHolds, LeerAsignacionesHolds, QuitarOcupantesHolds, AsignarDestinoHolds,
     AsignarIntercambioHolds, crearMesasHolds, ComprobarVaciosHolds, actualizarMesaHolds,
     ConfirmarHolds DEF PasoDe
<1>2. ASSUME NEW p \in Peticiones, Deshacer(p) PROVE SInv'
  BY <1>2, GivingUp DEF Deshacer, deTablas, deResto
<1>3. ASSUME NEW p \in Peticiones, NEW min \in 1..MaxAsientos, NEW max \in 1..MaxAsientos,
             CrearMesa(p, min, max) \/ \E n \in 2..MaxMesas : GenerarMesas(p, n, min, max)
      PROVE  SInv'
  BY <1>3, ContarHolds, SupuestosPlano DEF CrearMesa, GenerarMesas
<1>4. CASE UNCHANGED seatingVars
  <2>1. UNCHANGED <<mesas, asignaciones, invitados, borrando, peticion>>
    BY <1>4 DEF seatingVars
  <2>2. PlanEnOrden'
    BY <2>1 DEF SInv, PlanEnOrden, FilasBien, Existen, Sitio
  <2> QED BY <2>1, <2>2, SameRows, BesideRequests
<1>5. ASSUME NEW p \in Peticiones,
             \/ \E destino \in Asignacion : Asignar(p, destino)
             \/ \E m \in Mesas, i \in Asientos : VaciarAsiento(p, m, i)
             \/ \E m \in Mesas, min, seats, max \in 1..MaxAsientos :
                  ActualizarMesa(p, m, min, seats, max)
      PROVE  SInv'
  BY <1>5, AsignarHolds, VaciarHolds, ActualizarHolds
<1>6. ASSUME NEW x \in Mesas \cup Invitados,
             \/ EmpezarBorrado(x) \/ TerminarBorrado(x)
             \/ \E p \in Peticiones : Interbloqueo(p, x)
      PROVE  SInv'
  BY <1>6, EmpezarBorradoHolds, TerminarBorradoHolds, InterbloqueoHolds
<1>7. ASSUME NEW g \in Invitados, NEW fila \in Filas, CambiarInvitado(g, fila) PROVE SInv'
  BY <1>7, CambiarInvitadoHolds
<1> QED BY <1>1, <1>2, <1>3, <1>4, <1>5, <1>6, <1>7 DEF SeatingNext

\* The invariant of the plan and of the transactions in flight.
THEOREM PlanInOrder == SeatingSpec => []SInv
BY InitHolds, StepHolds, PTL DEF SeatingSpec

\* Every row keeps the CHECKs of the migration, and every request its shape.
THEOREM SeatingTyped == SeatingSpec => []SeatingTypeOK
<1>1. SInv => SeatingTypeOK
  <2> SUFFICES ASSUME SInv PROVE SeatingTypeOK
    OBVIOUS
  <2>1. FilasBien /\ borrando \subseteq Mesas \cup Invitados
    BY DEF SInv, PlanEnOrden, FilasBien
  <2>2. PeticionesBien
    BY RowOf DEF PeticionesBien, PeticionDePlano
  <2> QED BY <2>1, <2>2 DEF SeatingTypeOK
<1> QED BY <1>1, PlanInOrder, PTL

\* Everybody who is seated shows in exactly one seat of the plan.
THEOREM EveryoneShown == SeatingSpec => []EveryoneSeatedIsShown
<1>1. SInv => EveryoneSeatedIsShown
  <2> SUFFICES ASSUME SInv, NEW a \in asignaciones
               PROVE  Cardinality({s \in Mesas \X Asientos :
                        /\ s[1] \in DOMAIN mesas /\ s[2] < mesas[s[1]].seatCount
                        /\ \E o \in asientoVisto(s[1], s[2], asignaciones, invitados) :
                             MismaPersona(o, a)}) = 1
    BY DEF EveryoneSeatedIsShown
  <2> DEFINE S == {s \in Mesas \X Asientos :
                     /\ s[1] \in DOMAIN mesas /\ s[2] < mesas[s[1]].seatCount
                     /\ \E o \in asientoVisto(s[1], s[2], asignaciones, invitados) :
                          MismaPersona(o, a)}
  <2>1. ASSUME NEW m, NEW i
        PROVE  (\E o \in asientoVisto(m, i, asignaciones, invitados) : MismaPersona(o, a))
                 <=> a.tableId = m /\ a.seatIndex = i
    <3>1. (\E o \in asientoVisto(m, i, asignaciones, invitados) : MismaPersona(o, a))
            <=> \E b \in asignaciones : b.tableId = m /\ b.seatIndex = i /\ MismaPersona(b, a)
      <4> DEFINE visto(b) == [guestId |-> b.guestId, companionIndex |-> b.companionIndex,
                              sobrante |-> ~ocupanteValido(b, invitados)]
      <4>1. asientoVisto(m, i, asignaciones, invitados)
              = {visto(b) : b \in {c \in asignaciones : c.tableId = m /\ c.seatIndex = i}}
        BY DEF asientoVisto
      <4>2. \A b : MismaPersona(visto(b), a) <=> MismaPersona(b, a)
        BY DEF MismaPersona
      <4> HIDE DEF visto
      <4> QED BY <4>1, <4>2
    <3>2. \A b \in asignaciones : MismaPersona(b, a) <=> b = a
      BY DEF SInv, PlanEnOrden, SinChoques, MismaPersona
    <3> QED BY <3>1, <3>2
  <2>2. /\ a.tableId \in DOMAIN mesas /\ a.seatIndex < mesas[a.tableId].seatCount
        /\ a.tableId \in Mesas /\ a.seatIndex \in Asientos
    BY DEF SInv, PlanEnOrden, FilasBien, Existen, Sitio, Asignacion
  <2>3. S = {<<a.tableId, a.seatIndex>>}
    BY <2>1, <2>2
  <2> QED BY <2>3, FS_Singleton
<1> QED BY <1>1, PlanInOrder, PTL

\* The unique indexes never reject a move or a swap.
THEOREM SeatFree == SeatingSpec => []SeatIsFreeWhenTaken
<1>1. SInv => SeatIsFreeWhenTaken
  <2> SUFFICES ASSUME SInv, NEW p \in Peticiones
               PROVE  /\ En(p, "destino") => Cabe(Op(p), Vistas(p))
                      /\ En(p, "intercambio") =>
                           Cabe(Trasladada(peticion[p].previo, peticion[p].origen), Vistas(p))
    BY DEF SeatIsFreeWhenTaken
  <2>1. PICK t \in PeticionDePlano : t = peticion[p] /\ EnCurso(t)
    BY RowOf
  <2>2. CASE t.pc = "destino"
    <3>1. Leido(t) /\ RetiraLoLeido(t) /\ t.puestas = {}
      BY <2>1, <2>2 DEF EnCurso
    <3>2. Vistas(p) = asignaciones \ {t.origen, t.previo}
      BY <2>1, <3>1, SeatedApart DEF Vistas
    <3> QED BY <2>1, <2>2, <3>1, <3>2, SeatedApart DEF Cabe, En, Op
  <2>3. CASE t.pc = "intercambio"
    <3>1. Leido(t) /\ RetiraLoLeido(t) /\ Hay2(t) /\ t.puestas = {t.op}
      BY <2>1, <2>3 DEF EnCurso
    <3>2. Vistas(p) = (asignaciones \ {t.origen, t.previo}) \cup {t.op}
      BY <2>1, <3>1, SeatedApart DEF Vistas
    <3> QED BY <2>1, <2>3, <3>1, <3>2, SeatedApart DEF Cabe, En
  <2> QED BY <2>1, <2>2, <2>3 DEF En
<1> QED BY <1>1, PlanInOrder, PTL

-----------------------------------------------------------------------------
(* Seating implements SeatingPlan *)

\* The rules of the plan are those of the code.
LEMMA SameRules ==
  /\ Plano!FilaMesa = FilaMesa /\ Plano!Asignacion = Asignacion /\ Plano!Asientos = Asientos
  /\ \A m : Plano!rangoAsientosValido(m) <=> rangoAsientosValido(m)
  /\ \A as : Plano!SinChoques(as) <=> SinChoques(as)
  /\ \A a, b : /\ Plano!MismaPersona(a, b) <=> MismaPersona(a, b)
               /\ Plano!MismoAsiento(a, b) <=> MismoAsiento(a, b)
               /\ Plano!Trasladada(b, a) = Trasladada(b, a)
  /\ \A f, x : Plano!Sin(f, x) = Sin(f, x)
<1>1. /\ Plano!Asientos = Asientos /\ Plano!Acompanantes = Acompanantes
      /\ \A a, b : /\ Plano!MismaPersona(a, b) <=> MismaPersona(a, b)
                   /\ Plano!MismoAsiento(a, b) <=> MismoAsiento(a, b)
  BY DEF Plano!Asientos, Asientos, Plano!Acompanantes, Acompanantes, Plano!MismaPersona,
     MismaPersona, Plano!MismoAsiento, MismoAsiento
<1>2. Plano!FilaMesa = FilaMesa
  BY DEF Plano!FilaMesa, FilaMesa
<1>3. Plano!Asignacion = Asignacion
  BY <1>1 DEF Plano!Asignacion, Asignacion
<1>4. \A m : Plano!rangoAsientosValido(m) <=> rangoAsientosValido(m)
  BY DEF Plano!rangoAsientosValido, rangoAsientosValido
<1>5. \A as : Plano!SinChoques(as) <=> SinChoques(as)
  BY <1>1 DEF Plano!SinChoques, SinChoques
<1>6. \A a, b : Plano!Trasladada(b, a) = Trasladada(b, a)
  BY DEF Plano!Trasladada, Trasladada
<1>7. \A f, x : Plano!Sin(f, x) = Sin(f, x)
  BY DEF Plano!Sin, Sin
<1> QED BY <1>1, <1>2, <1>3, <1>4, <1>5, <1>6, <1>7

LEMMA InitIsInit == SeatingInit => Plano!Init
<1> SUFFICES ASSUME SeatingInit PROVE Plano!Init
  OBVIOUS
<1>1. PlanEnOrden /\ invitados \in [Invitados -> Filas]
  BY InitHolds, SupuestosSeating DEF SInv, SeatingInit
<1> QED BY <1>1, SameRules DEF Plano!Init, PlanEnOrden, FilasBien, Existen, Sitio

\* Who was read and who is there, once the move commits.
LEMMA ReadIsThere ==
  ASSUME SInv, NEW t \in PeticionDePlano, Sentada(t)
  PROVE  /\ {a \in asignaciones : MismaPersona(a, t.op)} = asignaciones \cap {t.origen}
         /\ {a \in asignaciones : MismoAsiento(a, t.op)} = asignaciones \cap {t.previo}
         /\ Hay2(t) => t.origen \in asignaciones /\ t.previo \in asignaciones
         /\ ~Hay2(t) => asignaciones \cap {t.origen} = {} \/ asignaciones \cap {t.previo} = {}
<1>1. Leido(t) /\ Nadie \notin asignaciones
  BY SupuestosSeating DEF Sentada, SInv, PlanEnOrden, FilasBien
<1>2. /\ {a \in asignaciones : MismaPersona(a, t.op)} = asignaciones \cap {t.origen}
      /\ {a \in asignaciones : MismoAsiento(a, t.op)} = asignaciones \cap {t.previo}
  BY <1>1 DEF Leido
<1>3. ASSUME Hay2(t) PROVE t.origen \in asignaciones /\ t.previo \in asignaciones
  <2>1. Existen(t.op) /\ Existen(Trasladada(t.previo, t.origen))
    BY <1>3 DEF Sentada, Firme
  <2>2. /\ t.origen.tableId \in DOMAIN mesas /\ t.previo.guestId \in DOMAIN invitados
        /\ t.op.tableId \in DOMAIN mesas /\ t.op.guestId \in DOMAIN invitados
    BY <1>3, <2>1, Moved DEF Existen, Hay2, PeticionDePlano
  <2>3. MismaPersona(t.origen, t.op) /\ MismoAsiento(t.previo, t.op)
    BY <1>1, <1>3 DEF Leido, Hay2
  <2>4. Existen(t.origen) /\ Existen(t.previo)
    BY <2>2, <2>3 DEF Existen, MismaPersona, MismoAsiento
  <2> QED BY <1>1, <1>3, <2>4 DEF Leido, Hay2, Era
<1>4. ~Hay2(t) => asignaciones \cap {t.origen} = {} \/ asignaciones \cap {t.previo} = {}
  BY <1>1 DEF Hay2
<1> QED BY <1>2, <1>3, <1>4

LEMMA SentadaIsSentar ==
  ASSUME SInv, NEW t \in PeticionDePlano, Sentada(t), mesas' = Con(mesas, t.filas),
         asignaciones' = (asignaciones \ t.quitadas) \cup t.puestas, UNCHANGED invitados
  PROVE  Plano!Next
<1> DEFINE suyas == {a \in asignaciones : MismaPersona(a, t.op)}
           previas == {a \in asignaciones : MismoAsiento(a, t.op)}
           cambios == {Trasladada(b, a) : a \in suyas, b \in previas \ suyas}
<1>1. /\ mesas' = mesas /\ t.op \in Asignacion /\ Existen(t.op) /\ Sitio(t.op)
      /\ asignaciones \ t.quitadas = asignaciones \ {t.origen, t.previo}
  BY NoNewRows, SeatedApart DEF Sentada, Leido, Firme
<1>2. suyas = asignaciones \cap {t.origen} /\ previas = asignaciones \cap {t.previo}
  BY ReadIsThere
<1>3. t.puestas = {t.op} \cup cambios
  <2>1. CASE Hay2(t)
    <3>1. suyas = {t.origen} /\ previas = {t.previo}
      BY <1>2, <2>1, ReadIsThere
    <3>2. t.previo # t.origen
      BY <2>1 DEF Sentada, Leido, Hay2
    <3>3. cambios = {Trasladada(t.previo, t.origen)}
      BY <3>1, <3>2
    <3> QED BY <2>1, <3>3 DEF Sentada
  <2>2. CASE ~Hay2(t)
    <3>1. cambios = {}
      BY <1>2, <2>2, ReadIsThere
    <3> QED BY <2>2, <3>1 DEF Sentada
  <2> QED BY <2>1, <2>2
<1>4. asignaciones' = ((asignaciones \ (suyas \cup previas)) \cup {t.op}) \cup cambios
  <2> HIDE DEF cambios, suyas, previas
  <2> QED BY <1>1, <1>2, <1>3
<1>5. Plano!Sentar(t.op)
  BY <1>1, <1>4, SameRules DEF Plano!Sentar, Existen, Sitio
<1> QED BY <1>1, <1>5, SameRules DEF Plano!Next

LEMMA VaciadaIsVaciar ==
  ASSUME SInv, NEW t \in PeticionDePlano, Vaciada(t), mesas' = Con(mesas, t.filas),
         asignaciones' = (asignaciones \ t.quitadas) \cup t.puestas, UNCHANGED invitados
  PROVE  Plano!Next
<1>1. PICK m \in Mesas, i \in Asientos :
        t.quitadas = {a \in asignaciones : a.tableId = m /\ a.seatIndex = i}
  BY DEF Vaciada
<1>2. Plano!Vaciar(m, i)
  BY <1>1, NoNewRows DEF Vaciada, Plano!Vaciar
<1> QED BY <1>2, SameRules DEF Plano!Next

LEMMA CreadaIsCrear ==
  ASSUME SInv, NEW t \in PeticionDePlano, Creada(t), mesas' = Con(mesas, t.filas),
         asignaciones' = (asignaciones \ t.quitadas) \cup t.puestas, UNCHANGED invitados
  PROVE  Plano!Next
<1>1. t.filas \in FilasNuevas /\ asignaciones' = asignaciones
  BY DEF PeticionDePlano, Creada
<1>2. PICK f \in FilasNuevas : f = t.filas
  BY <1>1
<1>3. /\ DOMAIN f # {} /\ DOMAIN f \cap DOMAIN mesas = {}
      /\ Cardinality(DOMAIN f \cup DOMAIN mesas) <= MaxMesas
      /\ \A m \in DOMAIN f :
           /\ rangoAsientosValido(f[m]) /\ f[m].seatCount = f[m].minSeats
           /\ \A k \in DOMAIN mesas : mesas[k].creada # f[m].creada
           /\ \A k \in DOMAIN f : f[k].creada = f[m].creada => k = m
  BY <1>2 DEF Creada
<1> HIDE DEF FilasNuevas
<1>4. /\ DOMAIN mesas' = DOMAIN f \cup DOMAIN mesas
      /\ \A m \in DOMAIN f : mesas'[m] = f[m] /\ m \in Mesas /\ f[m] \in FilaMesa
      /\ \A m \in DOMAIN mesas : mesas'[m] = mesas[m]
  BY <1>2, <1>3, NewRows
<1>5. \A m \in DOMAIN f :
        /\ mesas'[m] \in FilaMesa /\ rangoAsientosValido(mesas'[m])
        /\ mesas'[m].seatCount = mesas'[m].minSeats
        /\ \A k \in DOMAIN mesas' : mesas'[k].creada = mesas'[m].creada => k = m
  BY <1>3, <1>4
<1>6. Plano!Crear(DOMAIN f)
  <2>1. \A m \in DOMAIN f :
          /\ mesas'[m] \in Plano!FilaMesa /\ Plano!rangoAsientosValido(mesas'[m])
          /\ mesas'[m].seatCount = mesas'[m].minSeats
          /\ \A k \in DOMAIN mesas' : mesas'[k].creada = mesas'[m].creada => k = m
    BY <1>5, SameRules
  <2>2. \A m \in DOMAIN mesas : mesas'[m] = mesas[m]
    BY <1>4
  <2>3. Plano!Cardinality(DOMAIN f \cup DOMAIN mesas) = Cardinality(DOMAIN f \cup DOMAIN mesas)
    BY Zenon DEF Plano!Cardinality, Cardinality
  <2> QED BY <1>1, <1>3, <1>4, <2>1, <2>2, <2>3 DEF Plano!Crear
<1>7. DOMAIN f \in SUBSET Mesas
  BY <1>4
<1> QED BY <1>6, <1>7 DEF Plano!Next

LEMMA ActualizadaIsActualizar ==
  ASSUME SInv, NEW t \in PeticionDePlano, Actualizada(t), mesas' = Con(mesas, t.filas),
         asignaciones' = (asignaciones \ t.quitadas) \cup t.puestas, UNCHANGED invitados
  PROVE  Plano!Next
<1>1. t.filas \in FilasNuevas /\ asignaciones' = asignaciones
  BY DEF PeticionDePlano, Actualizada
<1> HIDE DEF FilasNuevas
<1>2. PICK m, fila : m = t.op.m /\ fila = t.op.fila
  OBVIOUS
<1>3. /\ m \in DOMAIN mesas /\ DOMAIN t.filas = {m} /\ t.filas[m] = fila /\ m \in Mesas
      /\ rangoAsientosValido(fila) /\ fila \in FilaMesa /\ fila.creada = mesas[m].creada
      /\ \A a \in asignaciones : a.tableId = m => a.seatIndex < fila.seatCount
  BY <1>2 DEF Actualizada, Cambio, Cabida, OpMesa
<1>4. /\ DOMAIN mesas' = DOMAIN mesas /\ mesas'[m] = fila
      /\ \A k \in DOMAIN mesas \ {m} : mesas'[k] = mesas[k]
      /\ mesas' \in [DOMAIN mesas' -> FilaMesa] /\ mesas \in [DOMAIN mesas -> FilaMesa]
  BY <1>1, <1>3, NewRows DEF SInv, PlanEnOrden
<1>5. mesas' = [mesas EXCEPT ![m] = mesas'[m]]
  BY <1>3, <1>4
<1>6. Plano!Actualizar(m)
  BY <1>1, <1>3, <1>4, <1>5, SameRules DEF Plano!Actualizar
<1> QED BY <1>3, <1>6 DEF Plano!Next

LEMMA DeletionIsEliminar ==
  ASSUME SInv, NEW x \in Mesas \cup Invitados, TerminarBorrado(x)
  PROVE  Plano!Next
<1>1. /\ mesas' = Sin(mesas, x) /\ invitados' = Sin(invitados, x)
      /\ asignaciones' = {a \in asignaciones : x # a.tableId /\ x # a.guestId}
  BY DEF TerminarBorrado, Referida
<1>2. /\ DOMAIN mesas \subseteq Mesas /\ DOMAIN invitados \subseteq Invitados
      /\ mesas \in [DOMAIN mesas -> FilaMesa] /\ invitados \in [DOMAIN invitados -> Filas]
      /\ \A a \in asignaciones : a.tableId \in Mesas /\ a.guestId \in Invitados
  BY DEF SInv, PlanEnOrden, FilasBien, Asignacion
<1>3. CASE x \in Mesas
  <2>1. x \notin Invitados
    BY <1>3, SupuestosPlano
  <2>2. invitados' = invitados
    BY <1>1, <1>2, <2>1 DEF Sin
  <2>3. asignaciones' = {a \in asignaciones : a.tableId # x}
    BY <1>1, <1>2, <2>1
  <2>4. Plano!EliminarMesa(x)
    BY <1>1, <2>2, <2>3, SameRules DEF Plano!EliminarMesa
  <2> QED BY <1>3, <2>4 DEF Plano!Next
<1>4. CASE x \notin Mesas
  <2>1. mesas' = mesas
    BY <1>1, <1>2, <1>4 DEF Sin
  <2>2. asignaciones' = {a \in asignaciones : a.guestId # x}
    BY <1>1, <1>2, <1>4
  <2>3. Plano!EliminarInvitado(x)
    BY <1>1, <2>1, <2>2, SameRules DEF Plano!EliminarInvitado
  <2> QED BY <1>4, <2>3 DEF Plano!Next
<1> QED BY <1>3, <1>4

LEMMA StepImplements ==
  ASSUME SInv, [SeatingNext]_seatingVars
  PROVE  [Plano!Next]_<<mesas, asignaciones, invitados>>
<1>1. ASSUME NEW p \in Peticiones, Confirmar(p) PROVE Plano!Next
  <2>1. PICK t \in PeticionDePlano : t = peticion[p]
    BY RowOf
  <2>2. /\ mesas' = Con(mesas, t.filas) /\ UNCHANGED invitados
        /\ asignaciones' = (asignaciones \ t.quitadas) \cup t.puestas
    BY <1>1, <2>1 DEF Confirmar, Vistas
  <2>3. Sentada(t) \/ Vaciada(t) \/ Creada(t) \/ Actualizada(t)
    BY <1>1, <2>1, RowOf DEF Confirmar, En, EnCurso
  <2> QED BY <2>2, <2>3, SentadaIsSentar, VaciadaIsVaciar, CreadaIsCrear, ActualizadaIsActualizar
<1>2. ASSUME NEW g \in Invitados, NEW fila \in Filas, CambiarInvitado(g, fila) PROVE Plano!Next
  <2>1. Plano!CambiarInvitado(g)
    BY <1>2 DEF CambiarInvitado, Plano!CambiarInvitado
  <2> QED BY <2>1 DEF Plano!Next
<1>3. ASSUME NEW x \in Mesas \cup Invitados, TerminarBorrado(x) PROVE Plano!Next
  BY <1>3, DeletionIsEliminar
<1>4. ASSUME NEW p \in Peticiones,
             \/ \E destino \in Asignacion : Asignar(p, destino)
             \/ \E m \in Mesas, i \in Asientos : VaciarAsiento(p, m, i)
             \/ \E min, max \in 1..MaxAsientos :
                  CrearMesa(p, min, max) \/ \E n \in 2..MaxMesas : GenerarMesas(p, n, min, max)
             \/ \E m \in Mesas, min, seats, max \in 1..MaxAsientos :
                  ActualizarMesa(p, m, min, seats, max)
      PROVE  UNCHANGED <<mesas, asignaciones, invitados>>
  BY <1>4 DEF Asignar, VaciarAsiento, CrearMesa, GenerarMesas, Contar, ActualizarMesa, Abrir
<1>5. ASSUME NEW p \in Peticiones, Deshacer(p) \/ (PasoDe(p) /\ ~Confirmar(p))
      PROVE  UNCHANGED <<mesas, asignaciones, invitados>>
  BY <1>5 DEF Deshacer, PasoDe, LeerInvitado, LeerAsignaciones, QuitarOcupantes, AsignarDestino,
     AsignarIntercambio, Insertar, crearMesas, ComprobarVacios, actualizarMesa, deTablas
<1>6. ASSUME NEW x, EmpezarBorrado(x) \/ \E p \in Peticiones : Interbloqueo(p, x)
      PROVE  UNCHANGED <<mesas, asignaciones, invitados>>
  BY <1>6 DEF EmpezarBorrado, Interbloqueo, deTablas
<1>7. CASE UNCHANGED seatingVars
  BY <1>7 DEF seatingVars
<1> QED BY <1>1, <1>2, <1>3, <1>4, <1>5, <1>6, <1>7 DEF SeatingNext

\* The transactions of Postgres keep the promise of SeatingRepository: every
\* operation takes effect at once and alone, beside whatever runs.
THEOREM PlanImplemented == SeatingSpec => ImplementsSeatingPlan
<1>1. SInv /\ [SeatingNext]_seatingVars => [Plano!Next]_<<mesas, asignaciones, invitados>>
  BY StepImplements
<1>2. SeatingSpec => Plano!Init /\ [][Plano!Next]_<<mesas, asignaciones, invitados>>
  BY <1>1, InitIsInit, PlanInOrder, PTL DEF SeatingSpec
<1> QED BY <1>2 DEF ImplementsSeatingPlan, Plano!Spec, Plano!planoVars
=============================================================================
