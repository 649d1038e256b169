--------------------------- MODULE ServicesProofs ---------------------------
(* What TLAPS proves of the smaller services, for every value of their       *)
(* constants: the schedule, the vendors and expenses of an event, the        *)
(* import of guests, the lists by cursor and the showcase of a user; and, at *)
(* the end, of all the services together.                                    *)
EXTENDS MCServices, SeatingProofs, EventsProofs, RealtimeProofs, AccountsProofs,
        FiniteSetTheorems, WellFoundedInduction, TLAPS

-----------------------------------------------------------------------------
(* Schedule *)

\* What a PATCH in flight is about to write over a row.
EdicionesBien ==
  /\ edicionItem \in [Ediciones -> {SinEditar}
                        \cup [pc: {"actualizar"}, id: Momentos, cambios: CambiosItem]]
ScheduleInv == ScheduleTypeOK /\ EdicionesBien

LEMMA AplicadoTypes ==
  ASSUME NEW fila \in Momento, NEW cambios \in CambiosItem
  PROVE  Aplicado(fila, cambios) \in Momento
<1>1. DOMAIN fila = {"startsAt", "endsAt", "status"}
  BY DEF Momento
<1> DEFINE a == Aplicado(fila, cambios)
<1>2. a = [startsAt |-> a.startsAt, endsAt |-> a.endsAt, status |-> a.status]
  BY <1>1 DEF Aplicado
<1>3. /\ a.startsAt = IF cambios.startsAt = SinCambio THEN fila.startsAt ELSE cambios.startsAt
      /\ a.endsAt = IF cambios.endsAt = SinCambio THEN fila.endsAt ELSE cambios.endsAt
      /\ a.status = IF cambios.status = SinCambio THEN fila.status ELSE cambios.status
  BY <1>1 DEF Aplicado
<1>4. /\ a.startsAt \in Instantes /\ a.endsAt \in Instantes \cup {SinFin}
      /\ a.status \in {"PENDING", "IN_PROGRESS", "DONE"}
  BY <1>3 DEF Momento, CambiosItem
<1> HIDE DEF a
<1>5. a \in Momento
  BY <1>2, <1>4 DEF Momento
<1> QED BY <1>5 DEF a

LEMMA ScheduleInitHolds == ScheduleInit => ScheduleInv
  BY DEF ScheduleInit, ScheduleInv, ScheduleTypeOK, EdicionesBien, SinEditar

LEMMA ScheduleStep == ScheduleInv /\ [ScheduleNext]_scheduleVars => ScheduleInv'
<1> SUFFICES ASSUME ScheduleInv, [ScheduleNext]_scheduleVars PROVE ScheduleInv'
  OBVIOUS
<1> USE DEF ScheduleInv, ScheduleTypeOK, EdicionesBien
<1>1. ASSUME NEW id \in Momentos, BorrarItem(id) PROVE ScheduleInv'
  BY <1>1 DEF BorrarItem, Edita
<1>2. ASSUME NEW id \in Momentos, NEW fila \in Momento, CrearItem(id, fila) PROVE ScheduleInv'
  BY <1>2 DEF CrearItem, Edita
<1>3. ASSUME NEW id \in Momentos, NEW d \in Ediciones, NEW cambios \in CambiosItem,
             LeerItem(d, id, cambios)
      PROVE ScheduleInv'
  BY <1>3 DEF LeerItem, Edita
<1>4. ASSUME NEW d \in Ediciones, ActualizarItem(d) PROVE ScheduleInv'
  <2>1. PICK e : e = edicionItem[d]
    OBVIOUS
  <2>2. /\ e.pc = "actualizar" /\ e.id \in Momentos /\ e.cambios \in CambiosItem
        /\ edicionItem' = [edicionItem EXCEPT ![d] = SinEditar]
    BY <1>4, <2>1 DEF ActualizarItem, SinEditar
  <2>3. EdicionesBien'
    BY <2>2 DEF SinEditar
  <2>4. CASE cronograma' = cronograma
    BY <2>3, <2>4
  <2>5. CASE cronograma' # cronograma
    <3>1. /\ e.id \in DOMAIN cronograma
          /\ schedule_items_rango(Aplicado(cronograma[e.id], e.cambios))
          /\ cronograma' = [cronograma EXCEPT ![e.id] = Aplicado(cronograma[e.id], e.cambios)]
      BY <1>4, <2>1, <2>5 DEF ActualizarItem
    <3>2. Aplicado(cronograma[e.id], e.cambios) \in Momento
      BY <2>2, <3>1, AplicadoTypes
    <3> QED BY <2>3, <3>1, <3>2 DEF schedule_items_rango
  <2> QED BY <2>4, <2>5
<1>5. ASSUME NEW d \in Ediciones, CaeEdicionItem(d) PROVE ScheduleInv'
  BY <1>5 DEF CaeEdicionItem, SinEditar
<1>6. CASE UNCHANGED scheduleVars
  BY <1>6 DEF scheduleVars
<1> QED BY <1>1, <1>2, <1>3, <1>4, <1>5, <1>6 DEF ScheduleNext

\* No item of the schedule ends before it begins, whatever PATCHes, each valid
\* against what it read, write their columns one over another.
THEOREM ScheduleKeepsItsRange == ScheduleSpec => []ScheduleTypeOK
<1>1. ScheduleInv => ScheduleTypeOK
  BY DEF ScheduleInv
<1> QED BY <1>1, ScheduleInitHolds, ScheduleStep, PTL DEF ScheduleSpec

-----------------------------------------------------------------------------
(* Guest list *)

Listas == UNION {[S -> Correos \cup {SinCorreo}] : S \in SUBSET Fichas}

\* What an import in flight found when it checked: no error in its file.
ImportacionesBien ==
  /\ importacion \in [Importadores -> [pc: {"libre", "crearVarios"}, lote: Lotes \cup {<< >>}, leidos: Listas]]
  /\ \A p \in Importadores : importacion[p].pc = "crearVarios" =>
       errores(importacion[p].lote, importacion[p].leidos) = {}
GuestListInv == GuestListTypeOK /\ ImportacionesBien

LEMMA ListasOf ==
  ASSUME NEW l
  PROVE  l \in Listas <=> /\ DOMAIN l \subseteq Fichas
                          /\ l \in [DOMAIN l -> Correos \cup {SinCorreo}]
  BY DEF Listas

LEMMA EmptyList == << >> \in Listas
<1>1. DOMAIN << >> = {} /\ << >> \in [{} -> Correos \cup {SinCorreo}]
  OBVIOUS
<1> QED BY <1>1 DEF Listas

\* The rows of a file without errors.
LEMMA GoodFile ==
  ASSUME NEW lote \in Lotes \cup {<< >>}, NEW l, errores(lote, l) = {}
  PROVE  /\ Len(lote) \in Nat /\ DOMAIN lote = 1..Len(lote)
         /\ \A i \in DOMAIN lote : lote[i] \in Correos \cup {SinCorreo}
         /\ \A i, j \in DOMAIN lote : i # j /\ SinCorreo \notin {lote[i], lote[j]} =>
              buzon(lote[i]) # buzon(lote[j])
         /\ \A i \in DOMAIN lote, g \in DOMAIN l : SinCorreo \notin {lote[i], l[g]} =>
              buzon(lote[i]) # buzon(l[g])
<1>1. lote \in Seq(Correos \cup {SinCorreo, FilaMala})
  <2>1. CASE lote \in Lotes
    BY <2>1, SupuestosLista
  <2>2. CASE lote = << >>
    BY <2>2
  <2> QED BY <2>1, <2>2
<1>2. Len(lote) \in Nat /\ DOMAIN lote = 1..Len(lote)
      /\ \A i \in DOMAIN lote : lote[i] \in Correos \cup {SinCorreo, FilaMala}
  BY <1>1
<1>3. /\ DOMAIN lote \ validas(lote) = {} /\ repetidas(lote) = {}
      /\ {i \in ConCorreo(lote) : buzon(lote[i]) \in emailsExistentes(l)} = {}
  BY DEF errores
<1>4. \A i \in DOMAIN lote : lote[i] # FilaMala
  BY <1>3 DEF validas
<1>5. \A i \in DOMAIN lote : lote[i] # SinCorreo => i \in ConCorreo(lote)
  BY <1>4 DEF validas, ConCorreo
<1>6. ASSUME NEW i \in DOMAIN lote, NEW j \in DOMAIN lote, i # j,
             SinCorreo \notin {lote[i], lote[j]}
      PROVE  buzon(lote[i]) # buzon(lote[j])
  <2>1. i \in ConCorreo(lote) /\ j \in ConCorreo(lote) /\ (i < j \/ j < i)
    BY <1>2, <1>5, <1>6
  <2> QED BY <1>3, <2>1 DEF repetidas
<1>7. ASSUME NEW i \in DOMAIN lote, NEW g \in DOMAIN l, SinCorreo \notin {lote[i], l[g]}
      PROVE  buzon(lote[i]) # buzon(l[g])
  <2>1. i \in ConCorreo(lote) /\ buzon(l[g]) \in emailsExistentes(l)
    BY <1>5, <1>7 DEF emailsExistentes
  <2> QED BY <1>3, <2>1
<1> QED BY <1>2, <1>4, <1>6, <1>7

\* The INSERT of an import: one new guest for each row of the file.
LEMMA InsertedRows ==
  ASSUME GuestListInv, NEW p \in Importadores, crearVarios(p), lista' # lista
  PROVE  \E ids \in [DOMAIN importacion[p].lote -> Fichas \ DOMAIN lista] :
           /\ \A i, j \in DOMAIN importacion[p].lote : ids[i] = ids[j] => i = j
           /\ DOMAIN lista' \ DOMAIN lista = {ids[i] : i \in DOMAIN importacion[p].lote}
           /\ DOMAIN lista \subseteq DOMAIN lista'
           /\ \A g \in DOMAIN lista : lista'[g] = lista[g]
           /\ \A i \in DOMAIN importacion[p].lote : lista'[ids[i]] = importacion[p].lote[i]
           /\ lista' = [g \in DOMAIN lista' |-> lista'[g]]
<1>1. PICK lote : lote = importacion[p].lote
  OBVIOUS
<1>2. PICK ids \in [DOMAIN lote -> Fichas \ DOMAIN lista] :
        /\ \A i, j \in DOMAIN lote : ids[i] = ids[j] => i = j
        /\ lista' = ConLote(lista, lote, ids)
  BY <1>1 DEF crearVarios
<1>3. DOMAIN lista' = DOMAIN lista \cup {ids[i] : i \in DOMAIN lote}
  BY <1>2 DEF ConLote
<1>4. \A i \in DOMAIN lote : ids[i] \notin DOMAIN lista
  BY <1>2
<1>5. ASSUME NEW i \in DOMAIN lote PROVE lista'[ids[i]] = lote[i]
  <2>1. (CHOOSE k \in DOMAIN lote : ids[k] = ids[i]) = i
    BY <1>2
  <2> QED BY <1>2, <1>4, <2>1 DEF ConLote
<1>6. \A g \in DOMAIN lista : lista'[g] = lista[g]
  BY <1>2 DEF ConLote
<1>7. lista' = [g \in DOMAIN lista' |-> lista'[g]]
  BY <1>2 DEF ConLote
<1>8. DOMAIN lista' \ DOMAIN lista = {ids[i] : i \in DOMAIN lote}
  BY <1>3, <1>4
<1>9. DOMAIN lista \subseteq DOMAIN lista'
  BY <1>3
<1>10. \A i, j \in DOMAIN lote : ids[i] = ids[j] => i = j
  BY <1>2
<1>11. ids \in [DOMAIN importacion[p].lote -> Fichas \ DOMAIN lista]
  BY <1>1
<1> WITNESS ids \in [DOMAIN importacion[p].lote -> Fichas \ DOMAIN lista]
<1> QED BY <1>1, <1>5, <1>6, <1>7, <1>8, <1>9, <1>10

LEMMA GuestListInitHolds == GuestListInit => GuestListInv
<1> SUFFICES ASSUME GuestListInit PROVE GuestListInv
  OBVIOUS
<1>1. << >> \in Listas
  BY EmptyList
<1> QED BY <1>1 DEF GuestListInit, GuestListInv, GuestListTypeOK, ImportacionesBien, SinImportar

LEMMA GuestListStep == GuestListInv /\ [GuestListNext]_guestListVars => GuestListInv'
<1> SUFFICES ASSUME GuestListInv, [GuestListNext]_guestListVars PROVE GuestListInv'
  OBVIOUS
<1>0. /\ DOMAIN lista \subseteq Fichas /\ lista \in [DOMAIN lista -> Correos \cup {SinCorreo}]
      /\ << >> \in Listas /\ lista \in Listas
  BY EmptyList, ListasOf DEF GuestListInv, GuestListTypeOK
<1>1. ASSUME NEW g \in Fichas, NEW c \in Correos \cup {SinCorreo},
             CrearInvitado(g, c) \/ CambiarCorreo(g, c) \/ BorrarFicha(g)
      PROVE  GuestListInv'
  <2>1. DOMAIN lista' \subseteq Fichas /\ lista' \in [DOMAIN lista' -> Correos \cup {SinCorreo}]
    BY <1>0, <1>1 DEF CrearInvitado, CambiarCorreo, BorrarFicha
  <2>2. importacion' = importacion
    BY <1>1 DEF CrearInvitado, CambiarCorreo, BorrarFicha
  <2> QED BY <2>1, <2>2 DEF GuestListInv, GuestListTypeOK, ImportacionesBien
<1>2. ASSUME NEW p \in Importadores, NEW lote \in Lotes, Importar(p, lote) PROVE GuestListInv'
  <2>1. PICK l \in Listas : l = lista
    BY <1>0
  <2>2. /\ lista' = lista /\ errores(lote, l) = {}
        /\ importacion' = [importacion EXCEPT ![p] = [pc |-> "crearVarios", lote |-> lote, leidos |-> l]]
    BY <1>2, <2>1 DEF Importar
  <2>3. ImportacionesBien'
    BY <2>2 DEF GuestListInv, ImportacionesBien
  <2> QED BY <2>2, <2>3 DEF GuestListInv, GuestListTypeOK, ImportacionesBien
<1>3. ASSUME NEW p \in Importadores, crearVarios(p) \/ CaeImportacion(p) PROVE GuestListInv'
  <2>1. importacion' = [importacion EXCEPT ![p] = SinImportar]
    BY <1>3 DEF crearVarios, CaeImportacion
  <2>2. ImportacionesBien'
    BY <1>0, <2>1 DEF GuestListInv, ImportacionesBien, SinImportar
  <2>3. CASE lista' = lista
    BY <2>2, <2>3 DEF GuestListInv, GuestListTypeOK, ImportacionesBien
  <2>4. CASE lista' # lista
    <3>1. crearVarios(p) /\ importacion[p].pc = "crearVarios"
      BY <1>3, <2>4 DEF crearVarios, CaeImportacion
    <3>2. PICK lote \in Lotes \cup {<< >>} :
            lote = importacion[p].lote /\ errores(lote, importacion[p].leidos) = {}
      BY <3>1 DEF GuestListInv, ImportacionesBien
    <3>3. PICK ids \in [DOMAIN lote -> Fichas \ DOMAIN lista] :
            /\ DOMAIN lista' \ DOMAIN lista = {ids[i] : i \in DOMAIN lote}
            /\ \A g \in DOMAIN lista : lista'[g] = lista[g]
            /\ \A i \in DOMAIN lote : lista'[ids[i]] = lote[i]
            /\ lista' = [g \in DOMAIN lista' |-> lista'[g]]
      BY <2>4, <3>1, <3>2, InsertedRows
    <3>4. \A i \in DOMAIN lote : lote[i] \in Correos \cup {SinCorreo}
      BY <3>2, GoodFile
    <3>5. \A g \in DOMAIN lista' : g \in Fichas /\ lista'[g] \in Correos \cup {SinCorreo}
      BY <1>0, <3>3, <3>4
    <3>6. DOMAIN lista' \subseteq Fichas /\ lista' \in [DOMAIN lista' -> Correos \cup {SinCorreo}]
      BY <3>3, <3>5
    <3> QED BY <2>2, <3>6 DEF GuestListInv, GuestListTypeOK, ImportacionesBien
  <2> QED BY <2>3, <2>4
<1>4. CASE UNCHANGED guestListVars
  BY <1>4 DEF guestListVars, GuestListInv, GuestListTypeOK, ImportacionesBien
<1> QED BY <1>1, <1>2, <1>3, <1>4 DEF GuestListNext

LEMMA ImportStep ==
  ASSUME GuestListInv, NEW p \in Importadores, crearVarios(p), lista' # lista
  PROVE  LET nuevas == DOMAIN lista' \ DOMAIN lista
             leidos == importacion[p].leidos
             fijas == {g \in DOMAIN leidos \cap DOMAIN lista : lista[g] = leidos[g]}
         IN /\ Cardinality(nuevas) = Len(importacion[p].lote)
            /\ \A g \in nuevas, h \in nuevas \cup fijas :
                 g # h /\ SinCorreo \notin {lista'[g], lista'[h]} =>
                   buzon(lista'[g]) # buzon(lista'[h])
<1>1. PICK lote \in Lotes \cup {<< >>}, l \in Listas :
        lote = importacion[p].lote /\ l = importacion[p].leidos /\ errores(lote, l) = {}
  BY DEF crearVarios, GuestListInv, ImportacionesBien
<1>2. PICK ids \in [DOMAIN lote -> Fichas \ DOMAIN lista] :
        /\ \A i, j \in DOMAIN lote : ids[i] = ids[j] => i = j
        /\ DOMAIN lista' \ DOMAIN lista = {ids[i] : i \in DOMAIN lote}
        /\ \A g \in DOMAIN lista : lista'[g] = lista[g]
        /\ \A i \in DOMAIN lote : lista'[ids[i]] = lote[i]
  BY <1>1, InsertedRows
<1> DEFINE nuevas == DOMAIN lista' \ DOMAIN lista
           fijas == {g \in DOMAIN l \cap DOMAIN lista : lista[g] = l[g]}
<1>3. Cardinality(nuevas) = Len(lote)
  <2>1. Len(lote) \in Nat /\ DOMAIN lote = 1..Len(lote)
    BY <1>1, GoodFile
  <2>2. IsFiniteSet(DOMAIN lote) /\ Cardinality(DOMAIN lote) = Len(lote)
    BY <2>1, FS_Interval
  <2>3. ids \in Surjection(DOMAIN lote, nuevas) /\ ids \in Injection(DOMAIN lote, nuevas)
    BY <1>2 DEF Surjection, Injection, IsInjective
  <2> QED BY <2>2, <2>3, FS_Surjection
<1>4. ASSUME NEW g \in nuevas, NEW h \in nuevas \cup fijas,
             g # h, SinCorreo \notin {lista'[g], lista'[h]}
      PROVE  buzon(lista'[g]) # buzon(lista'[h])
  <2>1. PICK i \in DOMAIN lote : g = ids[i]
    BY <1>2
  <2>2. CASE h \in nuevas
    <3>1. PICK j \in DOMAIN lote : h = ids[j]
      BY <1>2, <2>2
    <3> QED BY <1>1, <1>2, <1>4, <2>1, <3>1, GoodFile
  <2>3. CASE h \in fijas
    BY <1>1, <1>2, <1>4, <2>1, <2>3, GoodFile
  <2> QED BY <2>2, <2>3
<1> QED BY <1>1, <1>3, <1>4

LEMMA GuestListReachable == GuestListSpec => []GuestListInv
  BY GuestListInitHolds, GuestListStep, PTL DEF GuestListSpec

\* An import takes in all its rows or none, and nobody it brings has the
\* mailbox, whatever the case, of another row of the file or of a guest who was
\* there when it checked and has not changed since.
THEOREM ImportsDoubleNoMailbox == GuestListSpec => ImportDoublesNoMailbox
<1>1. GuestListInv /\ [GuestListNext]_guestListVars =>
      [\A p \in Importadores :
         importacion[p].pc = "crearVarios" /\ lista' # lista /\ importacion'[p].pc = "libre" =>
         LET nuevas == DOMAIN lista' \ DOMAIN lista
             leidos == importacion[p].leidos
             fijas == {g \in DOMAIN leidos \cap DOMAIN lista : lista[g] = leidos[g]}
         IN /\ Cardinality(nuevas) = Len(importacion[p].lote)
            /\ \A g \in nuevas, h \in nuevas \cup fijas :
                 g # h /\ SinCorreo \notin {lista'[g], lista'[h]} =>
                   buzon(lista'[g]) # buzon(lista'[h])]_guestListVars
  <2> SUFFICES ASSUME GuestListInv, GuestListNext, NEW p \in Importadores,
                      importacion[p].pc = "crearVarios", lista' # lista, importacion'[p].pc = "libre"
               PROVE  crearVarios(p)
    BY ImportStep
  <2>1. importacion \in [Importadores -> [pc: {"libre", "crearVarios"}, lote: Lotes \cup {<< >>}, leidos: Listas]]
    BY DEF GuestListInv, ImportacionesBien
  <2>2. ASSUME NEW q \in Importadores, crearVarios(q) PROVE crearVarios(p)
    <3>1. importacion' = [importacion EXCEPT ![q] = SinImportar]
      BY <2>2 DEF crearVarios
    <3>2. p = q
      BY <2>1, <3>1
    <3> QED BY <2>2, <3>2
  <2>3. ASSUME NEW q \in Importadores, NEW lote \in Lotes, Importar(q, lote) PROVE FALSE
    BY <2>3 DEF Importar
  <2>4. ASSUME NEW q \in Importadores, CaeImportacion(q) PROVE FALSE
    BY <2>4 DEF CaeImportacion
  <2>5. ASSUME NEW g \in Fichas, NEW c \in Correos \cup {SinCorreo},
               CrearInvitado(g, c) \/ CambiarCorreo(g, c) \/ BorrarFicha(g)
        PROVE  FALSE
    BY <2>5 DEF CrearInvitado, CambiarCorreo, BorrarFicha
  <2> QED BY <2>2, <2>3, <2>4, <2>5 DEF GuestListNext
<1> QED BY <1>1, GuestListReachable, PTL DEF GuestListSpec, ImportDoublesNoMailbox

-----------------------------------------------------------------------------
(* Vendors and expenses: types *)

\* The requests in flight and what each has read.
Escribiendo == [pc: {"crearGasto"}, fila: FilaGasto]
Parcheando == [pc: {"proveedor", "actualizarGasto"}, id: Gastos, leido: FilaGasto,
               origen: Contratos \cup {Externo, "undefined"},
               status: EstadosGasto \cup {"undefined"}, amount: Montos \cup {SinMonto},
               ahora: 1..MaxTramites]
Contratando == [pc: {"crearContrato"}, kind: {"linked", "external"}, assignedBudget: Montos \cup {0}]
Cambiando == [pc: {"actualizarContrato"}, v: Contratos, status: EstadosContrato \cup {"undefined"},
              assignedBudget: Montos \cup {0, SinMonto}]
Quitando == [pc: {"tieneGastos", "eliminar"}, v: Contratos]
Tramite == {SinTramite} \cup Escribiendo \cup Parcheando \cup Contratando \cup Cambiando \cup Quitando

Libro == Seq({"added", "updated", "removed"} \X Contratos)

TramitesBien == tramite \in [Tramites -> Tramite] /\ pendientes \in 0..MaxTramites

\* A request of each pc has the fields of its pc.
LEMMA TramiteOf ==
  ASSUME NEW e \in Tramite
  PROVE  /\ e.pc = "crearGasto" => e \in Escribiendo
         /\ e.pc \in {"proveedor", "actualizarGasto"} => e \in Parcheando
         /\ e.pc = "crearContrato" => e \in Contratando
         /\ e.pc = "actualizarContrato" => e \in Cambiando
         /\ e.pc \in {"tieneGastos", "eliminar"} => e \in Quitando
  BY DEF Tramite, SinTramite, Escribiendo, Parcheando, Contratando, Cambiando, Quitando

\* A row put in a table.
LEMMA PuestoTypes ==
  ASSUME NEW S, NEW f, f \in [DOMAIN f -> S], NEW x, NEW e \in S
  PROVE  /\ Puesto(f, x, e) \in [DOMAIN f \cup {x} -> S]
         /\ DOMAIN Puesto(f, x, e) = DOMAIN f \cup {x}
         /\ Puesto(f, x, e)[x] = e
         /\ \A y \in DOMAIN f \ {x} : Puesto(f, x, e)[y] = f[y]
  BY DEF Puesto

LEMMA QuitadoTypes ==
  ASSUME NEW S, NEW f, f \in [DOMAIN f -> S], NEW x
  PROVE  /\ Quitado(f, x) \in [DOMAIN f \ {x} -> S]
         /\ DOMAIN Quitado(f, x) = DOMAIN f \ {x}
         /\ \A y \in DOMAIN f \ {x} : Quitado(f, x)[y] = f[y]
  BY DEF Quitado

LEMMA RowsOf ==
  /\ \A g \in FilaGasto : /\ g.origen \in Contratos \cup {Externo} /\ g.status \in EstadosGasto
                          /\ g.paidAt \in 0..MaxTramites /\ g.amount \in Montos
  /\ 0 \in 0..MaxTramites
  BY SupuestosContratos DEF FilaGasto

\* What a PATCH writes is a row, and one the CHECK accepts if the row was.
LEMMA PatchedRow ==
  ASSUME NEW fila \in FilaGasto, NEW e \in Parcheando
  PROVE  /\ cambiosGasto(fila, e) \in FilaGasto
         /\ AdmitePagado(fila) => AdmitePagado(cambiosGasto(fila, e))
<1>1. /\ e.leido \in FilaGasto /\ e.origen \in Contratos \cup {Externo, "undefined"}
      /\ e.status \in EstadosGasto \cup {"undefined"} /\ e.ahora \in 1..MaxTramites
      /\ e.amount \in Montos \cup {SinMonto}
  BY DEF Parcheando
<1>2. PICK o, s, a, d : /\ o = IF e.origen = "undefined" THEN fila.origen ELSE e.origen
                        /\ s = IF e.status = "undefined" THEN fila.status ELSE e.status
                        /\ a = IF e.amount = SinMonto THEN fila.amount ELSE e.amount
                        /\ d = IF e.status = "undefined" THEN fila.paidAt
                               ELSE paidAtTrasCambio(e.leido, e.status, e.ahora)
  OBVIOUS
<1>3. cambiosGasto(fila, e) = [fila EXCEPT !.origen = o, !.status = s, !.amount = a, !.paidAt = d]
  BY <1>2 DEF cambiosGasto
<1>4. /\ o \in Contratos \cup {Externo} /\ s \in EstadosGasto /\ d \in 0..MaxTramites
      /\ a \in Montos
  BY <1>1, <1>2, RowsOf, SupuestosContratos DEF EstadosGasto, paidAtTrasCambio
<1>5. /\ cambiosGasto(fila, e) \in FilaGasto
      /\ cambiosGasto(fila, e).status = s /\ cambiosGasto(fila, e).paidAt = d
  BY <1>3, <1>4 DEF FilaGasto
<1>6. CASE e.status = "undefined"
  BY <1>2, <1>5, <1>6 DEF AdmitePagado
<1>7. CASE e.status # "undefined"
  <2>1. s = e.status /\ s \in {"PENDING", "PAID"}
    BY <1>1, <1>2, <1>7 DEF EstadosGasto
  <2>2. (s = "PAID") = (d # 0)
    BY <1>1, <1>2, <1>7, <2>1, RowsOf, SupuestosContratos DEF paidAtTrasCambio
  <2> QED BY <1>5, <2>2 DEF AdmitePagado
<1> QED BY <1>5, <1>6, <1>7

-----------------------------------------------------------------------------
(* Vendors and expenses: the inductive invariant *)

\* A vendor the audit log has heard of.
Contado(v) == \E i \in DOMAIN auditoria : auditoria[i][2] = v

\* What holds of each request in flight: the expense it will insert obeys the
\* CHECK, and the vendor it will remove was hired once.
EnTramite(e) == /\ e.pc = "crearGasto" => AdmitePagado(e.fila)
                /\ e.pc \in {"tieneGastos", "eliminar"} => Contado(e.v)
RequestsInv == TramitesBien /\ \A t \in Tramites : EnTramite(tramite[t])

\* What holds of the tables: the rows obey the CHECK and the key.
RowsInv ==
  /\ ContractsTypeOK
  /\ \A g \in DOMAIN gastos : AdmitePagado(gastos[g]) /\ AdmiteClave(gastos[g])
TablesInv == RowsInv /\ AuditTellsTheStory
ContractsInv == RequestsInv /\ TablesInv

\* The story of one vendor.
Historia(v) ==
  LET suyas == {i \in DOMAIN auditoria : auditoria[i][2] = v}
  IN /\ \A i \in suyas : auditoria[i][1] = "added" <=> \A j \in suyas : i <= j
     /\ \A i, j \in suyas : auditoria[i][1] = "removed" /\ i < j => auditoria[j][1] = "removed"
     /\ v \in DOMAIN contratados <=> suyas # {} /\ \A i \in suyas : auditoria[i][1] # "removed"

LEMMA StoryOfEach == AuditTellsTheStory <=> \A v \in Contratos : Historia(v)
  BY DEF AuditTellsTheStory, Historia

LEMMA StoryOfEachNext == AuditTellsTheStory' <=> \A v \in Contratos : Historia(v)'
  BY DEF AuditTellsTheStory, Historia

LEMMA Appended ==
  ASSUME auditoria \in Libro, NEW a \in {"added", "updated", "removed"}, NEW v \in Contratos,
         auditoria' = Append(auditoria, <<a, v>>)
  PROVE  /\ auditoria' \in Libro
         /\ \E n \in Nat : /\ DOMAIN auditoria' = DOMAIN auditoria \cup {n}
                           /\ \A i \in DOMAIN auditoria : i \in Nat /\ i < n /\ auditoria'[i] = auditoria[i]
                           /\ auditoria'[n][1] = a /\ auditoria'[n][2] = v
<1>1. auditoria' = Append(auditoria, <<a, v>>) /\ <<a, v>> \in {"added", "updated", "removed"} \X Contratos
  BY DEF Auditar
<1>2. auditoria' \in Libro
  BY <1>1 DEF Libro
<1>3. /\ Len(auditoria) \in Nat /\ DOMAIN auditoria = 1..Len(auditoria)
      /\ DOMAIN auditoria' = 1..(Len(auditoria) + 1)
      /\ \A i \in 1..Len(auditoria) : auditoria'[i] = auditoria[i]
      /\ auditoria'[Len(auditoria) + 1] = <<a, v>>
  BY <1>1 DEF Libro
<1>4. PICK n \in Nat : n = Len(auditoria) + 1
  BY <1>3
<1>5. /\ DOMAIN auditoria' = DOMAIN auditoria \cup {n}
      /\ \A i \in DOMAIN auditoria : i \in Nat /\ i < n /\ auditoria'[i] = auditoria[i]
      /\ auditoria'[n][1] = a /\ auditoria'[n][2] = v
  BY <1>3, <1>4
<1> QED BY <1>2, <1>5

\* A new entry tells nothing of the other vendors.
LEMMA OthersStory ==
  ASSUME auditoria \in Libro, NEW a \in {"added", "updated", "removed"}, NEW v \in Contratos,
         auditoria' = Append(auditoria, <<a, v>>), NEW w \in Contratos, w # v, Historia(w),
         w \in DOMAIN contratados' <=> w \in DOMAIN contratados
  PROVE  Historia(w)'
<1> DEFINE S == {i \in DOMAIN auditoria : auditoria[i][2] = w}
           T == {i \in DOMAIN auditoria' : auditoria'[i][2] = w}
<1>1. PICK n \in Nat : /\ DOMAIN auditoria' = DOMAIN auditoria \cup {n}
                       /\ \A i \in DOMAIN auditoria : i \in Nat /\ i < n /\ auditoria'[i] = auditoria[i]
                       /\ auditoria'[n][1] = a /\ auditoria'[n][2] = v
  BY Appended
<1>2. T = S /\ \A i \in S : auditoria'[i] = auditoria[i]
  BY <1>1
<1> QED BY <1>2 DEF Historia

\* What each kind of entry makes of the story of its vendor.
LEMMA OwnStory ==
  ASSUME auditoria \in Libro, NEW a \in {"added", "updated", "removed"}, NEW v \in Contratos,
         auditoria' = Append(auditoria, <<a, v>>), Historia(v),
         a = "added" => ~Contado(v) /\ v \in DOMAIN contratados',
         a = "updated" => v \in DOMAIN contratados /\ v \in DOMAIN contratados',
         a = "removed" => Contado(v) /\ v \notin DOMAIN contratados'
  PROVE  Historia(v)'
<1> DEFINE S == {i \in DOMAIN auditoria : auditoria[i][2] = v}
           T == {i \in DOMAIN auditoria' : auditoria'[i][2] = v}
<1>1. PICK n \in Nat : /\ DOMAIN auditoria' = DOMAIN auditoria \cup {n}
                       /\ \A i \in DOMAIN auditoria : i \in Nat /\ i < n /\ auditoria'[i] = auditoria[i]
                       /\ auditoria'[n][1] = a /\ auditoria'[n][2] = v
  BY Appended
<1>2. /\ T = S \cup {n} /\ n \notin S
      /\ \A i \in S : i \in Nat /\ i < n /\ auditoria'[i] = auditoria[i]
  BY <1>1
<1>3. /\ \A i \in S : auditoria[i][1] = "added" <=> \A j \in S : i <= j
      /\ \A i, j \in S : auditoria[i][1] = "removed" /\ i < j => auditoria[j][1] = "removed"
      /\ v \in DOMAIN contratados <=> S # {} /\ \A i \in S : auditoria[i][1] # "removed"
  BY DEF Historia
<1>4. S # {} <=> Contado(v)
  BY DEF Contado
<1> HIDE DEF S, T
<1>5. a = "added" <=> S = {}
  BY <1>3, <1>4
<1>6. \A i \in T : auditoria'[i][1] = "added" <=> \A j \in T : i <= j
  <2>1. ASSUME NEW i \in S PROVE auditoria'[i][1] = "added" <=> \A j \in T : i <= j
    <3>1. (\A j \in T : i <= j) <=> (\A j \in S : i <= j)
      BY <1>2, <2>1
    <3>2. auditoria'[i][1] = auditoria[i][1]
      BY <1>2, <2>1
    <3>3. auditoria[i][1] = "added" <=> \A j \in S : i <= j
      BY <1>3, <2>1
    <3> QED BY <3>1, <3>2, <3>3
  <2>2. auditoria'[n][1] = "added" <=> \A j \in T : n <= j
    BY <1>1, <1>2, <1>5
  <2> QED BY <1>2, <2>1, <2>2
<1>7. \A i, j \in T : auditoria'[i][1] = "removed" /\ i < j => auditoria'[j][1] = "removed"
  <2>1. ASSUME NEW i \in S, auditoria[i][1] = "removed" PROVE a = "removed"
    BY <1>3, <1>5, <2>1
  <2>2. ASSUME NEW i \in T, NEW j \in T, auditoria'[i][1] = "removed", i < j
        PROVE  auditoria'[j][1] = "removed"
    <3>1. i \in S /\ auditoria[i][1] = "removed"
      <4>1. j \in Nat /\ j <= n
        BY <1>2
      <4>2. i # n
        BY <2>2, <4>1
      <4> QED BY <1>2, <2>2, <4>2
    <3>2. CASE j \in S
      BY <1>2, <1>3, <2>2, <3>1, <3>2
    <3>3. CASE j = n
      BY <1>1, <2>1, <3>1, <3>3
    <3> QED BY <1>2, <3>2, <3>3
  <2> QED BY <2>2
<1>8. v \in DOMAIN contratados' <=> T # {} /\ \A i \in T : auditoria'[i][1] # "removed"
  BY <1>1, <1>2, <1>3, <1>5
<1> QED BY <1>6, <1>7, <1>8 DEF Historia, T

\* A request that ends or goes one step further.
LEMMA RequestMoves ==
  ASSUME RequestsInv, NEW t \in Tramites, NEW e \in Tramite, EnTramite(e),
         tramite' = [tramite EXCEPT ![t] = e], pendientes' \in 0..MaxTramites,
         \A v \in Contratos : Contado(v) => Contado(v)'
  PROVE  RequestsInv'
<1>1. TramitesBien'
  BY DEF RequestsInv, TramitesBien
<1>2. ASSUME NEW d \in Tramite, EnTramite(d) PROVE EnTramite(d)'
  <2>1. d.pc \in {"tieneGastos", "eliminar"} => d.v \in Contratos
    BY TramiteOf DEF Quitando
  <2> QED BY <1>2, <2>1 DEF EnTramite
<1>3. ASSUME NEW u \in Tramites PROVE EnTramite(tramite[u])'
  <2>1. PICK d \in Tramite : d = tramite'[u] /\ EnTramite(d)
    BY DEF RequestsInv, TramitesBien
  <2>2. EnTramite(d)'
    BY <1>2, <2>1
  <2> QED BY <2>1, <2>2 DEF EnTramite, Contado
<1> QED BY <1>1, <1>3 DEF RequestsInv

\* The end of a request.
LEMMA RequestEnds ==
  ASSUME RequestsInv, NEW t \in Tramites, Sale(t),
         \A v \in Contratos : Contado(v) => Contado(v)'
  PROVE  RequestsInv'
<1>1. SinTramite \in Tramite /\ EnTramite(SinTramite)
  BY DEF Tramite, EnTramite, SinTramite
<1>2. pendientes' \in 0..MaxTramites
  BY DEF Sale, RequestsInv, TramitesBien
<1> QED BY <1>1, <1>2, RequestMoves DEF Sale

LEMMA TablesKept ==
  ASSUME TablesInv, UNCHANGED <<contratados, gastos, auditoria>>
  PROVE  TablesInv' /\ \A v \in Contratos : Contado(v) => Contado(v)'
  BY DEF TablesInv, RowsInv, ContractsTypeOK, AuditTellsTheStory, AdmiteClave, Contado

-----------------------------------------------------------------------------
(* Vendors and expenses: each step *)

LEMMA RequestStarts ==
  ASSUME ContractsInv, NEW t \in Tramites, NEW e \in Tramite, EnTramite(e), Entra(t, e),
         UNCHANGED deNegocio
  PROVE  ContractsInv'
<1>1. TablesInv' /\ \A v \in Contratos : Contado(v) => Contado(v)'
  BY TablesKept DEF ContractsInv, deNegocio
<1>2. pendientes' \in 0..MaxTramites
  BY SupuestosContratos DEF Entra, ContractsInv, RequestsInv, TramitesBien
<1>3. RequestsInv /\ tramite' = [tramite EXCEPT ![t] = e]
  BY DEF Entra, ContractsInv
<1> QED BY <1>1, <1>2, <1>3, RequestMoves DEF ContractsInv

LEMMA RequestGoesOn ==
  ASSUME ContractsInv, NEW t \in Tramites, NEW bien \in BOOLEAN, NEW etapa,
         [tramite[t] EXCEPT !.pc = etapa] \in Tramite,
         EnTramite([tramite[t] EXCEPT !.pc = etapa]),
         Sigue(t, bien, etapa), UNCHANGED deNegocio
  PROVE  ContractsInv'
<1>1. TablesInv' /\ \A v \in Contratos : Contado(v) => Contado(v)'
  BY TablesKept DEF ContractsInv, deNegocio
<1>2. pendientes' \in 0..MaxTramites
  BY DEF Sigue, ContractsInv, RequestsInv, TramitesBien
<1>3. PICK e \in Tramite : e = [tramite[t] EXCEPT !.pc = etapa]
  OBVIOUS
<1>4. EnTramite(e)
  BY <1>3
<1>5. SinTramite \in Tramite /\ EnTramite(SinTramite)
  BY DEF Tramite, EnTramite, SinTramite
<1>6. CASE bien
  <2>1. tramite' = [tramite EXCEPT ![t] = e]
    BY <1>3, <1>6 DEF Sigue
  <2> QED BY <1>1, <1>2, <1>4, <2>1, RequestMoves DEF ContractsInv
<1>7. CASE ~bien
  <2>1. tramite' = [tramite EXCEPT ![t] = SinTramite]
    BY <1>7 DEF Sigue
  <2> QED BY <1>1, <1>2, <1>5, <2>1, RequestMoves DEF ContractsInv
<1> QED BY <1>6, <1>7

LEMMA CrearGastoHolds ==
  ASSUME ContractsInv, NEW t \in Tramites, NEW origen \in Contratos \cup {Externo},
         NEW status \in EstadosGasto, NEW monto \in Montos, CrearGasto(t, origen, status, monto)
  PROVE  ContractsInv'
<1>1. pendientes \in 0..MaxTramites /\ pendientes > 0 /\ ahora = MaxTramites - pendientes
  BY DEF CrearGasto, Entra, ContractsInv, RequestsInv, TramitesBien, ahora
<1>2. PICK d \in 0..MaxTramites : /\ d = IF status = "PAID" THEN ahora + 1 ELSE 0
                                  /\ status = "PAID" <=> d # 0
  <2>1. CASE status = "PAID"
    <3>1. ahora + 1 \in 0..MaxTramites /\ ahora + 1 # 0
      BY <1>1, SupuestosContratos
    <3> QED BY <2>1, <3>1
  <2>2. CASE status # "PAID"
    BY <2>2, RowsOf
  <2> QED BY <2>1, <2>2
<1>3. PICK fila \in FilaGasto : fila = [origen |-> origen, status |-> status, amount |-> monto, paidAt |-> d]
  BY DEF FilaGasto
<1>4. AdmitePagado(fila)
  BY <1>2, <1>3 DEF AdmitePagado
<1>5. PICK e \in Escribiendo : e = [pc |-> "crearGasto", fila |-> fila]
  BY DEF Escribiendo
<1>6. e \in Tramite /\ EnTramite(e)
  BY <1>4, <1>5 DEF Tramite, EnTramite
<1>7. Entra(t, e) /\ UNCHANGED deNegocio
  BY <1>2, <1>3, <1>5 DEF CrearGasto
<1> QED BY <1>6, <1>7, RequestStarts

LEMMA ActualizarGastoHolds ==
  ASSUME ContractsInv, NEW t \in Tramites, NEW id \in Gastos,
         NEW origen \in Contratos \cup {Externo, "undefined"},
         NEW status \in EstadosGasto \cup {"undefined"}, NEW monto \in Montos \cup {SinMonto},
         ActualizarGasto(t, id, origen, status, monto)
  PROVE  ContractsInv'
<1>1. PICK hoy \in 1..MaxTramites : hoy = ahora + 1
  BY SupuestosContratos DEF ActualizarGasto, Entra, ContractsInv, RequestsInv, TramitesBien, ahora
<1>2. PICK leido \in FilaGasto : leido = gastos[id]
  BY DEF ActualizarGasto, ContractsInv, TablesInv, RowsInv, ContractsTypeOK
<1>3. PICK e \in Parcheando : e = [pc |-> "proveedor", id |-> id, leido |-> leido, origen |-> origen,
                                   status |-> status, amount |-> monto, ahora |-> hoy]
  BY DEF Parcheando
<1>4. e \in Tramite /\ EnTramite(e)
  BY <1>3 DEF Tramite, EnTramite
<1>5. Entra(t, e) /\ UNCHANGED deNegocio
  BY <1>1, <1>2, <1>3 DEF ActualizarGasto
<1> QED BY <1>4, <1>5, RequestStarts

LEMMA VendorReadsHold ==
  ASSUME ContractsInv, NEW t \in Tramites,
         \/ \E kind \in {"linked", "external", "VENDOR_REF_AMBIGUA", "VENDOR_REF_VACIA"},
               b \in Montos \cup {0} : AgregarProveedor(t, kind, b)
         \/ \E v \in Contratos, status \in EstadosContrato \cup {"undefined"},
               b \in Montos \cup {0, SinMonto} : ActualizarProveedor(t, v, status, b)
         \/ \E v \in Contratos : QuitarProveedor(t, v)
  PROVE  ContractsInv'
<1>1. ASSUME NEW kind, NEW b \in Montos \cup {0}, AgregarProveedor(t, kind, b) PROVE ContractsInv'
  <2>1. PICK e \in Contratando : e = [pc |-> "crearContrato", kind |-> kind, assignedBudget |-> b]
    BY <1>1 DEF AgregarProveedor, Contratando
  <2>2. e \in Tramite /\ EnTramite(e)
    BY <2>1 DEF Tramite, EnTramite
  <2>3. Entra(t, e) /\ UNCHANGED deNegocio
    BY <1>1, <2>1 DEF AgregarProveedor
  <2> QED BY <2>2, <2>3, RequestStarts
<1>2. ASSUME NEW v \in Contratos, NEW status \in EstadosContrato \cup {"undefined"},
             NEW b \in Montos \cup {0, SinMonto}, ActualizarProveedor(t, v, status, b)
      PROVE  ContractsInv'
  <2>1. PICK e \in Cambiando : e = [pc |-> "actualizarContrato", v |-> v, status |-> status,
                                    assignedBudget |-> b]
    BY DEF Cambiando
  <2>2. e \in Tramite /\ EnTramite(e)
    BY <2>1 DEF Tramite, EnTramite
  <2>3. Entra(t, e) /\ UNCHANGED deNegocio
    BY <1>2, <2>1 DEF ActualizarProveedor
  <2> QED BY <2>2, <2>3, RequestStarts
<1>3. ASSUME NEW v \in Contratos, QuitarProveedor(t, v) PROVE ContractsInv'
  <2>1. PICK e \in Quitando : e = [pc |-> "tieneGastos", v |-> v]
    BY DEF Quitando
  <2>2. Contado(v)
    BY <1>3, StoryOfEach DEF QuitarProveedor, ContractsInv, TablesInv, Historia, Contado
  <2>3. e \in Tramite /\ EnTramite(e)
    BY <2>1, <2>2 DEF Tramite, EnTramite
  <2>4. Entra(t, e) /\ UNCHANGED deNegocio
    BY <1>3, <2>1 DEF QuitarProveedor
  <2> QED BY <2>3, <2>4, RequestStarts
<1> QED BY <1>1, <1>2, <1>3

LEMMA ChecksHold ==
  ASSUME ContractsInv, NEW t \in Tramites, ComprobarProveedor(t) \/ ComprobarGastos(t)
  PROVE  ContractsInv'
<1>1. PICK e \in Tramite : e = tramite[t] /\ EnTramite(e)
  BY DEF ContractsInv, RequestsInv, TramitesBien
<1>2. CASE ComprobarProveedor(t)
  <2>1. e \in Parcheando
    BY <1>1, <1>2, TramiteOf DEF ComprobarProveedor
  <2>2. PICK d \in Parcheando : d = [e EXCEPT !.pc = "actualizarGasto"] /\ d.pc = "actualizarGasto"
    <3>1. PICK d : d = [e EXCEPT !.pc = "actualizarGasto"]
      OBVIOUS
    <3>2. d \in Parcheando /\ d.pc = "actualizarGasto"
      BY <2>1, <3>1 DEF Parcheando
    <3> QED BY <3>1, <3>2
  <2>3. d \in Tramite /\ EnTramite(d)
    BY <2>2 DEF Tramite, EnTramite
  <2>4. PICK bien \in BOOLEAN : bien = (e.origen = "undefined" \/ proveedorExiste(e.origen))
    OBVIOUS
  <2>5. Sigue(t, bien, "actualizarGasto") /\ UNCHANGED deNegocio
    BY <1>1, <1>2, <2>4 DEF ComprobarProveedor
  <2> QED BY <1>1, <2>2, <2>3, <2>5, RequestGoesOn
<1>3. CASE ComprobarGastos(t)
  <2>1. e \in Quitando
    BY <1>1, <1>3, TramiteOf DEF ComprobarGastos
  <2>2. PICK d \in Quitando : d = [e EXCEPT !.pc = "eliminar"] /\ d.pc = "eliminar" /\ d.v = e.v
    <3>1. PICK d : d = [e EXCEPT !.pc = "eliminar"]
      OBVIOUS
    <3>2. d \in Quitando /\ d.pc = "eliminar" /\ d.v = e.v
      BY <2>1, <3>1 DEF Quitando
    <3> QED BY <3>1, <3>2
  <2>3. d \in Tramite /\ EnTramite(d)
    BY <1>1, <1>3, <2>2 DEF Tramite, EnTramite, ComprobarGastos
  <2>4. PICK bien \in BOOLEAN : bien = ~tieneGastos(e.v)
    OBVIOUS
  <2>5. Sigue(t, bien, "eliminar") /\ UNCHANGED deNegocio
    BY <1>1, <1>3, <2>4 DEF ComprobarGastos
  <2> QED BY <1>1, <2>2, <2>3, <2>5, RequestGoesOn
<1> QED BY <1>2, <1>3

LEMMA ExpensesWritten ==
  ASSUME TablesInv, UNCHANGED <<contratados, auditoria>>, DOMAIN gastos' \subseteq Gastos,
         gastos' \in [DOMAIN gastos' -> FilaGasto],
         \A g \in DOMAIN gastos' : AdmitePagado(gastos'[g]) /\ AdmiteClave(gastos'[g])
  PROVE  TablesInv' /\ \A v \in Contratos : Contado(v) => Contado(v)'
  BY DEF TablesInv, RowsInv, ContractsTypeOK, AuditTellsTheStory, AdmiteClave, AdmitePagado, Contado

LEMMA ExpenseRows ==
  ASSUME TablesInv
  PROVE  /\ DOMAIN gastos \subseteq Gastos /\ gastos \in [DOMAIN gastos -> FilaGasto]
         /\ \A g \in DOMAIN gastos : AdmitePagado(gastos[g]) /\ AdmiteClave(gastos[g])
  BY DEF TablesInv, RowsInv, ContractsTypeOK

LEMMA crearGastoHolds ==
  ASSUME ContractsInv, NEW t \in Tramites, crearGasto(t)
  PROVE  ContractsInv'
<1>1. PICK e \in Tramite : e = tramite[t] /\ EnTramite(e)
  BY DEF ContractsInv, RequestsInv, TramitesBien
<1>2. e \in Escribiendo /\ AdmitePagado(e.fila)
  BY <1>1, TramiteOf DEF crearGasto, EnTramite
<1>3. PICK fila \in FilaGasto : fila = e.fila /\ AdmitePagado(fila)
  BY <1>2 DEF Escribiendo
<1>4. PICK id \in Gastos \ DOMAIN gastos :
        gastos' = IF AdmiteClave(fila) THEN Puesto(gastos, id, fila) ELSE gastos
  BY <1>1, <1>3 DEF crearGasto
<1>5. Sale(t) /\ UNCHANGED <<contratados, auditoria>>
  BY DEF crearGasto
<1>6. /\ DOMAIN gastos' \subseteq Gastos /\ gastos' \in [DOMAIN gastos' -> FilaGasto]
      /\ \A g \in DOMAIN gastos' : AdmitePagado(gastos'[g]) /\ AdmiteClave(gastos'[g])
  <2>1. CASE AdmiteClave(fila)
    <3>1. /\ DOMAIN gastos' = DOMAIN gastos \cup {id} /\ gastos' \in [DOMAIN gastos \cup {id} -> FilaGasto]
          /\ gastos'[id] = fila /\ \A y \in DOMAIN gastos \ {id} : gastos'[y] = gastos[y]
      <4>1. gastos \in [DOMAIN gastos -> FilaGasto] /\ gastos' = Puesto(gastos, id, fila)
        BY <1>4, <2>1, ExpenseRows DEF ContractsInv
      <4> QED BY <1>3, <4>1 DEF Puesto
    <3> QED BY <1>3, <2>1, <3>1, ExpenseRows DEF ContractsInv
  <2>2. CASE ~AdmiteClave(fila)
    BY <1>4, <2>2, ExpenseRows DEF ContractsInv
  <2> QED BY <2>1, <2>2
<1>7. TablesInv' /\ \A v \in Contratos : Contado(v) => Contado(v)'
  BY <1>5, <1>6, ExpensesWritten DEF ContractsInv
<1> QED BY <1>5, <1>7, RequestEnds DEF ContractsInv

LEMMA actualizarGastoHolds ==
  ASSUME ContractsInv, NEW t \in Tramites, actualizarGasto(t)
  PROVE  ContractsInv'
<1>1. PICK e \in Tramite : e = tramite[t]
  BY DEF ContractsInv, RequestsInv, TramitesBien
<1>2. e \in Parcheando
  BY <1>1, TramiteOf DEF actualizarGasto
<1>3. PICK id \in Gastos : id = e.id
  BY <1>2 DEF Parcheando
<1>4. Sale(t) /\ UNCHANGED <<contratados, auditoria>>
  BY DEF actualizarGasto
<1>5. /\ DOMAIN gastos' \subseteq Gastos /\ gastos' \in [DOMAIN gastos' -> FilaGasto]
      /\ \A g \in DOMAIN gastos' : AdmitePagado(gastos'[g]) /\ AdmiteClave(gastos'[g])
  <2>1. CASE gastos' = gastos
    BY <2>1, ExpenseRows DEF ContractsInv
  <2>2. CASE gastos' # gastos
    <3>1. /\ id \in DOMAIN gastos /\ AdmiteClave(cambiosGasto(gastos[id], e))
          /\ AdmitePagado(cambiosGasto(gastos[id], e))
          /\ gastos' = [gastos EXCEPT ![id] = cambiosGasto(gastos[id], e)]
      BY <1>1, <1>3, <2>2 DEF actualizarGasto
    <3>2. PICK fila : fila = cambiosGasto(gastos[id], e)
      OBVIOUS
    <3>3. fila \in FilaGasto
      BY <1>2, <3>1, <3>2, PatchedRow, ExpenseRows DEF ContractsInv
    <3>4. DOMAIN gastos' = DOMAIN gastos /\ gastos'[id] = fila
          /\ \A g \in DOMAIN gastos : g # id => gastos'[g] = gastos[g]
      BY <3>1, <3>2, ExpenseRows DEF ContractsInv
    <3>5. gastos' \in [DOMAIN gastos -> FilaGasto]
      BY <3>1, <3>2, <3>3, ExpenseRows DEF ContractsInv
    <3> QED BY <3>1, <3>2, <3>4, <3>5, ExpenseRows DEF ContractsInv
  <2> QED BY <2>1, <2>2
<1>6. TablesInv' /\ \A v \in Contratos : Contado(v) => Contado(v)'
  BY <1>4, <1>5, ExpensesWritten DEF ContractsInv
<1> QED BY <1>4, <1>6, RequestEnds DEF ContractsInv

LEMMA BorrarGastoHolds ==
  ASSUME ContractsInv, NEW id \in Gastos, BorrarGasto(id)
  PROVE  ContractsInv'
<1>1. /\ DOMAIN gastos' = DOMAIN gastos \ {id} /\ gastos' \in [DOMAIN gastos \ {id} -> FilaGasto]
      /\ \A y \in DOMAIN gastos \ {id} : gastos'[y] = gastos[y]
  BY QuitadoTypes, ExpenseRows DEF BorrarGasto, ContractsInv
<1>2. /\ DOMAIN gastos' \subseteq Gastos
      /\ \A g \in DOMAIN gastos' : AdmitePagado(gastos'[g]) /\ AdmiteClave(gastos'[g])
  BY <1>1, ExpenseRows DEF ContractsInv
<1>3. TablesInv'
  BY <1>1, <1>2, ExpensesWritten DEF BorrarGasto, ContractsInv
<1>4. RequestsInv'
  BY SupuestosContratos DEF BorrarGasto, ContractsInv, RequestsInv, TramitesBien, EnTramite, Contado, AdmitePagado
<1> QED BY <1>3, <1>4 DEF ContractsInv

LEMMA VendorRows ==
  ASSUME TablesInv
  PROVE  /\ DOMAIN contratados \subseteq Contratos /\ contratados \in [DOMAIN contratados -> FilaContrato]
         /\ auditoria \in Libro /\ \A v \in Contratos : Historia(v)
  BY StoryOfEach DEF TablesInv, RowsInv, ContractsTypeOK, Libro

\* A vendor is written and the audit log says so; the expenses stay.
LEMMA VendorWritten ==
  ASSUME TablesInv, NEW a \in {"added", "updated", "removed"}, NEW v \in Contratos, Auditar(a, v),
         gastos' = gastos, DOMAIN contratados' \subseteq Contratos,
         contratados' \in [DOMAIN contratados' -> FilaContrato],
         \A w \in Contratos : w # v => (w \in DOMAIN contratados' <=> w \in DOMAIN contratados),
         a = "added" => ~Contado(v) /\ v \in DOMAIN contratados',
         a = "updated" => v \in DOMAIN contratados /\ v \in DOMAIN contratados',
         a = "removed" => Contado(v) /\ v \notin DOMAIN contratados' /\ ~tieneGastos(v)
  PROVE  TablesInv' /\ \A w \in Contratos : Contado(w) => Contado(w)'
<1>1. auditoria' = Append(auditoria, <<a, v>>)
  BY DEF Auditar
<1>2. PICK n \in Nat : /\ DOMAIN auditoria' = DOMAIN auditoria \cup {n}
                       /\ \A i \in DOMAIN auditoria : i \in Nat /\ i < n /\ auditoria'[i] = auditoria[i]
                       /\ auditoria'[n][1] = a /\ auditoria'[n][2] = v
  BY <1>1, Appended, VendorRows
<1>3. auditoria' \in Libro
  BY <1>1, Appended, VendorRows
<1>4. \A w \in Contratos : Contado(w) => Contado(w)'
  BY <1>2 DEF Contado
<1>5. \A w \in Contratos : Historia(w)'
  <2>1. Historia(v)'
    BY <1>1, OwnStory, VendorRows
  <2>2. ASSUME NEW w \in Contratos, w # v PROVE Historia(w)'
    BY <1>1, <2>2, OthersStory, VendorRows
  <2> QED BY <2>1, <2>2
<1>6. ASSUME NEW g \in DOMAIN gastos PROVE gastos'[g].origen \in DOMAIN contratados' \cup {Externo}
  <2>1. gastos[g].origen \in DOMAIN contratados \cup {Externo}
    BY ExpenseRows DEF AdmiteClave
  <2>2. a = "removed" => gastos[g].origen # v
    BY DEF tieneGastos
  <2>3. gastos[g].origen \in DOMAIN contratados => gastos[g].origen \in DOMAIN contratados'
    BY <2>2, VendorRows
  <2> QED BY <2>1, <2>3
<1>7. RowsInv'
  <2>1. ContractsTypeOK'
    BY <1>3, ExpenseRows DEF ContractsTypeOK, Libro
  <2>2. \A g \in DOMAIN gastos' : AdmitePagado(gastos'[g]) /\ gastos'[g].origen \in DOMAIN contratados' \cup {Externo}
    BY <1>6, ExpenseRows
  <2> QED BY <2>1, <2>2 DEF RowsInv, AdmiteClave, AdmitePagado
<1> QED BY <1>4, <1>5, <1>7, StoryOfEachNext DEF TablesInv

LEMMA crearContratoHolds ==
  ASSUME ContractsInv, NEW t \in Tramites, crearContrato(t)
  PROVE  ContractsInv' /\ gastos' = gastos
<1>1. PICK e \in Tramite : e = tramite[t]
  BY DEF ContractsInv, RequestsInv, TramitesBien
<1>2. e \in Contratando
  BY <1>1, TramiteOf DEF crearContrato
<1>3. PICK fila \in FilaContrato : fila = [kind |-> e.kind, status |-> "SHORTLISTED",
                                           assignedBudget |-> e.assignedBudget]
  BY <1>2 DEF Contratando, FilaContrato, EstadosContrato
<1>4. PICK v \in Contratos \ {auditoria[i][2] : i \in DOMAIN auditoria} :
        contratados' = Puesto(contratados, v, fila) /\ Auditar("added", v)
  BY <1>1, <1>3 DEF crearContrato
<1>5. ~Contado(v)
  BY <1>4 DEF Contado
<1>6. TablesInv
  BY DEF ContractsInv
<1>7. contratados \in [DOMAIN contratados -> FilaContrato] /\ DOMAIN contratados \subseteq Contratos
  BY <1>6, VendorRows
<1>8. DOMAIN contratados' = DOMAIN contratados \cup {v}
      /\ contratados' \in [DOMAIN contratados \cup {v} -> FilaContrato]
  BY <1>3, <1>4, <1>7 DEF Puesto
<1>9. Sale(t) /\ gastos' = gastos
  BY DEF crearContrato
<1>10. TablesInv' /\ \A w \in Contratos : Contado(w) => Contado(w)'
  BY <1>4, <1>5, <1>6, <1>7, <1>8, <1>9, VendorWritten
<1> QED BY <1>9, <1>10, RequestEnds DEF ContractsInv

LEMMA actualizarContratoHolds ==
  ASSUME ContractsInv, NEW t \in Tramites, actualizarContrato(t)
  PROVE  ContractsInv' /\ DOMAIN contratados' = DOMAIN contratados
<1>1. PICK e \in Tramite : e = tramite[t]
  BY DEF ContractsInv, RequestsInv, TramitesBien
<1>2. e \in Cambiando
  BY <1>1, TramiteOf DEF actualizarContrato
<1>3. PICK v, s, b : v = e.v /\ s = e.status /\ b = e.assignedBudget
  OBVIOUS
<1>4. /\ v \in Contratos /\ s \in EstadosContrato \cup {"undefined"}
      /\ b \in Montos \cup {0, SinMonto}
  BY <1>2, <1>3 DEF Cambiando
<1>5. TablesInv /\ RequestsInv
  BY DEF ContractsInv
<1>6. contratados \in [DOMAIN contratados -> FilaContrato] /\ DOMAIN contratados \subseteq Contratos
  BY <1>5, VendorRows
<1>7. Sale(t) /\ gastos' = gastos
  BY DEF actualizarContrato
<1>8. CASE v \in DOMAIN contratados
  <2>1. PICK fila : fila = cambiosContrato(contratados[v], e)
    OBVIOUS
  <2>2. fila \in FilaContrato
    <3>1. PICK antes \in FilaContrato : antes = contratados[v]
      BY <1>6, <1>8
    <3>2. PICK puesto, asignado : /\ puesto = IF s = "undefined" THEN antes.status ELSE s
                                  /\ asignado = IF b = SinMonto THEN antes.assignedBudget ELSE b
      OBVIOUS
    <3>3. puesto \in EstadosContrato /\ asignado \in Montos \cup {0}
      BY <1>4, <3>1, <3>2 DEF FilaContrato
    <3>4. fila = [antes EXCEPT !.status = puesto, !.assignedBudget = asignado]
      BY <1>3, <2>1, <3>1, <3>2 DEF cambiosContrato
    <3> QED BY <3>1, <3>3, <3>4 DEF FilaContrato
  <2>3. Auditar("updated", v)
    BY <1>1, <1>3, <1>8 DEF actualizarContrato
  <2>4. contratados' = [contratados EXCEPT ![v] = fila]
    BY <1>1, <1>3, <1>8, <2>1 DEF actualizarContrato
  <2>5. DOMAIN contratados' = DOMAIN contratados /\ contratados' \in [DOMAIN contratados -> FilaContrato]
    BY <1>6, <2>2, <2>4
  <2>6. TablesInv' /\ \A w \in Contratos : Contado(w) => Contado(w)'
    BY <1>4, <1>5, <1>6, <1>7, <1>8, <2>3, <2>5, VendorWritten
  <2> QED BY <1>5, <1>7, <2>5, <2>6, RequestEnds DEF ContractsInv
<1>9. CASE v \notin DOMAIN contratados
  <2>1. UNCHANGED <<contratados, gastos, auditoria>>
    BY <1>1, <1>3, <1>7, <1>9 DEF actualizarContrato
  <2> QED BY <1>5, <1>7, <2>1, TablesKept, RequestEnds DEF ContractsInv
<1> QED BY <1>8, <1>9

LEMMA eliminarHolds ==
  ASSUME ContractsInv, NEW t \in Tramites, eliminar(t)
  PROVE  ContractsInv' /\ gastos' = gastos
<1>1. PICK e \in Tramite : e = tramite[t] /\ EnTramite(e)
  BY DEF ContractsInv, RequestsInv, TramitesBien
<1>2. e \in Quitando /\ Contado(e.v)
  BY <1>1, TramiteOf DEF eliminar, EnTramite
<1>3. PICK v \in Contratos : v = e.v /\ Contado(v)
  BY <1>2 DEF Quitando
<1>4. TablesInv /\ RequestsInv /\ Sale(t)
  BY DEF ContractsInv, eliminar
<1>5. contratados \in [DOMAIN contratados -> FilaContrato] /\ DOMAIN contratados \subseteq Contratos
      /\ gastos \in [DOMAIN gastos -> FilaGasto]
  BY <1>4, VendorRows, ExpenseRows
<1>6. CASE tieneGastos(v)
  <2>1. UNCHANGED <<contratados, gastos, auditoria>>
    BY <1>1, <1>3, <1>6 DEF eliminar, Restringe
  <2> QED BY <1>4, <2>1, TablesKept, RequestEnds DEF ContractsInv
<1>7. CASE ~tieneGastos(v)
  <2>1. /\ contratados' = Quitado(contratados, v) /\ Auditar("removed", v)
        /\ gastos' = [g \in {h \in DOMAIN gastos : gastos[h].origen # v} |-> gastos[g]]
    BY <1>1, <1>3, <1>7 DEF eliminar, Restringe
  <2>2. gastos' = gastos
    BY <1>5, <1>7, <2>1 DEF tieneGastos
  <2>3. DOMAIN contratados' = DOMAIN contratados \ {v}
        /\ contratados' \in [DOMAIN contratados \ {v} -> FilaContrato]
    BY <1>5, <2>1 DEF Quitado
  <2>4. TablesInv' /\ \A w \in Contratos : Contado(w) => Contado(w)'
    BY <1>3, <1>4, <1>5, <1>7, <2>1, <2>2, <2>3, VendorWritten
  <2> QED BY <1>4, <2>2, <2>4, RequestEnds DEF ContractsInv
<1> QED BY <1>6, <1>7

LEMMA ContractsInitHolds == ContractsInit => ContractsInv
<1> SUFFICES ASSUME ContractsInit PROVE ContractsInv
  OBVIOUS
<1>1. PICK fila \in FilaContrato : fila = [kind |-> "linked", status |-> "SHORTLISTED", assignedBudget |-> 0]
  BY DEF FilaContrato, EstadosContrato
<1>2. contratados = [v \in {Primero} |-> fila]
  BY <1>1 DEF ContractsInit
<1>3. auditoria \in Libro /\ DOMAIN auditoria = {1} /\ auditoria[1][1] = "added" /\ auditoria[1][2] = Primero
  BY SupuestosContratos DEF ContractsInit, Libro
<1>4. DOMAIN gastos = {} /\ gastos \in [{} -> FilaGasto]
  BY DEF ContractsInit
<1>5. RowsInv
  BY <1>2, <1>3, <1>4, SupuestosContratos DEF RowsInv, ContractsTypeOK, Libro
<1>6. AuditTellsTheStory
  BY <1>2, <1>3 DEF AuditTellsTheStory
<1>7. RequestsInv
  <2>1. SinTramite \in Tramite /\ EnTramite(SinTramite)
    BY DEF Tramite, EnTramite, SinTramite
  <2> QED BY <2>1, SupuestosContratos DEF ContractsInit, RequestsInv, TramitesBien
<1> QED BY <1>5, <1>6, <1>7 DEF ContractsInv, TablesInv

LEMMA OthersHold ==
  ASSUME ContractsInv,
         CambiarPerfil \/ (\E t \in Tramites : CaeTramite(t)) \/ UNCHANGED contractsVars
  PROVE  ContractsInv' /\ UNCHANGED <<contratados, gastos>>
<1>1. UNCHANGED <<contratados, gastos, auditoria>>
  BY DEF CambiarPerfil, CaeTramite, deNegocio, contractsVars
<1>2. TablesInv' /\ \A v \in Contratos : Contado(v) => Contado(v)'
  BY <1>1, TablesKept DEF ContractsInv
<1>3. ASSUME NEW t \in Tramites, CaeTramite(t) PROVE RequestsInv'
  BY <1>2, <1>3, RequestEnds DEF CaeTramite, ContractsInv
<1>4. ASSUME CambiarPerfil \/ UNCHANGED contractsVars PROVE RequestsInv'
  BY <1>1, <1>4, SupuestosContratos
  DEF CambiarPerfil, contractsVars, ContractsInv, RequestsInv, TramitesBien, EnTramite, Contado, AdmitePagado
<1> QED BY <1>1, <1>2, <1>3, <1>4 DEF ContractsInv

\* Which steps touch the table of vendors.
LEMMA ContractsStep ==
  ASSUME ContractsInv, [ContractsNext]_contractsVars
  PROVE  ContractsInv' /\ (DOMAIN contratados' = DOMAIN contratados \/ gastos' = gastos)
<1> DEFINE Goal == ContractsInv' /\ (DOMAIN contratados' = DOMAIN contratados \/ gastos' = gastos)
<1>1. ASSUME NEW t \in Tramites, NEW origen \in Contratos \cup {Externo},
             NEW status \in EstadosGasto, NEW monto \in Montos, CrearGasto(t, origen, status, monto)
      PROVE  Goal
  BY <1>1, CrearGastoHolds DEF CrearGasto, deNegocio
<1>2. ASSUME NEW t \in Tramites, NEW id \in Gastos, NEW origen \in Contratos \cup {Externo, "undefined"},
             NEW status \in EstadosGasto \cup {"undefined"}, NEW monto \in Montos \cup {SinMonto},
             ActualizarGasto(t, id, origen, status, monto)
      PROVE  Goal
  BY <1>2, ActualizarGastoHolds DEF ActualizarGasto, deNegocio
<1>3. ASSUME NEW t \in Tramites, NEW enlazado \in BOOLEAN, NEW nombre \in BOOLEAN,
             NEW contacto \in BOOLEAN, NEW b \in Montos \cup {0},
             AgregarProveedor(t, parseVendorRef(enlazado, nombre, contacto), b)
      PROVE  Goal
  <2>1. PICK kind \in {"linked", "external", "VENDOR_REF_AMBIGUA", "VENDOR_REF_VACIA"} :
          kind = parseVendorRef(enlazado, nombre, contacto)
    BY DEF parseVendorRef
  <2>2. AgregarProveedor(t, kind, b)
    BY <1>3, <2>1
  <2> QED BY <2>2, VendorReadsHold DEF AgregarProveedor, deNegocio
<1>4. ASSUME NEW t \in Tramites, NEW v \in Contratos,
             NEW status \in EstadosContrato \cup {"undefined"}, NEW b \in Montos \cup {0, SinMonto},
             ActualizarProveedor(t, v, status, b)
      PROVE  Goal
  BY <1>4, VendorReadsHold DEF ActualizarProveedor, deNegocio
<1>5. ASSUME NEW t \in Tramites, NEW v \in Contratos, QuitarProveedor(t, v) PROVE Goal
  BY <1>5, VendorReadsHold DEF QuitarProveedor, deNegocio
<1>6. ASSUME NEW t \in Tramites, crearGasto(t) PROVE Goal
  BY <1>6, crearGastoHolds DEF crearGasto
<1>7. ASSUME NEW t \in Tramites, ComprobarProveedor(t) \/ ComprobarGastos(t) PROVE Goal
  BY <1>7, ChecksHold DEF ComprobarProveedor, ComprobarGastos, deNegocio
<1>8. ASSUME NEW t \in Tramites, actualizarGasto(t) PROVE Goal
  BY <1>8, actualizarGastoHolds DEF actualizarGasto
<1>9. ASSUME NEW t \in Tramites, crearContrato(t) \/ actualizarContrato(t) \/ eliminar(t) PROVE Goal
  BY <1>9, crearContratoHolds, actualizarContratoHolds, eliminarHolds
<1>10. ASSUME NEW id \in Gastos, BorrarGasto(id) PROVE Goal
  BY <1>10, BorrarGastoHolds DEF BorrarGasto
<1>11. CASE CambiarPerfil \/ (\E t \in Tramites : CaeTramite(t)) \/ UNCHANGED contractsVars
  BY <1>11, OthersHold
<1> QED BY <1>1, <1>2, <1>3, <1>4, <1>5, <1>6, <1>7, <1>8, <1>9, <1>10, <1>11 DEF ContractsNext

LEMMA ContractsReachable == ContractsSpec => []ContractsInv
<1>1. ContractsInv /\ [ContractsNext]_contractsVars => ContractsInv'
  BY ContractsStep
<1> QED BY <1>1, ContractsInitHolds, PTL DEF ContractsSpec

\* The tables keep their types.
THEOREM ContractsTyped == ContractsSpec => []ContractsTypeOK
<1>1. ContractsInv => ContractsTypeOK
  BY DEF ContractsInv, TablesInv, RowsInv
<1> QED BY <1>1, ContractsReachable, PTL

\* "expenses_pagado_con_fecha no puede romperse desde la API": whatever any
\* PATCH in flight is about to write, over the row as it is by now, the CHECK
\* accepts.
THEOREM ChecksNeverRejectPatch == ContractsSpec => []CheckNeverRejectsPatch
<1>1. ContractsInv => CheckNeverRejectsPatch
  <2> SUFFICES ASSUME ContractsInv, NEW t \in Tramites,
                      tramite[t].pc \in {"proveedor", "actualizarGasto"},
                      tramite[t].id \in DOMAIN gastos
               PROVE  AdmitePagado(cambiosGasto(gastos[tramite[t].id], tramite[t]))
    BY DEF CheckNeverRejectsPatch
  <2>1. PICK e \in Parcheando : e = tramite[t]
    BY TramiteOf DEF ContractsInv, RequestsInv, TramitesBien
  <2>2. PICK fila \in FilaGasto : fila = gastos[e.id] /\ AdmitePagado(fila)
    BY <2>1, ExpenseRows DEF ContractsInv
  <2>3. AdmitePagado(cambiosGasto(fila, e))
    BY <2>2, PatchedRow
  <2> QED BY <2>1, <2>2, <2>3
<1> QED BY <1>1, ContractsReachable, PTL

\* The audit log tells the story of each vendor of the event, for any number of
\* requests that hire, change and remove it at once.
THEOREM AuditsTellTheStory == ContractsSpec => []AuditTellsTheStory
<1>1. ContractsInv => AuditTellsTheStory
  BY DEF ContractsInv, TablesInv
<1> QED BY <1>1, ContractsReachable, PTL

\* What the summary says is left does not change while no expense does.
LEMMA SameRemaining ==
  ASSUME gastos' = gastos
  PROVE  calcularResumen(0, sumas)'.remaining = calcularResumen(0, sumas).remaining
<1>1. PICK G : G = gastos
  OBVIOUS
<1>2. G = gastos'
  BY <1>1
<1> DEFINE pagado == Suma([g \in DOMAIN G |-> G[g].amount], {g \in DOMAIN G : G[g].status = "PAID"})
           pendiente == Suma([g \in DOMAIN G |-> G[g].amount], {g \in DOMAIN G : G[g].status = "PENDING"})
<1>3. sumas.paid = pagado /\ sumas.pending = pendiente
  BY <1>1 DEF sumas
<1>4. sumas'.paid = pagado /\ sumas'.pending = pendiente
  BY <1>2 DEF sumas
<1> HIDE DEF pagado, pendiente
<1> QED BY <1>3, <1>4 DEF calcularResumen

\* What the tables say of the budget never forgets money: a vendor leaves with its
\* assigned budget and nothing else, and every expense names a vendor that is
\* still there.
THEOREM VendorsLeaveNoHole == ContractsSpec => VendorLeavesNoHole
<1>1. ContractsInv /\ [ContractsNext]_contractsVars =>
      [LET antes == calcularResumen(0, sumas)
           despues == calcularResumen(0, sumas)'
       IN DOMAIN contratados' # DOMAIN contratados =>
            /\ despues.remaining = antes.remaining /\ gastos' = gastos
            /\ \A g \in DOMAIN gastos' : gastos'[g].origen \in DOMAIN contratados' \cup {Externo}
      ]_contractsVars
  <2> SUFFICES ASSUME ContractsInv, [ContractsNext]_contractsVars,
                      DOMAIN contratados' # DOMAIN contratados
               PROVE  /\ calcularResumen(0, sumas)'.remaining = calcularResumen(0, sumas).remaining
                      /\ gastos' = gastos
                      /\ \A g \in DOMAIN gastos' : gastos'[g].origen \in DOMAIN contratados' \cup {Externo}
    OBVIOUS
  <2>1. ContractsInv' /\ gastos' = gastos
    BY ContractsStep
  <2>2. \A g \in DOMAIN gastos' : gastos'[g].origen \in DOMAIN contratados' \cup {Externo}
    BY <2>1 DEF ContractsInv, TablesInv, RowsInv, AdmiteClave
  <2> QED BY <2>1, <2>2, SameRemaining
<1> QED BY <1>1, ContractsReachable, PTL DEF ContractsSpec, VendorLeavesNoHole

-----------------------------------------------------------------------------
(* Showcase: the inductive invariant *)

Foto == [storageKey: Fotos, position: Nat]

\* The requests in flight and what each has read.
Fotografiando == [pc: {"bloquearFicha", "agregarFoto", "borrar"}, key: Fotos, id: Nat]
Borrando == [pc: {"borrar"}, key: Avatares \cup Fotos]
Fijando == [pc: {"fijarAvatar"}, key: Avatares \cup {SinClave}]
QuitandoFoto == [pc: {"borrarFoto"}, id: Nat, key: Fotos]
Reemplazando == [pc: {"reemplazarPaquetes"}, vistos: SUBSET Nat, lista: Nat]
Modificando == [pc: {"fijarEstado"}, estado: {"DRAFT", "PUBLISHED"}]
Pedido == {SinPedido} \cup Fotografiando \cup Borrando \cup Fijando \cup QuitandoFoto
            \cup Reemplazando \cup Modificando

PedidosBien == pedido \in [Pedidos -> Pedido] /\ porPedir \in Nat

\* The photos: a finite portfolio within its limit, no two in one place and
\* none beyond some last place.
FotosBien ==
  /\ DOMAIN portfolio \subseteq Nat /\ portfolio \in [DOMAIN portfolio -> Foto]
  /\ IsFiniteSet(DOMAIN portfolio) /\ Cardinality(DOMAIN portfolio) <= MAX_FOTOS_PORTFOLIO
  /\ \A i, j \in DOMAIN portfolio : portfolio[i].position = portfolio[j].position => i = j
  /\ \E tope \in Nat : \A i \in DOMAIN portfolio : portfolio[i].position <= tope

\* Who is about to add a photo has the lock and room for it.
HayLugar ==
  \A p \in Pedidos : pedido[p].pc = "agregarFoto" =>
    candado = p /\ Cardinality(DOMAIN portfolio) < MAX_FOTOS_PORTFOLIO

\* Each list of packages has an owner of its own, who will delete it if it is
\* still replacing.
DeQuien(f) ==
  /\ f \in [paquetes -> Pedidos]
  /\ \A l, m \in paquetes : f[l] = f[m] => l = m
  /\ \A p \in Pedidos, l \in paquetes :
       pedido[p].pc = "reemplazarPaquetes" /\ f[l] = p => l \in pedido[p].vistos
ListasBien == paquetes \subseteq Nat /\ \E f : DeQuien(f)

RestoBien ==
  /\ bucket \subseteq firmadas /\ firmadas \subseteq Avatares \cup Fotos
  /\ avatarKey \in Avatares \cup {SinClave}
  /\ ficha \in {"DRAFT", "PUBLISHED", "SUSPENDED"} /\ candado \in Pedidos \cup {SinCandado}

ShowcaseInv == PedidosBien /\ FotosBien /\ HayLugar /\ ListasBien
ImagesInv == ShowcaseInv /\ RestoBien

LEMMA PedidoOf ==
  ASSUME NEW e \in Pedido
  PROVE  /\ e.pc \in {"bloquearFicha", "agregarFoto"} => e \in Fotografiando
         /\ e.pc = "fijarAvatar" => e \in Fijando
         /\ e.pc = "borrarFoto" => e \in QuitandoFoto
         /\ e.pc = "reemplazarPaquetes" => e \in Reemplazando
         /\ e.pc = "fijarEstado" => e \in Modificando
  BY DEF Pedido, SinPedido, Fotografiando, Borrando, Fijando, QuitandoFoto, Reemplazando, Modificando

LEMMA FreeRequest == SinPedido \in Pedido /\ SinPedido.pc = "libre"
  BY DEF Pedido, SinPedido

LEMMA RequestMoved ==
  ASSUME PedidosBien, NEW p \in Pedidos, NEW e \in Pedido, pedido' = [pedido EXCEPT ![p] = e],
         porPedir' \in Nat
  PROVE  /\ PedidosBien' /\ pedido'[p] = e
         /\ \A q \in Pedidos : q # p => pedido'[q] = pedido[q]
  BY DEF PedidosBien

\* A step that adds no photo, takes no list and gives at most its own lock back.
LEMMA QuietShowcaseStep ==
  ASSUME ShowcaseInv, NEW p \in Pedidos, NEW e \in Pedido, pedido' = [pedido EXCEPT ![p] = e],
         porPedir' \in Nat, e.pc # "agregarFoto",
         e.pc = "reemplazarPaquetes" => e.vistos = paquetes,
         portfolio' = portfolio, paquetes' = paquetes,
         candado' = candado \/ Libera(p)
  PROVE  ShowcaseInv'
<1>1. /\ PedidosBien' /\ pedido'[p] = e
      /\ \A q \in Pedidos : q # p => pedido'[q] = pedido[q]
  BY RequestMoved DEF ShowcaseInv
<1>2. FotosBien'
  BY DEF ShowcaseInv, FotosBien
<1>3. HayLugar'
  <2> SUFFICES ASSUME NEW q \in Pedidos, pedido'[q].pc = "agregarFoto"
               PROVE  candado' = q /\ Cardinality(DOMAIN portfolio) < MAX_FOTOS_PORTFOLIO
    BY DEF HayLugar
  <2>1. q # p /\ pedido[q].pc = "agregarFoto"
    BY <1>1
  <2>2. candado = q /\ Cardinality(DOMAIN portfolio) < MAX_FOTOS_PORTFOLIO
    BY <2>1 DEF ShowcaseInv, HayLugar
  <2> QED BY <2>1, <2>2 DEF Libera
<1>4. ListasBien'
  <2>1. PICK f : DeQuien(f)
    BY DEF ShowcaseInv, ListasBien
  <2>2. DeQuien(f)'
    BY <1>1, <2>1 DEF DeQuien
  <2> QED BY <2>2 DEF ListasBien, ShowcaseInv
<1> QED BY <1>1, <1>2, <1>3, <1>4 DEF ShowcaseInv

LEMMA UntouchedShowcase ==
  ASSUME ShowcaseInv, UNCHANGED <<pedido, portfolio, paquetes, candado>>, porPedir' \in Nat
  PROVE  ShowcaseInv'
  BY DEF ShowcaseInv, PedidosBien, FotosBien, HayLugar, ListasBien, DeQuien

-----------------------------------------------------------------------------
(* Showcase: the photos *)

\* The order of the numbers, as a relation.
MenorQue == {s \in Nat \X Nat : s[1] < s[2]}

LEMMA LeastOf ==
  ASSUME NEW T, T \subseteq Nat, T # {}
  PROVE  \E x \in T : \A y \in T : x <= y
<1>1. IsWellFoundedOn(MenorQue, Nat)
  BY NatLessThanWellFounded, Zenon DEF OpToRel, MenorQue
<1>2. PICK x \in T : \A y \in T : ~ (<<y, x>> \in MenorQue)
  BY <1>1, WFMin, Zenon
<1>3. ASSUME NEW y \in T PROVE x <= y
  <2>1. x \in Nat /\ y \in Nat
    OBVIOUS
  <2>2. y < x => <<y, x>> \in MenorQue
    BY <2>1 DEF MenorQue
  <2> QED BY <1>2, <2>1, <2>2
<1> QED BY <1>3

\* The place after the last photo.
LEMMA LastPlace ==
  ASSUME FotosBien
  PROVE  LET m == Max({portfolio[i].position : i \in DOMAIN portfolio} \cup {-1})
         IN m + 1 \in Nat /\ \A i \in DOMAIN portfolio : portfolio[i].position < m + 1
<1> DEFINE C == {portfolio[i].position : i \in DOMAIN portfolio} \cup {-1}
           Topes == {c \in Nat : \A i \in DOMAIN portfolio : portfolio[i].position <= c}
<1>1. /\ \A i \in DOMAIN portfolio : portfolio[i].position \in Nat
      /\ \E tope \in Nat : \A i \in DOMAIN portfolio : portfolio[i].position <= tope
  BY DEF FotosBien, Foto
<1>2. \E x \in C : \A y \in C : x >= y
  <2>1. CASE DOMAIN portfolio = {}
    BY <2>1
  <2>2. CASE DOMAIN portfolio # {}
    <3>1. PICK c \in Topes : \A d \in Topes : c <= d
      BY <1>1, LeastOf
    <3>2. c \in C
      <4> SUFFICES ASSUME c \notin C PROVE FALSE
        OBVIOUS
      <4>1. \A i \in DOMAIN portfolio : portfolio[i].position < c
        BY <1>1, <3>1
      <4>2. c - 1 \in Topes
        BY <1>1, <2>2, <3>1, <4>1
      <4> QED BY <3>1, <4>2
    <3>3. \A y \in C : c >= y
      BY <1>1, <3>1
    <3> QED BY <3>2, <3>3
  <2> QED BY <2>1, <2>2
<1>3. Max(C) \in C /\ \A y \in C : Max(C) >= y
  BY <1>2 DEF Max
<1>4. PICK m : m = Max(C) /\ m \in C /\ \A y \in C : m >= y
  BY <1>3
<1>5. m \in Int /\ m + 1 \in Nat
  BY <1>1, <1>4
<1>6. \A i \in DOMAIN portfolio : portfolio[i].position < m + 1
  <2> SUFFICES ASSUME NEW i \in DOMAIN portfolio PROVE portfolio[i].position < m + 1
    OBVIOUS
  <2>1. portfolio[i].position \in Nat /\ m >= portfolio[i].position
    BY <1>1, <1>4
  <2> QED BY <1>5, <2>1
<1> QED BY <1>4, <1>5, <1>6

LEMMA SmallerPortfolio ==
  ASSUME FotosBien, NEW i, portfolio' = [j \in DOMAIN portfolio \ {i} |-> portfolio[j]]
  PROVE  FotosBien' /\ Cardinality(DOMAIN portfolio') <= Cardinality(DOMAIN portfolio)
<1>1. DOMAIN portfolio' = DOMAIN portfolio \ {i}
      /\ \A j \in DOMAIN portfolio' : portfolio'[j] = portfolio[j]
  OBVIOUS
<1>2. portfolio' \in [DOMAIN portfolio' -> Foto]
  BY <1>1 DEF FotosBien
<1>3. /\ IsFiniteSet(DOMAIN portfolio) /\ DOMAIN portfolio' \in SUBSET (DOMAIN portfolio)
      /\ Cardinality(DOMAIN portfolio) <= MAX_FOTOS_PORTFOLIO
  BY <1>1 DEF FotosBien
<1>4. /\ IsFiniteSet(DOMAIN portfolio') /\ Cardinality(DOMAIN portfolio') <= Cardinality(DOMAIN portfolio)
      /\ Cardinality(DOMAIN portfolio') \in Nat /\ Cardinality(DOMAIN portfolio) \in Nat
  BY <1>3, FS_Subset, FS_CardinalityType
<1>5. Cardinality(DOMAIN portfolio') <= MAX_FOTOS_PORTFOLIO
  BY <1>3, <1>4, SupuestosImagenes
<1> QED BY <1>1, <1>2, <1>4, <1>5 DEF FotosBien

LEMMA LargerPortfolio ==
  ASSUME FotosBien, Cardinality(DOMAIN portfolio) < MAX_FOTOS_PORTFOLIO,
         NEW id \in Nat, NEW k \in Fotos, NEW m, m + 1 \in Nat,
         \A i \in DOMAIN portfolio : portfolio[i].position < m + 1,
         portfolio' = [i \in DOMAIN portfolio \cup {id} |->
                         IF i = id THEN [storageKey |-> k, position |-> m + 1] ELSE portfolio[i]]
  PROVE  FotosBien'
<1>1. PICK D, M : D = DOMAIN portfolio /\ M = m + 1
  OBVIOUS
<1>2. PICK foto : foto = [storageKey |-> k, position |-> M]
  OBVIOUS
<1>3. foto \in Foto /\ foto.position = M /\ M \in Nat
  BY <1>1, <1>2 DEF Foto
<1>4. /\ DOMAIN portfolio' = D \cup {id} /\ portfolio'[id] = foto
      /\ \A i \in D : i # id => portfolio'[i] = portfolio[i]
  BY <1>1, <1>2
<1>5. \A i \in D : portfolio[i] \in Foto /\ portfolio[i].position \in Nat /\ portfolio[i].position < M
  BY <1>1 DEF FotosBien, Foto
<1>6. portfolio' \in [DOMAIN portfolio' -> Foto] /\ DOMAIN portfolio' \subseteq Nat
  <2>1. \A i \in DOMAIN portfolio' : portfolio'[i] \in Foto
    BY <1>3, <1>4, <1>5
  <2>2. portfolio' = [i \in DOMAIN portfolio' |-> portfolio'[i]]
    OBVIOUS
  <2> QED BY <1>1, <1>4, <2>1, <2>2 DEF FotosBien
<1>7. /\ IsFiniteSet(DOMAIN portfolio') /\ Cardinality(DOMAIN portfolio') <= MAX_FOTOS_PORTFOLIO
  <2>1. IsFiniteSet(D) /\ Cardinality(D) \in Nat /\ Cardinality(D) < MAX_FOTOS_PORTFOLIO
    BY <1>1, FS_CardinalityType DEF FotosBien
  <2>2. /\ IsFiniteSet(D \cup {id})
        /\ Cardinality(D \cup {id}) = IF id \in D THEN Cardinality(D) ELSE Cardinality(D) + 1
    BY <2>1, FS_AddElement
  <2>3. Cardinality(D \cup {id}) <= MAX_FOTOS_PORTFOLIO
    BY <2>1, <2>2, SupuestosImagenes
  <2> QED BY <1>4, <2>2, <2>3
<1>8. \A i, j \in DOMAIN portfolio' : portfolio'[i].position = portfolio'[j].position => i = j
  <2>1. \A i, j \in D : portfolio[i].position = portfolio[j].position => i = j
    BY <1>1 DEF FotosBien
  <2>2. \A i \in DOMAIN portfolio' : i = id \/ (i \in D /\ portfolio'[i].position < M)
    BY <1>4, <1>5
  <2> QED BY <1>3, <1>4, <2>1, <2>2
<1>9. \E tope \in Nat : \A i \in DOMAIN portfolio' : portfolio'[i].position <= tope
  <2>1. \A i \in DOMAIN portfolio' : portfolio'[i].position <= M
    BY <1>3, <1>4, <1>5
  <2> QED BY <1>3, <2>1
<1> QED BY <1>6, <1>7, <1>8, <1>9 DEF FotosBien

LEMMA ReorderedPortfolio ==
  ASSUME FotosBien, NEW orden \in OrdenesFoto,
         portfolio' = [i \in DOMAIN portfolio |-> [portfolio[i] EXCEPT !.position = orden[i]]]
  PROVE  FotosBien' /\ DOMAIN portfolio' = DOMAIN portfolio
<1>1. PICK D, n : D = DOMAIN portfolio /\ n = Cardinality(D)
  OBVIOUS
<1>2. n \in Nat
  BY <1>1, FS_CardinalityType DEF FotosBien
<1>3. /\ \A i \in D : orden[i] \in Nat /\ orden[i] <= n
      /\ \A i, j \in D : orden[i] = orden[j] => i = j
  BY <1>1, <1>2 DEF OrdenesFoto
<1>4. ASSUME NEW i \in D PROVE portfolio'[i] \in Foto /\ portfolio'[i].position = orden[i]
  <2>1. portfolio[i] \in Foto /\ portfolio'[i] = [portfolio[i] EXCEPT !.position = orden[i]]
    BY <1>1 DEF FotosBien
  <2> QED BY <1>3, <2>1 DEF Foto
<1>5. DOMAIN portfolio' = D /\ portfolio' = [i \in D |-> portfolio'[i]]
  BY <1>1
<1>6. portfolio' \in [D -> Foto]
  BY <1>4, <1>5
<1>7. \A i, j \in D : portfolio'[i].position = portfolio'[j].position => i = j
  BY <1>3, <1>4
<1>8. \A i \in D : portfolio'[i].position <= n
  BY <1>3, <1>4
<1> QED BY <1>1, <1>2, <1>5, <1>6, <1>7, <1>8 DEF FotosBien

LEMMA HolderIsAlone ==
  ASSUME ShowcaseInv, NEW p \in Pedidos, pedido[p].pc = "agregarFoto"
  PROVE  /\ candado = p /\ Cardinality(DOMAIN portfolio) < MAX_FOTOS_PORTFOLIO
         /\ \A q \in Pedidos : q # p => pedido[q].pc # "agregarFoto"
  BY DEF ShowcaseInv, HayLugar

LEMMA FreeLock ==
  ASSUME ShowcaseInv, candado = SinCandado
  PROVE  \A q \in Pedidos : pedido[q].pc # "agregarFoto"
  BY SupuestosImagenes DEF ShowcaseInv, HayLugar

\* Steps that leave the lists of packages alone.
LEMMA ListsKept ==
  ASSUME ShowcaseInv, NEW p \in Pedidos, NEW e \in Pedido, pedido' = [pedido EXCEPT ![p] = e],
         e.pc # "reemplazarPaquetes", paquetes' = paquetes
  PROVE  ListasBien'
<1>1. pedido'[p] = e /\ \A q \in Pedidos : q # p => pedido'[q] = pedido[q]
  BY DEF ShowcaseInv, PedidosBien
<1>2. PICK f : DeQuien(f)
  BY DEF ShowcaseInv, ListasBien
<1>3. DeQuien(f)'
  BY <1>1, <1>2 DEF DeQuien
<1> QED BY <1>3 DEF ShowcaseInv, ListasBien

LEMMA bloquearFichaHolds ==
  ASSUME ShowcaseInv, NEW p \in Pedidos, bloquearFicha(p)
  PROVE  ShowcaseInv'
<1>1. PICK t \in Pedido : t = pedido[p]
  BY DEF ShowcaseInv, PedidosBien
<1>2. t \in Fotografiando
  BY <1>1, PedidoOf DEF bloquearFicha
<1>3. PICK lleno \in BOOLEAN :
        /\ lleno = (Cardinality(DOMAIN portfolio) >= MAX_FOTOS_PORTFOLIO)
        /\ ~lleno => Cardinality(DOMAIN portfolio) < MAX_FOTOS_PORTFOLIO
  <2>1. Cardinality(DOMAIN portfolio) \in Nat /\ MAX_FOTOS_PORTFOLIO \in Nat
    BY FS_CardinalityType, SupuestosImagenes DEF ShowcaseInv, FotosBien
  <2>2. CASE Cardinality(DOMAIN portfolio) >= MAX_FOTOS_PORTFOLIO
    BY <2>2
  <2>3. CASE ~(Cardinality(DOMAIN portfolio) >= MAX_FOTOS_PORTFOLIO)
    <3>1. Cardinality(DOMAIN portfolio) < MAX_FOTOS_PORTFOLIO
      BY <2>1, <2>3
    <3>2. (Cardinality(DOMAIN portfolio) >= MAX_FOTOS_PORTFOLIO) = FALSE
      BY <2>3
    <3> QED BY <3>1, <3>2, Zenon
  <2> QED BY <2>2, <2>3
<1>4. PICK e : e = [t EXCEPT !.pc = IF lleno THEN "borrar" ELSE "agregarFoto"]
  OBVIOUS
<1>5. e \in Pedido /\ e.pc = IF lleno THEN "borrar" ELSE "agregarFoto"
  BY <1>2, <1>4 DEF Fotografiando, Pedido
<1>6. /\ candado = SinCandado /\ candado' = IF lleno THEN candado ELSE p
      /\ pedido' = [pedido EXCEPT ![p] = e] /\ porPedir' = porPedir
      /\ portfolio' = portfolio /\ paquetes' = paquetes
  BY <1>1, <1>3, <1>4 DEF bloquearFicha, Prosigue, FichaLibre, deVitrina
<1>7. porPedir' \in Nat
  BY <1>6 DEF ShowcaseInv, PedidosBien
<1>8. CASE lleno
  BY <1>5, <1>6, <1>7, <1>8, QuietShowcaseStep
<1>9. CASE ~lleno
  <2>1. /\ PedidosBien' /\ pedido'[p] = e
        /\ \A q \in Pedidos : q # p => pedido'[q] = pedido[q]
    BY <1>5, <1>6, <1>7, RequestMoved DEF ShowcaseInv
  <2>2. FotosBien'
    BY <1>6 DEF ShowcaseInv, FotosBien
  <2>3. Cardinality(DOMAIN portfolio) < MAX_FOTOS_PORTFOLIO
    BY <1>3, <1>9
  <2>4. HayLugar'
    BY <1>6, <1>9, <2>1, <2>3, FreeLock DEF HayLugar
  <2>5. ListasBien'
    BY <1>5, <1>6, ListsKept
  <2> QED BY <2>1, <2>2, <2>4, <2>5 DEF ShowcaseInv
<1> QED BY <1>8, <1>9

LEMMA agregarFotoHolds ==
  ASSUME ShowcaseInv, NEW p \in Pedidos, agregarFoto(p)
  PROVE  ShowcaseInv'
<1>1. PICK t \in Fotografiando : t = pedido[p]
  BY PedidoOf DEF ShowcaseInv, PedidosBien, agregarFoto
<1>2. PICK k \in Fotos, id \in Nat : k = t.key /\ id = t.id
  BY <1>1 DEF Fotografiando
<1>3. /\ candado = p /\ Cardinality(DOMAIN portfolio) < MAX_FOTOS_PORTFOLIO
      /\ \A q \in Pedidos : q # p => pedido[q].pc # "agregarFoto"
  BY HolderIsAlone DEF agregarFoto
<1>4. /\ pedido' = [pedido EXCEPT ![p] = SinPedido] /\ porPedir' \in Nat /\ paquetes' = paquetes
  BY DEF agregarFoto, Prosigue, ShowcaseInv, PedidosBien
<1>5. FotosBien'
  <2>1. CASE portfolio' = portfolio
    BY <2>1 DEF ShowcaseInv, FotosBien
  <2>2. CASE portfolio' # portfolio
    <3>1. PICK m : m = Max({portfolio[i].position : i \in DOMAIN portfolio} \cup {-1})
      OBVIOUS
    <3>2. m + 1 \in Nat /\ \A i \in DOMAIN portfolio : portfolio[i].position < m + 1
      BY <3>1, LastPlace DEF ShowcaseInv
    <3>3. portfolio' = [i \in DOMAIN portfolio \cup {id} |->
                          IF i = id THEN [storageKey |-> k, position |-> m + 1] ELSE portfolio[i]]
      BY <1>1, <1>2, <2>2, <3>1 DEF agregarFoto
    <3> QED BY <1>3, <3>2, <3>3, LargerPortfolio DEF ShowcaseInv
  <2> QED BY <2>1, <2>2
<1>6. /\ PedidosBien' /\ pedido'[p] = SinPedido
      /\ \A q \in Pedidos : q # p => pedido'[q] = pedido[q]
  BY <1>4, FreeRequest, RequestMoved DEF ShowcaseInv
<1>7. HayLugar'
  BY <1>3, <1>6, FreeRequest DEF HayLugar
<1>8. ListasBien'
  BY <1>4, FreeRequest, ListsKept
<1> QED BY <1>5, <1>6, <1>7, <1>8 DEF ShowcaseInv

LEMMA borrarFotoHolds ==
  ASSUME ShowcaseInv, NEW p \in Pedidos, borrarFoto(p)
  PROVE  ShowcaseInv'
<1>1. PICK t \in QuitandoFoto : t = pedido[p]
  BY PedidoOf DEF ShowcaseInv, PedidosBien, borrarFoto
<1>2. PICK e : e = IF t.id \in DOMAIN portfolio THEN [pc |-> "borrar", key |-> t.key] ELSE SinPedido
  OBVIOUS
<1>3. e \in Pedido /\ e.pc \in {"borrar", "libre"}
  BY <1>1, <1>2 DEF QuitandoFoto, Pedido, Borrando, SinPedido
<1>4. /\ pedido' = [pedido EXCEPT ![p] = e] /\ porPedir' \in Nat
      /\ paquetes' = paquetes /\ candado' = candado
      /\ portfolio' = [j \in DOMAIN portfolio \ {t.id} |-> portfolio[j]]
  BY <1>1, <1>2 DEF borrarFoto, Prosigue, ShowcaseInv, PedidosBien
<1>5. FotosBien' /\ Cardinality(DOMAIN portfolio') <= Cardinality(DOMAIN portfolio)
  BY <1>4, SmallerPortfolio DEF ShowcaseInv
<1>6. Cardinality(DOMAIN portfolio') \in Nat /\ Cardinality(DOMAIN portfolio) \in Nat
  BY <1>5, FS_CardinalityType DEF FotosBien, ShowcaseInv
<1>7. /\ PedidosBien' /\ pedido'[p] = e
      /\ \A q \in Pedidos : q # p => pedido'[q] = pedido[q]
  BY <1>3, <1>4, RequestMoved DEF ShowcaseInv
<1>8. HayLugar'
  <2> SUFFICES ASSUME NEW q \in Pedidos, pedido'[q].pc = "agregarFoto"
               PROVE  candado' = q /\ Cardinality(DOMAIN portfolio') < MAX_FOTOS_PORTFOLIO
    BY DEF HayLugar
  <2>1. candado = q /\ Cardinality(DOMAIN portfolio) < MAX_FOTOS_PORTFOLIO
    BY <1>3, <1>7 DEF ShowcaseInv, HayLugar
  <2> QED BY <1>4, <1>5, <1>6, <2>1, SupuestosImagenes
<1>9. ListasBien'
  BY <1>3, <1>4, ListsKept
<1> QED BY <1>5, <1>7, <1>8, <1>9 DEF ShowcaseInv

LEMMA reordenarFotosHolds ==
  ASSUME ShowcaseInv, NEW orden \in OrdenesFoto, reordenarFotos(orden)
  PROVE  ShowcaseInv'
<1>1. /\ pedido' = pedido /\ candado' = candado /\ paquetes' = paquetes /\ porPedir' \in Nat
  BY DEF reordenarFotos, ShowcaseInv, PedidosBien
<1>2. portfolio' = [i \in DOMAIN portfolio |-> [portfolio[i] EXCEPT !.position = orden[i]]]
  BY DEF reordenarFotos
<1>3. FotosBien' /\ DOMAIN portfolio' = DOMAIN portfolio
  BY <1>2, ReorderedPortfolio DEF ShowcaseInv
<1> QED BY <1>1, <1>3 DEF ShowcaseInv, PedidosBien, HayLugar, ListasBien, DeQuien

LEMMA reemplazarPaquetesHolds ==
  ASSUME ShowcaseInv, NEW p \in Pedidos, reemplazarPaquetes(p)
  PROVE  ShowcaseInv'
<1>1. PICK t \in Reemplazando : t = pedido[p] /\ t.pc = "reemplazarPaquetes"
  BY PedidoOf DEF ShowcaseInv, PedidosBien, reemplazarPaquetes
<1>2. PICK V \in SUBSET Nat, l \in Nat : V = t.vistos /\ l = t.lista
  BY <1>1 DEF Reemplazando
<1>3. /\ pedido' = [pedido EXCEPT ![p] = SinPedido] /\ porPedir' \in Nat
      /\ paquetes' = (paquetes \ V) \cup {l} /\ candado' = candado /\ portfolio' = portfolio
  BY <1>1, <1>2 DEF reemplazarPaquetes, Prosigue, ShowcaseInv, PedidosBien
<1>4. /\ PedidosBien' /\ pedido'[p] = SinPedido
      /\ \A q \in Pedidos : q # p => pedido'[q] = pedido[q]
  BY <1>3, FreeRequest, RequestMoved DEF ShowcaseInv
<1>5. FotosBien' /\ HayLugar'
  BY <1>3, <1>4, FreeRequest DEF ShowcaseInv, FotosBien, HayLugar
<1>6. PICK f : DeQuien(f)
  BY DEF ShowcaseInv, ListasBien
<1>7. paquetes \subseteq Nat
  BY DEF ShowcaseInv, ListasBien
<1> DEFINE h == [m \in paquetes' |-> IF m = l THEN p ELSE f[m]]
<1>8. \A m \in paquetes' : m # l => m \in paquetes /\ f[m] # p
  BY <1>1, <1>2, <1>3, <1>6 DEF DeQuien
<1>9. h \in [paquetes' -> Pedidos] /\ \A m, n \in paquetes' : h[m] = h[n] => m = n
  BY <1>6, <1>8 DEF DeQuien
<1>10. ASSUME NEW q \in Pedidos, NEW m \in paquetes', pedido'[q].pc = "reemplazarPaquetes", h[m] = q
       PROVE  m \in pedido'[q].vistos
  <2>1. q # p /\ pedido'[q] = pedido[q]
    BY <1>4, <1>10, FreeRequest
  <2>2. m # l /\ m \in paquetes /\ f[m] = q
    BY <1>8, <1>10, <2>1
  <2> QED BY <1>6, <1>10, <2>1, <2>2 DEF DeQuien
<1>11. paquetes' \subseteq Nat
  BY <1>3, <1>7
<1>12. PICK g : g = h
  OBVIOUS
<1> HIDE DEF h
<1>13. DeQuien(g)'
  BY <1>9, <1>10, <1>12 DEF DeQuien
<1> QED BY <1>4, <1>5, <1>11, <1>13 DEF ShowcaseInv, ListasBien

-----------------------------------------------------------------------------
(* Showcase: every step *)

\* What a request becomes when it starts something or leaves.
LEMMA NextRequest ==
  /\ \A k \in Avatares \cup {SinClave} : [pc |-> "fijarAvatar", key |-> k] \in Pedido
  /\ \A k \in Avatares \cup Fotos : [pc |-> "borrar", key |-> k] \in Pedido
  /\ \A k \in Fotos, n \in Nat : [pc |-> "bloquearFicha", key |-> k, id |-> n] \in Pedido
  /\ \A k \in Fotos, n \in Nat : [pc |-> "borrarFoto", id |-> n, key |-> k] \in Pedido
  /\ \A V \in SUBSET Nat, n \in Nat : [pc |-> "reemplazarPaquetes", vistos |-> V, lista |-> n] \in Pedido
  /\ \A s \in {"DRAFT", "PUBLISHED"} : [pc |-> "fijarEstado", estado |-> s] \in Pedido
  BY DEF Pedido, Borrando, Fijando, Fotografiando, QuitandoFoto, Reemplazando, Modificando

\* A new request.
LEMMA AskedHolds ==
  ASSUME ShowcaseInv, NEW p \in Pedidos, NEW e \in Pedido, Pide(p, e),
         UNCHANGED <<deVitrina, candado>>, e.pc # "agregarFoto",
         e.pc = "reemplazarPaquetes" => e.vistos = paquetes
  PROVE  ShowcaseInv'
<1>1. pedido' = [pedido EXCEPT ![p] = e] /\ porPedir' \in Nat
  BY DEF Pide, ShowcaseInv, PedidosBien
<1> QED BY <1>1, QuietShowcaseStep DEF deVitrina

LEMMA SetAvatarHolds ==
  ASSUME ShowcaseInv, NEW p \in Pedidos, NEW k, SetAvatar(p, k)
  PROVE  ShowcaseInv'
<1>1. PICK e \in Pedido : e = [pc |-> "fijarAvatar", key |-> k]
  BY NextRequest DEF SetAvatar, confirmar
<1>2. Pide(p, e) /\ UNCHANGED <<deVitrina, candado>> /\ e.pc = "fijarAvatar"
  BY <1>1 DEF SetAvatar
<1> QED BY <1>2, AskedHolds

LEMMA confirmarNoValidaHolds ==
  ASSUME ShowcaseInv, NEW p \in Pedidos, NEW k \in Avatares \cup Fotos, confirmarNoValida(p, k)
  PROVE  ShowcaseInv'
<1>1. PICK e \in Pedido : e = [pc |-> "borrar", key |-> k]
  BY NextRequest
<1>2. Pide(p, e) /\ UNCHANGED <<deVitrina, candado>> /\ e.pc = "borrar"
  BY <1>1 DEF confirmarNoValida
<1> QED BY <1>2, AskedHolds

LEMMA RemoveAvatarHolds ==
  ASSUME ShowcaseInv, NEW p \in Pedidos, RemoveAvatar(p)
  PROVE  ShowcaseInv'
<1>1. PICK e \in Pedido : e = [pc |-> "fijarAvatar", key |-> SinClave]
  BY NextRequest
<1>2. Pide(p, e) /\ UNCHANGED <<deVitrina, candado>> /\ e.pc = "fijarAvatar"
  BY <1>1 DEF RemoveAvatar
<1> QED BY <1>2, AskedHolds

LEMMA AddPortfolioImageHolds ==
  ASSUME ShowcaseInv, NEW p \in Pedidos, NEW k, AddPortfolioImage(p, k)
  PROVE  ShowcaseInv'
<1>1. porPedir \in Nat
  BY DEF ShowcaseInv, PedidosBien
<1>2. PICK e \in Pedido : e = [pc |-> "bloquearFicha", key |-> k, id |-> porPedir]
  BY <1>1, NextRequest DEF AddPortfolioImage, confirmar
<1>3. Pide(p, e) /\ UNCHANGED <<deVitrina, candado>> /\ e.pc = "bloquearFicha"
  BY <1>2 DEF AddPortfolioImage
<1> QED BY <1>3, AskedHolds

LEMMA RemovePortfolioImageHolds ==
  ASSUME ShowcaseInv, NEW p \in Pedidos, NEW i, RemovePortfolioImage(p, i)
  PROVE  ShowcaseInv'
<1>1. i \in Nat /\ portfolio[i].storageKey \in Fotos
  BY DEF RemovePortfolioImage, ShowcaseInv, FotosBien, Foto
<1>2. PICK e \in Pedido : e = [pc |-> "borrarFoto", id |-> i, key |-> portfolio[i].storageKey]
  BY <1>1, NextRequest
<1>3. Pide(p, e) /\ UNCHANGED <<deVitrina, candado>> /\ e.pc = "borrarFoto"
  BY <1>2 DEF RemovePortfolioImage
<1> QED BY <1>3, AskedHolds

LEMMA ReplacePackagesHolds ==
  ASSUME ShowcaseInv, NEW p \in Pedidos, ReplacePackages(p)
  PROVE  ShowcaseInv'
<1>1. porPedir \in Nat /\ paquetes \in SUBSET Nat
  BY DEF ShowcaseInv, PedidosBien, ListasBien
<1>2. PICK e \in Pedido : e = [pc |-> "reemplazarPaquetes", vistos |-> paquetes, lista |-> porPedir]
  BY <1>1, NextRequest
<1>3. Pide(p, e) /\ UNCHANGED <<deVitrina, candado>> /\ e.pc = "reemplazarPaquetes" /\ e.vistos = paquetes
  BY <1>2 DEF ReplacePackages
<1> QED BY <1>3, AskedHolds

LEMMA SetVendorModeHolds ==
  ASSUME ShowcaseInv, NEW p \in Pedidos, NEW enciende \in BOOLEAN, SetVendorMode(p, enciende)
  PROVE  ShowcaseInv'
<1>1. PICK s \in {"DRAFT", "PUBLISHED"} : s = estadoAlCambiarModo(ficha, enciende)
  BY DEF SetVendorMode, estadoAlCambiarModo
<1>2. PICK e \in Pedido : e = [pc |-> "fijarEstado", estado |-> s]
  BY NextRequest
<1>3. Pide(p, e) /\ UNCHANGED <<deVitrina, candado>> /\ e.pc = "fijarEstado"
  BY <1>1, <1>2 DEF SetVendorMode
<1> QED BY <1>3, AskedHolds

\* The second halves that touch neither the photos nor the lists, and a death.
LEMMA OwnStepsHold ==
  ASSUME ShowcaseInv, RestoBien, NEW p \in Pedidos,
         borrar(p) \/ fijarAvatar(p) \/ fijarEstado(p) \/ CaePedido(p)
  PROVE  ShowcaseInv'
<1>1. UNCHANGED <<portfolio, paquetes, porPedir>> /\ (candado' = candado \/ Libera(p))
  BY DEF borrar, fijarAvatar, fijarEstado, CaePedido, Prosigue, deVitrina
<1>2. porPedir' \in Nat
  BY <1>1 DEF ShowcaseInv, PedidosBien
<1>3. PICK e \in Pedido : e.pc \in {"libre", "borrar"} /\ pedido' = [pedido EXCEPT ![p] = e]
  <2>1. CASE borrar(p) \/ fijarEstado(p) \/ CaePedido(p)
    BY <2>1, FreeRequest DEF borrar, fijarEstado, CaePedido, Prosigue
  <2>2. CASE fijarAvatar(p)
    <3>1. PICK e : e = IF avatarKey \in {SinClave, pedido[p].key} THEN SinPedido
                       ELSE [pc |-> "borrar", key |-> avatarKey]
      OBVIOUS
    <3>2. e \in Pedido /\ e.pc \in {"libre", "borrar"}
      BY <3>1, FreeRequest, NextRequest DEF RestoBien
    <3> QED BY <2>2, <3>1, <3>2 DEF fijarAvatar, Prosigue
  <2> QED BY <2>1, <2>2
<1> QED BY <1>1, <1>2, <1>3, QuietShowcaseStep

\* The steps of no request.
LEMMA PlatformHolds ==
  ASSUME ShowcaseInv,
         (\E prefijo \in {Avatares, Fotos} : preparar(prefijo))
           \/ (\E k \in Avatares \cup Fotos : Subir(k)) \/ Suspender \/ UNCHANGED imagesVars
  PROVE  ShowcaseInv'
<1>1. UNCHANGED <<pedido, portfolio, paquetes, candado>> /\ porPedir' \in Nat
  BY DEF preparar, Subir, Suspender, imagesVars, deVitrina, ShowcaseInv, PedidosBien
<1> QED BY <1>1, UntouchedShowcase

LEMMA RestStep ==
  ASSUME ShowcaseInv, RestoBien, [ImagesNext]_imagesVars
  PROVE  RestoBien'
<1>1. ASSUME NEW prefijo \in {Avatares, Fotos}, preparar(prefijo) PROVE RestoBien'
  <2>1. PICK k : k = CHOOSE x \in prefijo \ firmadas : TRUE
    OBVIOUS
  <2>2. k \in prefijo
    BY <1>1, <2>1 DEF preparar
  <2>3. firmadas' = firmadas \cup {k} /\ UNCHANGED <<bucket, avatarKey, ficha, candado>>
    BY <1>1, <2>1 DEF preparar, deVitrina
  <2> QED BY <2>2, <2>3 DEF RestoBien
<1>2. ASSUME NEW k \in Avatares \cup Fotos, Subir(k) PROVE RestoBien'
  BY <1>2 DEF Subir, RestoBien, deVitrina
<1>3. ASSUME NEW p \in Pedidos,
             \/ \E k \in Avatares \cup Fotos : SetAvatar(p, k) \/ AddPortfolioImage(p, k)
                                                  \/ confirmarNoValida(p, k)
             \/ \E i \in DOMAIN portfolio : RemovePortfolioImage(p, i)
             \/ \E enciende \in BOOLEAN : SetVendorMode(p, enciende)
             \/ RemoveAvatar(p) \/ ReplacePackages(p)
      PROVE  RestoBien'
  BY <1>3 DEF SetAvatar, AddPortfolioImage, confirmarNoValida, RemovePortfolioImage, SetVendorMode, RemoveAvatar,
              ReplacePackages, RestoBien, deR2, deVitrina
<1>4. ASSUME NEW p \in Pedidos, bloquearFicha(p) \/ agregarFoto(p) \/ CaePedido(p) PROVE RestoBien'
  <2>1. candado' \in {candado, p, SinCandado} /\ UNCHANGED <<firmadas, bucket, avatarKey, ficha>>
    BY <1>4 DEF bloquearFicha, agregarFoto, CaePedido, Libera, deR2, deVitrina
  <2> QED BY <2>1 DEF RestoBien
<1>5. ASSUME NEW p \in Pedidos, borrarFoto(p) \/ reemplazarPaquetes(p) \/ borrar(p) PROVE RestoBien'
  BY <1>5 DEF borrarFoto, reemplazarPaquetes, borrar, RestoBien, deR2, deVitrina
<1>6. ASSUME NEW p \in Pedidos, fijarAvatar(p) PROVE RestoBien'
  <2>1. PICK e \in Pedido : e = pedido[p] /\ e.pc = "fijarAvatar"
    BY <1>6 DEF fijarAvatar, ShowcaseInv, PedidosBien
  <2>2. e.key \in Avatares \cup {SinClave}
    BY <2>1, PedidoOf DEF Fijando
  <2> QED BY <1>6, <2>1, <2>2 DEF fijarAvatar, RestoBien, deR2
<1>7. ASSUME NEW p \in Pedidos, fijarEstado(p) PROVE RestoBien'
  <2>1. PICK e \in Pedido : e = pedido[p] /\ e.pc = "fijarEstado"
    BY <1>7 DEF fijarEstado, ShowcaseInv, PedidosBien
  <2>2. e.estado \in {"DRAFT", "PUBLISHED"}
    BY <2>1, PedidoOf DEF Modificando
  <2> QED BY <1>7, <2>1, <2>2 DEF fijarEstado, RestoBien, deR2
<1>8. CASE (\E orden \in OrdenesFoto : reordenarFotos(orden)) \/ Suspender \/ UNCHANGED imagesVars
  BY <1>8 DEF reordenarFotos, Suspender, imagesVars, RestoBien, deR2
<1> QED BY <1>1, <1>2, <1>3, <1>4, <1>5, <1>6, <1>7, <1>8 DEF ImagesNext

LEMMA ImagesStep == ImagesInv /\ [ImagesNext]_imagesVars => ImagesInv'
<1> SUFFICES ASSUME ShowcaseInv, RestoBien, [ImagesNext]_imagesVars PROVE ShowcaseInv'
  BY RestStep DEF ImagesInv
<1>1. ASSUME NEW p \in Pedidos, NEW k \in Avatares \cup Fotos,
             SetAvatar(p, k) \/ AddPortfolioImage(p, k) \/ confirmarNoValida(p, k)
      PROVE  ShowcaseInv'
  BY <1>1, SetAvatarHolds, AddPortfolioImageHolds, confirmarNoValidaHolds
<1>2. ASSUME NEW p \in Pedidos, NEW i \in DOMAIN portfolio, RemovePortfolioImage(p, i)
      PROVE  ShowcaseInv'
  BY <1>2, RemovePortfolioImageHolds
<1>3. ASSUME NEW p \in Pedidos, NEW enciende \in BOOLEAN, SetVendorMode(p, enciende) PROVE ShowcaseInv'
  BY <1>3, SetVendorModeHolds
<1>4. ASSUME NEW p \in Pedidos, RemoveAvatar(p) \/ ReplacePackages(p) PROVE ShowcaseInv'
  BY <1>4, RemoveAvatarHolds, ReplacePackagesHolds
<1>5. ASSUME NEW p \in Pedidos, bloquearFicha(p) \/ agregarFoto(p) PROVE ShowcaseInv'
  BY <1>5, bloquearFichaHolds, agregarFotoHolds
<1>6. ASSUME NEW p \in Pedidos, borrarFoto(p) \/ reemplazarPaquetes(p) PROVE ShowcaseInv'
  BY <1>6, borrarFotoHolds, reemplazarPaquetesHolds
<1>7. ASSUME NEW p \in Pedidos, borrar(p) \/ fijarAvatar(p) \/ fijarEstado(p) \/ CaePedido(p)
      PROVE  ShowcaseInv'
  BY <1>7, OwnStepsHold
<1>8. ASSUME NEW orden \in OrdenesFoto, reordenarFotos(orden) PROVE ShowcaseInv'
  BY <1>8, reordenarFotosHolds
<1>9. CASE (\E prefijo \in {Avatares, Fotos} : preparar(prefijo))
             \/ (\E k \in Avatares \cup Fotos : Subir(k)) \/ Suspender \/ UNCHANGED imagesVars
  BY <1>9, PlatformHolds
<1> QED BY <1>1, <1>2, <1>3, <1>4, <1>5, <1>6, <1>7, <1>8, <1>9 DEF ImagesNext

LEMMA ImagesInitHolds == ImagesInit => ImagesInv
<1> SUFFICES ASSUME ImagesInit PROVE ImagesInv
  OBVIOUS
<1>1. PedidosBien /\ HayLugar
  BY FreeRequest, SupuestosImagenes DEF ImagesInit, PedidosBien, HayLugar
<1>2. FotosBien
  <2>1. DOMAIN portfolio = {} /\ portfolio \in [{} -> Foto]
    BY DEF ImagesInit
  <2>2. IsFiniteSet({}) /\ Cardinality({}) = 0 /\ 0 <= MAX_FOTOS_PORTFOLIO
    BY FS_EmptySet, SupuestosImagenes
  <2> QED BY <2>1, <2>2 DEF FotosBien
<1>3. ListasBien
  <2>1. PICK f : f = [l \in {} |-> CHOOSE p \in Pedidos : TRUE]
    OBVIOUS
  <2>2. DeQuien(f)
    BY <2>1 DEF DeQuien, ImagesInit
  <2> QED BY <2>2 DEF ListasBien, ImagesInit
<1>4. RestoBien
  BY DEF RestoBien, ImagesInit
<1> QED BY <1>1, <1>2, <1>3, <1>4 DEF ImagesInv, ShowcaseInv

LEMMA ImagesReachable == ImagesSpec => []ImagesInv
  BY ImagesInitHolds, ImagesStep, PTL DEF ImagesSpec

\* The tables, the bucket and the lock keep their types; nothing is in the
\* bucket that was not signed.
THEOREM ImagesTyped == ImagesSpec => []ImagesTypeOK
<1>1. ImagesInv => ImagesTypeOK
  BY DEF ImagesInv, RestoBien, ShowcaseInv, FotosBien, Foto, ImagesTypeOK
<1> QED BY <1>1, ImagesReachable, PTL

\* The public profile is in order whatever its owner's requests do at once:
\* the lock makes the count of bloquearFicha good until agregarFoto, the last
\* place grows by one, and a list of packages outlives the request that
\* replaced it only with an owner of its own.
THEOREM ShowcasesAreInOrder == ImagesSpec => []ShowcaseIsInOrder
<1>1. ImagesInv => ShowcaseIsInOrder
  <2> SUFFICES ASSUME ImagesInv PROVE Cardinality(paquetes) <= Cardinality(Pedidos)
    BY DEF ImagesInv, ShowcaseInv, FotosBien, ShowcaseIsInOrder
  <2>1. PICK f : DeQuien(f)
    BY DEF ImagesInv, ShowcaseInv, ListasBien
  <2>2. f \in Injection(paquetes, Pedidos)
    BY <2>1 DEF DeQuien, Injection, IsInjective
  <2> QED BY <2>2, FS_Injection, SupuestosImagenes
<1> QED BY <1>1, ImagesReachable, PTL

-----------------------------------------------------------------------------
(* Listings: the order of the rows *)

Clave == [createdAt: Horas, id: Ids]

\* A finite set and a strict order on it, given as a relation: some element
\* is below none.
LEMMA Extreme ==
  ASSUME NEW T, IsFiniteSet(T), T # {}, NEW R,
         \A x \in T : <<x, x>> \notin R,
         \A x, y, z \in T : <<x, y>> \in R /\ <<y, z>> \in R => <<x, z>> \in R
  PROVE  \E x \in T : \A y \in T : <<x, y>> \notin R
<1> DEFINE Mas(x) == {y \in T : <<x, y>> \in R}
           Cuantos == {Cardinality(Mas(x)) : x \in T}
<1>1. \A x \in T : IsFiniteSet(Mas(x)) /\ Cardinality(Mas(x)) \in Nat
  <2> SUFFICES ASSUME NEW x \in T PROVE IsFiniteSet(Mas(x)) /\ Cardinality(Mas(x)) \in Nat
    OBVIOUS
  <2>1. Mas(x) \in SUBSET T
    OBVIOUS
  <2> QED BY <2>1, FS_Subset, FS_CardinalityType
<1>2. PICK n \in Cuantos : \A m \in Cuantos : n <= m
  <2> HIDE DEF Mas
  <2>1. Cuantos \subseteq Nat /\ Cuantos # {}
    BY <1>1
  <2> HIDE DEF Cuantos
  <2> QED BY <2>1, LeastOf
<1>3. PICK x \in T : \A y \in T : Cardinality(Mas(x)) <= Cardinality(Mas(y))
  <2> HIDE DEF Mas
  <2> QED BY <1>2
<1>4. ASSUME NEW y \in T, <<x, y>> \in R PROVE FALSE
  <2>1. Mas(y) \subseteq Mas(x) /\ y \in Mas(x) /\ y \notin Mas(y)
    BY <1>4
  <2>2. PICK A, B : A = Mas(x) /\ B = Mas(y)
    OBVIOUS
  <2>3. IsFiniteSet(A) /\ B \in SUBSET A /\ B # A /\ Cardinality(A) \in Nat /\ Cardinality(B) \in Nat
    BY <1>1, <2>1, <2>2
  <2>4. Cardinality(B) < Cardinality(A)
    <3>1. Cardinality(B) <= Cardinality(A) /\ (Cardinality(B) = Cardinality(A) => B = A)
      BY <2>3, FS_Subset
    <3> QED BY <2>3, <3>1
  <2> QED BY <1>3, <2>2, <2>3, <2>4
<1> QED BY <1>3, <1>4

LEMMA AfterInOrder ==
  ASSUME cualLista \in Listados, NEW a, NEW c
  PROVE  Tras(a, c) <=> EnOrden(c, a)
  BY DEF Tras, trasInvitado, trasFicha, trasGasto, trasNotificacion, EnOrden, Listados

\* (createdAt, id) is a strict total order, in either direction.
LEMMA OrderOfKeys ==
  ASSUME NEW a \in Clave, NEW b \in Clave, NEW c \in Clave
  PROVE  /\ ~EnOrden(a, a) /\ (EnOrden(a, b) /\ EnOrden(b, c) => EnOrden(a, c))
         /\ a.id # b.id => EnOrden(a, b) \/ EnOrden(b, a)
<1>1. /\ a.createdAt \in Int /\ b.createdAt \in Int /\ c.createdAt \in Int
      /\ a.id \in Int /\ b.id \in Int /\ c.id \in Int
  <2>1. Horas \subseteq Int /\ Ids \subseteq Int
    BY SupuestosListado
  <2>2. /\ a.createdAt \in Horas /\ b.createdAt \in Horas /\ c.createdAt \in Horas
        /\ a.id \in Ids /\ b.id \in Ids /\ c.id \in Ids
    BY DEF Clave
  <2> QED BY <2>1, <2>2
<1> QED BY <1>1 DEF EnOrden, Antes

LEMMA CursorOf ==
  ASSUME ListingsTypeOK, NEW id \in DOMAIN tabla
  PROVE  Cursor(id) \in Clave /\ Cursor(id).id = id /\ Cursor(id) # SinCursor
<1>1. tabla[id].createdAt \in Horas /\ id \in Ids
  BY DEF ListingsTypeOK, FilaListada
<1> QED BY <1>1, SupuestosListado DEF Cursor, Clave

LEMMA CandidatesAreRows ==
  ASSUME ListingsTypeOK, NEW c
  PROVE  IsFiniteSet(Candidatas(c)) /\ Candidatas(c) \subseteq DOMAIN tabla /\ Candidatas(c) \subseteq Ids
<1>1. Candidatas(c) \subseteq DOMAIN tabla /\ Candidatas(c) \in SUBSET Ids
  BY DEF Candidatas, ListingsTypeOK
<1> QED BY <1>1, FS_Subset, SupuestosListado

LEMMA AheadIsFinite ==
  ASSUME ListingsTypeOK, NEW c, NEW id \in Candidatas(c)
  PROVE  IsFiniteSet(Delante(id, c)) /\ Cardinality(Delante(id, c)) \in Nat
<1>1. IsFiniteSet(Candidatas(c)) /\ Delante(id, c) \in SUBSET Candidatas(c)
  BY CandidatesAreRows DEF Delante
<1> QED BY <1>1, FS_Subset, FS_CardinalityType

\* If a row matches, the page shows one.
LEMMA PageIsNotEmpty ==
  ASSUME ListingsTypeOK, NEW c, NEW limite \in Limites, Candidatas(c) # {}
  PROVE  Primeras(c, limite) # {}
<1> DEFINE T == Candidatas(c)
           R == {s \in T \X T : EnOrden(Cursor(s[2]), Cursor(s[1]))}
<1>1. \A x \in T : Cursor(x) \in Clave
  BY CursorOf, CandidatesAreRows
<1>2. /\ \A x \in T : <<x, x>> \notin R
      /\ \A x, y, z \in T : <<x, y>> \in R /\ <<y, z>> \in R => <<x, z>> \in R
  BY <1>1, OrderOfKeys
<1>3. IsFiniteSet(T) /\ T # {}
  BY CandidatesAreRows
<1>4. PICK id \in T : \A y \in T : <<id, y>> \notin R
  <2> HIDE DEF R, T
  <2> QED BY <1>2, <1>3, Extreme
<1>5. Delante(id, c) = {}
  BY <1>4 DEF Delante
<1>6. Cardinality(Delante(id, c)) < limite
  BY <1>5, FS_EmptySet, SupuestosListado
<1> QED BY <1>6 DEF Primeras

\* The row whose cursor the page gives is its last.
LEMMA LastOfPage ==
  ASSUME ListingsTypeOK, NEW P, IsFiniteSet(P), P # {}, P \subseteq DOMAIN tabla
  PROVE  ultima(P) \in P /\ \A x \in P : ~EnOrden(Cursor(ultima(P)), Cursor(x))
<1> DEFINE R == {s \in P \X P : EnOrden(Cursor(s[1]), Cursor(s[2]))}
<1>1. \A x \in P : Cursor(x) \in Clave
  BY CursorOf
<1>2. /\ \A x \in P : <<x, x>> \notin R
      /\ \A x, y, z \in P : <<x, y>> \in R /\ <<y, z>> \in R => <<x, z>> \in R
  BY <1>1, OrderOfKeys
<1>3. PICK id \in P : \A y \in P : <<id, y>> \notin R
  <2> HIDE DEF R
  <2> QED BY <1>2, Extreme
<1>4. \A y \in P : ~EnOrden(Cursor(id), Cursor(y))
  BY <1>3
<1> QED BY <1>4 DEF ultima

\* What the page leaves comes after all it shows.
LEMMA RestComesAfter ==
  ASSUME ListingsTypeOK, NEW c, NEW limite \in Limites, NEW x \in Primeras(c, limite),
         NEW f \in Candidatas(c), f \notin Primeras(c, limite)
  PROVE  EnOrden(Cursor(x), Cursor(f))
<1>1. x \in Candidatas(c) /\ x # f
  BY DEF Primeras
<1>2. /\ Cursor(x) \in Clave /\ Cursor(f) \in Clave /\ Cursor(x).id # Cursor(f).id
      /\ \A y \in Candidatas(c) : Cursor(y) \in Clave
  BY <1>1, CursorOf, CandidatesAreRows
<1>3. ASSUME EnOrden(Cursor(f), Cursor(x)) PROVE FALSE
  <2>1. Delante(f, c) \subseteq Delante(x, c)
    BY <1>2, <1>3, OrderOfKeys DEF Delante
  <2>2. PICK A, B : A = Delante(x, c) /\ B = Delante(f, c)
    OBVIOUS
  <2>3. /\ IsFiniteSet(A) /\ B \in SUBSET A /\ Cardinality(A) \in Nat /\ Cardinality(B) \in Nat
        /\ Cardinality(A) < limite /\ ~(Cardinality(B) < limite) /\ limite \in Nat
    BY <1>1, <2>1, <2>2, AheadIsFinite, SupuestosListado DEF Primeras
  <2>4. Cardinality(B) <= Cardinality(A)
    BY <2>3, FS_Subset
  <2> QED BY <2>3, <2>4
<1> QED BY <1>2, <1>3, OrderOfKeys

-----------------------------------------------------------------------------
(* Listings: the inductive invariant *)

\* The row comes after the client's cursor.
Despues(id) == EnOrden(recorrido.cursor, Cursor(id))

\* The client has a cursor while there are pages to come; what it has been
\* shown lies up to the cursor, and what has matched all along and it has not
\* been shown lies beyond.
WalkInv ==
  /\ ListingsTypeOK
  /\ recorrido.pc = "sigue" <=> recorrido.cursor # SinCursor
  /\ \A id \in fieles : tabla[id].casa
  /\ \A id \in Ids : recorrido.vistas[id] <= 1
  /\ recorrido.pc = "empieza" => \A id \in Ids : recorrido.vistas[id] = 0
  /\ recorrido.pc = "sigue" => /\ \A id \in DOMAIN tabla : recorrido.vistas[id] = 1 => ~Despues(id)
                               /\ \A id \in fieles : Despues(id) \/ recorrido.vistas[id] = 1
  /\ recorrido.pc = "termina" => \A id \in fieles : recorrido.vistas[id] = 1

\* A page shows matching rows beyond the cursor, none of them seen.
LEMMA PageIsNew ==
  ASSUME WalkInv, recorrido.pc # "termina", NEW c, c = recorrido.cursor, NEW id \in Candidatas(c)
  PROVE  id \in Ids /\ recorrido.vistas[id] = 0
<1>1. id \in DOMAIN tabla /\ id \in Ids /\ recorrido.vistas[id] \in Nat
  BY CandidatesAreRows DEF WalkInv, ListingsTypeOK
<1>2. recorrido.vistas[id] <= 1 /\ recorrido.pc \in {"empieza", "sigue"}
  BY <1>1 DEF WalkInv, ListingsTypeOK
<1>3. CASE recorrido.pc = "empieza"
  BY <1>1, <1>3 DEF WalkInv
<1>4. CASE recorrido.pc = "sigue"
  <2>1. Tras(Cursor(id), c)
    BY <1>4 DEF WalkInv, Candidatas
  <2>2. Despues(id)
    BY <2>1, AfterInOrder DEF Despues, WalkInv, ListingsTypeOK
  <2>3. recorrido.vistas[id] # 1
    BY <1>1, <1>4, <2>2 DEF WalkInv
  <2> QED BY <1>1, <1>2, <2>3
<1> QED BY <1>1, <1>2, <1>3, <1>4

\* A row that matched all along, and was not shown, is a candidate.
LEMMA FaithfulIsCandidate ==
  ASSUME WalkInv, recorrido.pc # "termina", NEW c, c = recorrido.cursor, NEW id \in fieles,
         recorrido.vistas[id] # 1
  PROVE  id \in Candidatas(c)
<1>1. id \in DOMAIN tabla /\ tabla[id].casa /\ recorrido.pc \in {"empieza", "sigue"}
  BY DEF WalkInv, ListingsTypeOK
<1>2. CASE recorrido.pc = "empieza"
  BY <1>1, <1>2 DEF WalkInv, Candidatas
<1>3. CASE recorrido.pc = "sigue"
  <2>1. Despues(id)
    BY <1>3 DEF WalkInv
  <2>2. Tras(Cursor(id), c)
    BY <2>1, AfterInOrder DEF Despues, WalkInv, ListingsTypeOK
  <2> QED BY <1>1, <2>2 DEF Candidatas
<1> QED BY <1>1, <1>2, <1>3

LEMMA PageHolds ==
  ASSUME WalkInv, NEW limite \in Limites, PedirPagina(limite)
  PROVE  WalkInv'
<1>1. PICK c, P, C, vistas : /\ c = recorrido.cursor /\ P = Primeras(c, limite) /\ C = Candidatas(c)
                             /\ vistas = recorrido.vistas
  OBVIOUS
<1>2. PICK sig : sig = IF P = C THEN SinCursor ELSE Cursor(ultima(P))
  OBVIOUS
<1>3. PICK contadas : contadas = [id \in Ids |-> vistas[id] + IF id \in P THEN 1 ELSE 0]
  OBVIOUS
<1>4. /\ recorrido' = [pc |-> IF sig = SinCursor THEN "termina" ELSE "sigue", cursor |-> sig, vistas |-> contadas]
      /\ recorrido.pc # "termina" /\ UNCHANGED <<cualLista, tabla, fieles>>
  BY <1>1, <1>2, <1>3 DEF PedirPagina, listar
<1>5. /\ ListingsTypeOK /\ vistas \in [Ids -> Nat] /\ fieles \subseteq DOMAIN tabla
      /\ DOMAIN tabla \subseteq Ids /\ \A id \in Ids : vistas[id] = 0 \/ vistas[id] = 1
  <2>1. \A id \in Ids : vistas[id] <= 1 /\ vistas[id] \in Nat
    BY <1>1 DEF WalkInv, ListingsTypeOK
  <2>2. \A id \in Ids : vistas[id] = 0 \/ vistas[id] = 1
    BY <2>1
  <2> QED BY <1>1, <2>2 DEF WalkInv, ListingsTypeOK
<1>6. P \subseteq C /\ C \subseteq DOMAIN tabla /\ C \subseteq Ids /\ IsFiniteSet(P)
  <2>1. IsFiniteSet(C) /\ C \subseteq DOMAIN tabla /\ C \subseteq Ids
    BY <1>1, <1>5, CandidatesAreRows
  <2>2. P \in SUBSET C
    BY <1>1 DEF Primeras
  <2> QED BY <2>1, <2>2, FS_Subset
<1>7. \A id \in C : vistas[id] = 0
  BY <1>1, <1>4, PageIsNew
<1>8. /\ contadas \in [Ids -> Nat] /\ \A id \in Ids : contadas[id] <= 1
      /\ \A id \in P : contadas[id] = 1
      /\ \A id \in Ids : id \notin P => contadas[id] = vistas[id]
  <2>1. \A id \in P : contadas[id] = 1
    BY <1>3, <1>6, <1>7
  <2>2. \A id \in Ids : id \notin P => contadas[id] = vistas[id]
    BY <1>3, <1>5
  <2>3. \A id \in Ids : contadas[id] = 0 \/ contadas[id] = 1
    BY <1>5, <2>1, <2>2
  <2>4. contadas \in [Ids -> Nat]
    BY <1>3, <2>3
  <2> QED BY <2>1, <2>2, <2>3, <2>4
<1>9. \A id \in fieles : vistas[id] = 1 \/ id \in C
  BY <1>1, <1>4, FaithfulIsCandidate
<1>10. CASE P = C
  <2>1. recorrido' = [pc |-> "termina", cursor |-> SinCursor, vistas |-> contadas]
    BY <1>2, <1>4, <1>10
  <2>2. \A id \in fieles : contadas[id] = 1
    BY <1>5, <1>8, <1>9, <1>10
  <2> QED BY <1>4, <1>8, <2>1, <2>2 DEF WalkInv, ListingsTypeOK
<1>11. CASE P # C
  <2>1. P # {}
    BY <1>1, <1>5, <1>6, <1>11, PageIsNotEmpty
  <2>2. PICK u : u = ultima(P)
    OBVIOUS
  <2>3. u \in P /\ \A x \in P : ~EnOrden(Cursor(u), Cursor(x))
    BY <1>5, <1>6, <2>1, <2>2, LastOfPage
  <2>4. sig = Cursor(u) /\ sig \in Clave /\ sig # SinCursor
    BY <1>2, <1>5, <1>6, <1>11, <2>2, <2>3, CursorOf
  <2>5. recorrido' = [pc |-> "sigue", cursor |-> sig, vistas |-> contadas]
    BY <1>4, <2>4
  <2>6. \A id \in DOMAIN tabla : Despues(id)' <=> EnOrden(sig, Cursor(id))
    BY <1>4, <2>5 DEF Despues, EnOrden, Antes, Cursor
  <2>7. ASSUME NEW id \in DOMAIN tabla, contadas[id] = 1 PROVE ~EnOrden(sig, Cursor(id))
    <3>1. CASE id \in P
      BY <2>3, <2>4, <3>1
    <3>2. CASE id \notin P
      <4>1. vistas[id] = 1
        BY <1>5, <1>8, <2>7, <3>2
      <4>2. recorrido.pc = "sigue" /\ ~EnOrden(c, Cursor(id)) /\ c \in Clave
        BY <1>1, <1>4, <1>5, <4>1 DEF WalkInv, ListingsTypeOK, Despues, Clave
      <4>3. Tras(Cursor(u), c)
        BY <1>1, <1>6, <2>3, <4>2 DEF Candidatas, WalkInv
      <4>4. EnOrden(c, sig)
        BY <2>4, <4>3, AfterInOrder DEF WalkInv, ListingsTypeOK
      <4>5. Cursor(id) \in Clave
        BY <1>5, CursorOf
      <4> QED BY <2>4, <4>2, <4>4, <4>5, OrderOfKeys
    <3> QED BY <3>1, <3>2
  <2>8. ASSUME NEW id \in fieles PROVE EnOrden(sig, Cursor(id)) \/ contadas[id] = 1
    <3>1. CASE id \in C /\ id \notin P
      BY <1>1, <1>5, <2>3, <2>4, <3>1, RestComesAfter
    <3>2. CASE id \in P
      BY <1>8, <3>2
    <3>3. CASE id \notin C
      BY <1>5, <1>6, <1>8, <1>9, <3>3
    <3> QED BY <3>1, <3>2, <3>3
  <2>9. ListingsTypeOK'
    BY <1>4, <1>8, <2>4, <2>5 DEF ListingsTypeOK, WalkInv, Clave
  <2> QED BY <1>4, <1>5, <1>8, <2>4, <2>5, <2>6, <2>7, <2>8, <2>9 DEF WalkInv
<1> QED BY <1>10, <1>11

\* A change of a row that keeps every other and the instant of its own.
LEMMA ChangeHolds ==
  ASSUME WalkInv, CambiaFila, DOMAIN tabla' \subseteq Ids, tabla' \in [DOMAIN tabla' -> FilaListada],
         fieles' \subseteq fieles \cap DOMAIN tabla',
         \A id \in DOMAIN tabla' : \/ id \in DOMAIN tabla /\ tabla'[id].createdAt = tabla[id].createdAt
                                   \/ recorrido.vistas[id] = 0 /\ id \notin fieles',
         \A id \in fieles' : tabla'[id] = tabla[id]
  PROVE  WalkInv'
<1>1. recorrido' = recorrido /\ cualLista' = cualLista /\ recorrido.pc = "sigue"
  BY DEF CambiaFila
<1>2. ListingsTypeOK'
  BY <1>1 DEF WalkInv, ListingsTypeOK
<1>3. \A id \in DOMAIN tabla' : \/ id \in DOMAIN tabla /\ (Despues(id)' <=> Despues(id))
                                \/ recorrido.vistas[id] = 0 /\ id \notin fieles'
  BY <1>1 DEF Despues, EnOrden, Antes, Cursor
<1>4. \A id \in DOMAIN tabla' : recorrido.vistas[id] = 1 => ~Despues(id)'
  BY <1>1, <1>3 DEF WalkInv
<1>5. \A id \in fieles' : Despues(id)' \/ recorrido.vistas[id] = 1
  BY <1>1, <1>3 DEF WalkInv
<1>6. \A id \in fieles' : tabla'[id].casa
  BY DEF WalkInv
<1> QED BY <1>1, <1>2, <1>4, <1>5, <1>6 DEF WalkInv

LEMMA InsertarFilaHolds ==
  ASSUME WalkInv, NEW id \in Ids, NEW fila \in FilaListada, InsertarFila(id, fila)
  PROVE  WalkInv'
<1>1. DOMAIN tabla \subseteq Ids /\ tabla \in [DOMAIN tabla -> FilaListada] /\ fieles \subseteq DOMAIN tabla
  BY DEF WalkInv, ListingsTypeOK
<1>2. /\ DOMAIN tabla' = DOMAIN tabla \cup {id} /\ tabla'[id] = fila /\ id \notin DOMAIN tabla
      /\ \A x \in DOMAIN tabla : tabla'[x] = tabla[x] /\ tabla[x] \in FilaListada
      /\ recorrido.vistas[id] = 0 /\ CambiaFila /\ fieles' = fieles
  BY <1>1 DEF InsertarFila
<1>3. tabla' \in [DOMAIN tabla' -> FilaListada]
  <2>1. tabla' = [x \in DOMAIN tabla' |-> tabla'[x]]
    BY DEF InsertarFila
  <2> QED BY <1>2, <2>1
<1>4. \A x \in DOMAIN tabla' : \/ x \in DOMAIN tabla /\ tabla'[x].createdAt = tabla[x].createdAt
                               \/ recorrido.vistas[x] = 0 /\ x \notin fieles'
  BY <1>1, <1>2
<1> QED BY <1>1, <1>2, <1>3, <1>4, ChangeHolds

LEMMA CambiarFilaHolds ==
  ASSUME WalkInv, NEW id \in Ids, CambiarFila(id)
  PROVE  WalkInv'
<1>1. DOMAIN tabla \subseteq Ids /\ tabla \in [DOMAIN tabla -> FilaListada] /\ fieles \subseteq DOMAIN tabla
  BY DEF WalkInv, ListingsTypeOK
<1>2. PICK fila : fila = [tabla[id] EXCEPT !.casa = ~tabla[id].casa]
  OBVIOUS
<1>3. fila \in FilaListada /\ fila.createdAt = tabla[id].createdAt
  BY <1>1, <1>2 DEF CambiarFila, FilaListada
<1>4. tabla' = [tabla EXCEPT ![id] = fila] /\ id \in DOMAIN tabla /\ CambiaFila /\ fieles' = fieles \ {id}
  BY <1>1, <1>2 DEF CambiarFila
<1>5. /\ DOMAIN tabla' = DOMAIN tabla /\ tabla' \in [DOMAIN tabla -> FilaListada]
      /\ tabla'[id] = fila /\ \A x \in DOMAIN tabla : x # id => tabla'[x] = tabla[x]
  BY <1>1, <1>3, <1>4
<1> QED BY <1>1, <1>3, <1>4, <1>5, ChangeHolds

LEMMA BorrarFilaHolds ==
  ASSUME WalkInv, NEW id \in Ids, BorrarFila(id)
  PROVE  WalkInv'
<1>1. DOMAIN tabla \subseteq Ids /\ tabla \in [DOMAIN tabla -> FilaListada] /\ fieles \subseteq DOMAIN tabla
  BY DEF WalkInv, ListingsTypeOK
<1>2. /\ DOMAIN tabla' = DOMAIN tabla \ {id} /\ CambiaFila /\ fieles' = fieles \ {id}
      /\ tabla' \in [DOMAIN tabla \ {id} -> FilaListada] /\ \A x \in DOMAIN tabla \ {id} : tabla'[x] = tabla[x]
  BY <1>1 DEF BorrarFila
<1> QED BY <1>1, <1>2, ChangeHolds

LEMMA WalkInit == ListingsInit => WalkInv
<1> SUFFICES ASSUME ListingsInit PROVE WalkInv
  OBVIOUS
<1>1. PICK S \in SUBSET Ids : tabla \in [S -> FilaListada]
  <2>1. CASE faltan = 0
    <3>1. tabla \in [{} -> FilaListada]
      BY <2>1 DEF ListingsInit
    <3> QED BY <3>1
  <2>2. CASE faltan # 0
    BY <2>2 DEF ListingsInit
  <2> QED BY <2>1, <2>2
<1>2. cualLista \in Listados
  BY DEF ListingsInit, Listados
<1>3. recorrido = [pc |-> "empieza", cursor |-> SinCursor, vistas |-> [id \in Ids |-> 0]]
      /\ fieles = {id \in DOMAIN tabla : tabla[id].casa}
  BY DEF ListingsInit
<1>4. ListingsTypeOK
  BY <1>1, <1>2, <1>3 DEF ListingsTypeOK
<1> QED BY <1>3, <1>4 DEF WalkInv, ListingsTypeOK

LEMMA WalkStep == WalkInv /\ [ListingsNext]_listingsVars => WalkInv'
<1> SUFFICES ASSUME WalkInv, [ListingsNext]_listingsVars PROVE WalkInv'
  OBVIOUS
<1>1. CASE UNCHANGED listingsVars
  BY <1>1 DEF listingsVars, WalkInv, ListingsTypeOK, Despues, EnOrden, Antes, Cursor
<1>2. CASE ListingsNext
  BY <1>2, PageHolds, InsertarFilaHolds, CambiarFilaHolds, BorrarFilaHolds DEF ListingsNext
<1> QED BY <1>1, <1>2

LEMMA WalkReachable == ListingsSpec => []WalkInv
  BY WalkInit, WalkStep, PTL DEF ListingsSpec

\* "OFFSET salta filas cuando alguien inserta mientras paginas; el cursor es
\* exacto": for every table, page size and change in between, in each of the
\* four listings.
THEOREM WalksAreExact == ListingsSpec => []WalkIsExact
<1>1. WalkInv => WalkIsExact
  BY DEF WalkInv, WalkIsExact
<1> QED BY <1>1, WalkReachable, PTL

-----------------------------------------------------------------------------
(* All the services *)

serviceVars == <<activo, seatingVars, eventsVars, contractsVars, scheduleVars, listingsVars,
                 guestListVars, realtimeVars, accountsVars, imagesVars>>

\* A step of one service is a stutter of the others.
LEMMA OneAtATime ==
  ASSUME [Next]_serviceVars
  PROVE  /\ [SeatingNext]_seatingVars /\ [EventsNext]_eventsVars /\ [ContractsNext]_contractsVars
         /\ [ScheduleNext]_scheduleVars /\ [ListingsNext]_listingsVars
         /\ [GuestListNext]_guestListVars /\ [RealtimeNext]_realtimeVars
         /\ [AccountsNext]_accountsVars /\ [ImagesNext]_imagesVars
<1>1. CASE UNCHANGED serviceVars
  BY <1>1 DEF serviceVars
<1>2. CASE Next
  <2>1. [SeatingNext]_seatingVars BY <1>2 DEF Next
  <2>2. [EventsNext]_eventsVars BY <1>2 DEF Next
  <2>3. [ContractsNext]_contractsVars BY <1>2 DEF Next
  <2>4. [ScheduleNext]_scheduleVars BY <1>2 DEF Next
  <2>5. [ListingsNext]_listingsVars BY <1>2 DEF Next
  <2>6. [GuestListNext]_guestListVars BY <1>2 DEF Next
  <2>7. [RealtimeNext]_realtimeVars BY <1>2 DEF Next
  <2>8. [AccountsNext]_accountsVars BY <1>2 DEF Next
  <2>9. [ImagesNext]_imagesVars BY <1>2 DEF Next
  <2> QED BY <2>1, <2>2, <2>3, <2>4, <2>5, <2>6, <2>7, <2>8, <2>9
<1> QED BY <1>1, <1>2

\* What the run of the services checks is each of them, whole: a behaviour of
\* the composition is one of every service, so what is proved of a service
\* holds in it.
THEOREM EachIsServed ==
  Spec => /\ SeatingSpec /\ EventsSpec /\ ContractsSpec /\ ScheduleSpec /\ ListingsSpec
          /\ GuestListSpec /\ RealtimeSpec /\ AccountsSpec /\ ImagesSpec
<1>1. Init => /\ SeatingInit /\ EventsInit /\ ContractsInit /\ ScheduleInit /\ ListingsInit
              /\ GuestListInit /\ RealtimeInit /\ AccountsInit /\ ImagesInit
  BY DEF Init
<1>2. Spec => Init /\ [][Next]_serviceVars
  BY PTL DEF Spec, serviceVars
<1>3. [Next]_serviceVars =>
         /\ [SeatingNext]_seatingVars /\ [EventsNext]_eventsVars /\ [ContractsNext]_contractsVars
         /\ [ScheduleNext]_scheduleVars /\ [ListingsNext]_listingsVars
         /\ [GuestListNext]_guestListVars /\ [RealtimeNext]_realtimeVars
         /\ [AccountsNext]_accountsVars /\ [ImagesNext]_imagesVars
  BY OneAtATime
<1> QED BY <1>1, <1>2, <1>3, PTL
        DEF SeatingSpec, EventsSpec, ContractsSpec, ScheduleSpec, ListingsSpec, GuestListSpec,
            RealtimeSpec, AccountsSpec, ImagesSpec

\* The tables of every service keep their types and CHECKs.
THEOREM ServicesTyped == Spec => []TypeOK
<1>1. WalkInv => ListingsTypeOK
  BY DEF WalkInv
<1>2. GuestListInv => GuestListTypeOK
  BY DEF GuestListInv
<1>3. TypeOK <=> /\ SeatingTypeOK /\ EventsTypeOK /\ ContractsTypeOK /\ ScheduleTypeOK
                 /\ ListingsTypeOK /\ GuestListTypeOK /\ RealtimeTypeOK /\ AccountsTypeOK
                 /\ ImagesTypeOK
  BY DEF TypeOK
<1> QED BY <1>1, <1>2, <1>3, EachIsServed, SeatingTyped, EventTypes, ContractsTyped,
           ScheduleKeepsItsRange, WalkReachable, GuestListReachable, RealtimeTyped, AccountsTyped,
           ImagesTyped, PTL
=============================================================================
