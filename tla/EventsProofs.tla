---------------------------- MODULE EventsProofs ----------------------------
(* What TLAPS proves of Events, for every value of its constants.          *)
EXTENDS Events, TLAPS

-----------------------------------------------------------------------------
(* The inductive invariant *)

Existente(e) == e \in FilaEvento /\ e.status \in {"DRAFT", "ACTIVE"}
Admitida(e) == Existente(e) /\ AdmiteEvento(e)

\* What a request in flight holds.
SolicitudOK(r) ==
  /\ r.pc \in {"libre", "editar", "publicar", "invitar", "encolar"}
  /\ r.leido \in FilaEvento /\ r.u \in Usuarios /\ r.role \in {"COUPLE", "PLANNER"}
  /\ r.pc = "editar" => Existente(r.leido) /\ r.cambios \in CambiosEvento
  /\ r.pc = "invitar" => r.u # Dueno

Solicitud == [pc: {"libre", "editar", "publicar", "invitar", "encolar"}, leido: FilaEvento,
              cambios: {<< >>} \cup CambiosEvento, u: Usuarios, role: {"COUPLE", "PLANNER"}]

FilasOK == /\ evento \in FilaEvento /\ (evento # SinEvento => Admitida(evento))
           /\ membresia \in [Usuarios -> Membresia]
           /\ contratacion \in [Usuarios -> Contratacion]
SolicitudesOK == /\ solicitud \in [Solicitudes -> Solicitud]
                 /\ \A s \in Solicitudes : SolicitudOK(solicitud[s])

\* The membership of the owner, which no invitation and no change can reach.
DuenoDentro == evento # SinEvento => membresia[Dueno] = [status |-> "ACTIVE", role |-> "COUPLE"]

\* Requests come to an event that exists.
SoloConEvento == \A s \in Solicitudes : solicitud[s].pc # "libre" => evento # SinEvento

EInv == FilasOK /\ SolicitudesOK /\ DuenoDentro /\ SoloConEvento

-----------------------------------------------------------------------------
(* Rows *)

LEMMA RowTypes ==
  /\ SinEvento \in FilaEvento /\ Migrado \in FilaEvento /\ Admitida(Migrado)
  /\ \A e \in FilaEvento : e # SinEvento \/ e.status = "NO_EXISTE"
  /\ ~Existente(SinEvento)
BY DEF SinEvento, Migrado, FilaEvento, Existente, Admitida, AdmiteEvento

\* A PATCH keeps a row a row, and its status.
LEMMA PatchTypes ==
  ASSUME NEW e \in FilaEvento, NEW c \in CambiosEvento
  PROVE  columnas(e, c) \in FilaEvento /\ columnas(e, c).status = e.status
<1> DEFINE f == columnas(e, c)
<1>1. /\ e = [status |-> e.status, weddingDate |-> e.weddingDate,
              totalBudget |-> e.totalBudget, venue |-> e.venue]
      /\ e.status \in {"NO_EXISTE", "DRAFT", "ACTIVE"} /\ e.weddingDate \in BOOLEAN
      /\ e.totalBudget \in BOOLEAN /\ e.venue \in {"null", "direccion", "valor"}
  BY DEF FilaEvento
<1>2. c.venue \in {"undefined", "null", "valor"}
  BY DEF CambiosEvento, CamposEvento
<1> DEFINE fecha == IF c.weddingDate = "undefined" THEN e.weddingDate ELSE c.weddingDate = "valor"
          tope == IF c.totalBudget = "undefined" THEN e.totalBudget ELSE c.totalBudget = "valor"
          lugar == IF c.venue = "undefined" THEN e.venue ELSE c.venue
<1>a. f = [e EXCEPT !.weddingDate = fecha, !.totalBudget = tope, !.venue = lugar]
  BY DEF columnas
<1>b. fecha \in BOOLEAN /\ tope \in BOOLEAN
  BY <1>1
<1>c. lugar \in {"null", "direccion", "valor"}
  BY <1>1, <1>2
<1> HIDE DEF f, fecha, tope, lugar
<1>3. f = [status |-> e.status, weddingDate |-> fecha, totalBudget |-> tope, venue |-> lugar]
  BY <1>1, <1>a
<1>6. f \in FilaEvento /\ f.status = e.status
  BY <1>1, <1>3, <1>b, <1>c DEF FilaEvento
<1> QED BY <1>6 DEF f

-----------------------------------------------------------------------------
(* The invariant holds *)

LEMMA EventsInitInv == EventsInit => EInv
<1> SUFFICES ASSUME EventsInit PROVE EInv
  OBVIOUS
<1> USE SupuestosEvento DEF EventsInit
<1>1. evento \in {SinEvento, Migrado}
  OBVIOUS
<1>2. FilasOK
  <2>1. evento \in FilaEvento /\ (evento # SinEvento => Admitida(evento))
    BY <1>1, RowTypes
  <2>2. membresia \in [Usuarios -> Membresia] /\ contratacion \in [Usuarios -> Contratacion]
    BY DEF SinMembresia, Membresia, Contratacion
  <2> QED BY <2>1, <2>2 DEF FilasOK
<1>3. SinSolicitud \in Solicitud /\ SolicitudOK(SinSolicitud)
  BY RowTypes DEF SinSolicitud, Solicitud, SolicitudOK
<1>4. SolicitudesOK
  BY <1>3 DEF SolicitudesOK
<1>5. DuenoDentro /\ SoloConEvento
  BY DEF DuenoDentro, SoloConEvento, SinSolicitud
<1> QED BY <1>2, <1>4, <1>5 DEF EInv

\* The requests that start, field by field.
LEMMA Fields ==
  ASSUME NEW e, NEW c, NEW v, NEW role
  PROVE  /\ [SinSolicitud EXCEPT !.pc = "editar", !.leido = e, !.cambios = c]
              = [pc |-> "editar", leido |-> e, cambios |-> c, u |-> Dueno, role |-> "PLANNER"]
         /\ [SinSolicitud EXCEPT !.pc = "publicar", !.leido = e]
              = [pc |-> "publicar", leido |-> e, cambios |-> << >>, u |-> Dueno, role |-> "PLANNER"]
         /\ [SinSolicitud EXCEPT !.pc = "invitar", !.u = v, !.role = role]
              = [pc |-> "invitar", leido |-> SinEvento, cambios |-> << >>, u |-> v, role |-> role]
<1> DEFINE f == SinSolicitud
           d == [f EXCEPT !.pc = "editar"]
           i == [f EXCEPT !.pc = "invitar"]
           g == [f EXCEPT !.pc = "editar", !.leido = e]
           h == [f EXCEPT !.pc = "publicar"]
           k == [f EXCEPT !.pc = "invitar", !.u = v]
<1>1. f = [pc |-> "libre", leido |-> SinEvento, cambios |-> << >>, u |-> Dueno, role |-> "PLANNER"]
  BY DEF SinSolicitud
<1> HIDE DEF f
<1>2. h = [pc |-> "publicar", leido |-> SinEvento, cambios |-> << >>, u |-> Dueno,
           role |-> "PLANNER"]
  BY <1>1
<1>3. /\ d = [pc |-> "editar", leido |-> SinEvento, cambios |-> << >>, u |-> Dueno,
              role |-> "PLANNER"]
      /\ i = [pc |-> "invitar", leido |-> SinEvento, cambios |-> << >>, u |-> Dueno,
              role |-> "PLANNER"]
  BY <1>1
<1>4. /\ g = [d EXCEPT !.leido = e]
      /\ k = [i EXCEPT !.u = v]
      /\ [f EXCEPT !.pc = "editar", !.leido = e, !.cambios = c] = [g EXCEPT !.cambios = c]
      /\ [f EXCEPT !.pc = "publicar", !.leido = e] = [h EXCEPT !.leido = e]
      /\ [f EXCEPT !.pc = "invitar", !.u = v, !.role = role] = [k EXCEPT !.role = role]
  OBVIOUS
<1> HIDE DEF d, i
<1>5. g = [pc |-> "editar", leido |-> e, cambios |-> << >>, u |-> Dueno, role |-> "PLANNER"]
  BY <1>3, <1>4
<1>6. k = [pc |-> "invitar", leido |-> SinEvento, cambios |-> << >>, u |-> v, role |-> "PLANNER"]
  BY <1>3, <1>4
<1> HIDE DEF g, h, k
<1>7. [g EXCEPT !.cambios = c]
        = [pc |-> "editar", leido |-> e, cambios |-> c, u |-> Dueno, role |-> "PLANNER"]
  BY <1>5
<1>8. [h EXCEPT !.leido = e]
        = [pc |-> "publicar", leido |-> e, cambios |-> << >>, u |-> Dueno, role |-> "PLANNER"]
  BY <1>2
<1>9. [k EXCEPT !.role = role]
        = [pc |-> "invitar", leido |-> SinEvento, cambios |-> << >>, u |-> v, role |-> role]
  BY <1>6
<1> QED BY <1>4, <1>7, <1>8, <1>9 DEF f

\* Replacing what one request has in memory by something well formed.
LEMMA PutSolicitud ==
  ASSUME SolicitudesOK, SoloConEvento, NEW s \in Solicitudes, NEW r \in Solicitud,
         SolicitudOK(r), r.pc # "libre" => evento' # SinEvento,
         evento # SinEvento => evento' # SinEvento,
         solicitud' = [solicitud EXCEPT ![s] = r]
  PROVE  SolicitudesOK' /\ SoloConEvento'
<1>1. \A q \in Solicitudes : solicitud'[q] = IF q = s THEN r ELSE solicitud[q]
  BY DEF SolicitudesOK
<1>2. solicitud' \in [Solicitudes -> Solicitud]
  BY DEF SolicitudesOK
<1>3. \A q \in Solicitudes : SolicitudOK(solicitud'[q])
  BY <1>1 DEF SolicitudesOK
<1>4. SoloConEvento'
  BY <1>1 DEF SoloConEvento
<1> QED BY <1>2, <1>3, <1>4 DEF SolicitudesOK

\* A request that ends holds nothing.
LEMMA Ends ==
  ASSUME SolicitudesOK, SoloConEvento, NEW s \in Solicitudes, Terminar(s),
         evento # SinEvento => evento' # SinEvento
  PROVE  SolicitudesOK' /\ SoloConEvento'
<1>1. /\ SinSolicitud \in Solicitud /\ SolicitudOK(SinSolicitud) /\ SinSolicitud.pc = "libre"
      /\ solicitud' = [solicitud EXCEPT ![s] = SinSolicitud]
  BY RowTypes, SupuestosEvento DEF SinSolicitud, Solicitud, SolicitudOK, Terminar
<1> HIDE DEF SinSolicitud
<1> QED BY <1>1, PutSolicitud

\* The requests that start: they hold the event they read, or whom they invite.
LEMMA Starts ==
  ASSUME EInv, NEW s \in Solicitudes, UNCHANGED <<evento, membresia, contratacion>>,
         NEW pc \in {"editar", "publicar", "invitar"}, NEW u \in Usuarios,
         NEW ruta, NEW leido \in FilaEvento, NEW c \in {<< >>} \cup CambiosEvento,
         NEW v \in Usuarios, NEW role \in {"COUPLE", "PLANNER"},
         pc = "editar" => leido = evento /\ c \in CambiosEvento,
         pc = "invitar" => v # Dueno,
         Empezar(s, u, ruta, [pc |-> pc, leido |-> leido, cambios |-> c, u |-> v, role |-> role])
  PROVE  EInv'
<1> DEFINE r == [pc |-> pc, leido |-> leido, cambios |-> c, u |-> v, role |-> role]
<1>1. evento # SinEvento /\ solicitud' = [solicitud EXCEPT ![s] = r]
  BY DEF Empezar
<1>2. r \in Solicitud /\ SolicitudOK(r)
  BY <1>1 DEF Solicitud, SolicitudOK, EInv, FilasOK, Admitida
<1> HIDE DEF r
<1>3. SolicitudesOK' /\ SoloConEvento'
  BY <1>1, <1>2, PutSolicitud DEF EInv
<1>4. FilasOK' /\ DuenoDentro'
  BY DEF EInv, FilasOK, DuenoDentro, Admitida, Existente, AdmiteEvento
<1> QED BY <1>3, <1>4 DEF EInv

LEMMA CrearConMembresiaInv ==
  ASSUME EInv, NEW c \in Cambios, CrearConMembresia(c)
  PROVE  EInv'
<1> USE SupuestosEvento
<1> DEFINE borrador == [SinEvento EXCEPT !.status = "DRAFT"]
<1>1. borrador \in FilaEvento /\ borrador.status = "DRAFT"
  BY DEF SinEvento, FilaEvento
<1>2. evento' \in FilaEvento /\ evento'.status = "DRAFT"
  <2>1. evento' = columnas(borrador, c) /\ c \in CambiosEvento
    BY DEF CrearConMembresia
  <2> HIDE DEF borrador
  <2> QED BY <1>1, <2>1, PatchTypes
<1>3. Admitida(evento') /\ evento' # SinEvento
  BY <1>2, RowTypes DEF Admitida, Existente, AdmiteEvento
<1>4. [status |-> "ACTIVE", role |-> "COUPLE"] \in Membresia
  BY DEF Membresia
<1>5. FilasOK' /\ DuenoDentro'
  BY <1>2, <1>3, <1>4 DEF CrearConMembresia, EInv, FilasOK, DuenoDentro, Admitida, Existente,
                          AdmiteEvento
<1>6. SolicitudesOK' /\ SoloConEvento'
  BY <1>3 DEF CrearConMembresia, EInv, SolicitudesOK, SolicitudOK, SoloConEvento, Existente
<1> QED BY <1>5, <1>6 DEF EInv

\* A step of the event, by a request that ends: it goes from an event that
\* exists to another that the CHECK admits.
LEMMA WritesEvent ==
  ASSUME EInv, NEW s \in Solicitudes, solicitud[s].pc # "libre", Terminar(s),
         evento' = evento \/ Admitida(evento'), UNCHANGED <<membresia, contratacion>>
  PROVE  EInv' /\ evento # SinEvento
<1>1. evento # SinEvento /\ Admitida(evento)
  BY DEF EInv, SoloConEvento, FilasOK
<1>2. Admitida(evento') /\ evento' # SinEvento /\ evento' \in FilaEvento
  BY <1>1, RowTypes DEF Admitida, Existente
<1>3. SolicitudesOK' /\ SoloConEvento'
  BY <1>2, Ends DEF EInv
<1>4. FilasOK' /\ DuenoDentro'
  BY <1>1, <1>2 DEF EInv, FilasOK, DuenoDentro, Admitida, Existente, AdmiteEvento
<1> QED BY <1>1, <1>3, <1>4 DEF EInv

LEMMA EditarEscribirInv ==
  ASSUME EInv, NEW s \in Solicitudes, EditarEscribir(s)
  PROVE  EInv'
<1>1. solicitud[s].cambios \in CambiosEvento /\ solicitud[s].pc = "editar"
  BY DEF EInv, SolicitudesOK, SolicitudOK, EditarEscribir
<1>2. evento \in FilaEvento /\ Existente(evento)
  BY <1>1, RowTypes DEF EInv, SoloConEvento, FilasOK, Admitida
<1> DEFINE fila == columnas(evento, solicitud[s].cambios)
<1>3. fila \in FilaEvento /\ fila.status = evento.status
  BY <1>1, <1>2, PatchTypes
<1>4. evento' = evento \/ (evento' = fila /\ AdmiteEvento(fila))
  BY DEF EditarEscribir
<1> HIDE DEF fila
<1>5. evento' = evento \/ Admitida(evento')
  BY <1>2, <1>3, <1>4 DEF Admitida, Existente
<1> QED BY <1>1, <1>5, WritesEvent DEF EditarEscribir, deMiembros

LEMMA PublicarEscribirInv ==
  ASSUME EInv, NEW s \in Solicitudes, PublicarEscribir(s)
  PROVE  EInv'
<1>1. evento' = evento \/ (publicarSiCompleto(evento) /\ evento' = [evento EXCEPT !.status = "ACTIVE"])
  BY DEF PublicarEscribir
<1>2. evento' = evento \/ Admitida(evento')
  BY <1>1 DEF publicarSiCompleto, Admitida, Existente, AdmiteEvento, EInv, FilasOK, FilaEvento
<1> QED BY <1>2, WritesEvent DEF PublicarEscribir, deMiembros

LEMMA invitarMiembroInv ==
  ASSUME EInv, NEW s \in Solicitudes, invitarMiembro(s)
  PROVE  EInv'
<1> DEFINE r == [solicitud[s] EXCEPT !.pc = "encolar"]
<1>1. /\ solicitud[s] \in Solicitud /\ SolicitudOK(solicitud[s]) /\ solicitud[s].pc = "invitar"
      /\ evento # SinEvento
  BY DEF EInv, SolicitudesOK, SoloConEvento, invitarMiembro
<1>2. r \in Solicitud /\ SolicitudOK(r) /\ solicitud' = [solicitud EXCEPT ![s] = r]
  BY <1>1 DEF Solicitud, SolicitudOK, invitarMiembro
<1> HIDE DEF r
<1>3. evento' = evento /\ contratacion' = contratacion
  BY DEF invitarMiembro
<1>4. SolicitudesOK' /\ SoloConEvento'
  BY <1>1, <1>2, <1>3, PutSolicitud DEF EInv
<1> DEFINE nueva == [status |-> "INVITED", role |-> solicitud[s].role]
<1>5. nueva \in Membresia /\ solicitud[s].u \in Usuarios \ {Dueno}
  BY <1>1 DEF SolicitudOK, Membresia
<1>6. membresia' = [membresia EXCEPT ![solicitud[s].u] = nueva]
  BY DEF invitarMiembro
<1> HIDE DEF nueva
<1>7. FilasOK' /\ DuenoDentro'
  BY <1>3, <1>5, <1>6, SupuestosEvento DEF EInv, FilasOK, DuenoDentro, Admitida, Existente,
                                           AdmiteEvento
<1> QED BY <1>4, <1>7 DEF EInv

\* What comes from outside the module.
LEMMA OutsideInv ==
  ASSUME EInv,
         \/ \E u \in Usuarios : \E estado \in {"ACTIVE", "REVOKED"} : CambiarMembresia(u, estado)
         \/ \E u \in Usuarios : \E estado \in Contratacion \ {"NINGUNA"} :
              CambiarContratacion(u, estado)
  PROVE  EInv'
<1>1. SolicitudesOK' /\ SoloConEvento' /\ evento' = evento
  BY DEF CambiarMembresia, CambiarContratacion, EInv, SolicitudesOK, SolicitudOK, SoloConEvento,
         Existente
<1>2. ASSUME NEW u \in Usuarios, NEW estado \in {"ACTIVE", "REVOKED"}, CambiarMembresia(u, estado)
      PROVE  FilasOK' /\ DuenoDentro'
  BY <1>1, <1>2, SupuestosEvento DEF CambiarMembresia, EInv, FilasOK, DuenoDentro, Membresia,
                                     Admitida, Existente, AdmiteEvento
<1>3. ASSUME NEW u \in Usuarios, NEW estado \in Contratacion \ {"NINGUNA"},
             CambiarContratacion(u, estado)
      PROVE  FilasOK' /\ DuenoDentro'
  BY <1>1, <1>3 DEF CambiarContratacion, EInv, FilasOK, DuenoDentro, Admitida, Existente,
                    AdmiteEvento
<1> QED BY <1>1, <1>2, <1>3 DEF EInv

LEMMA EventsNextInv == EInv /\ [EventsNext]_eventsVars => EInv'
<1> SUFFICES ASSUME EInv, [EventsNext]_eventsVars PROVE EInv'
  OBVIOUS
<1>1. CASE UNCHANGED eventsVars
  BY <1>1 DEF eventsVars, EInv, FilasOK, SolicitudesOK, SolicitudOK, DuenoDentro, SoloConEvento,
              Admitida, Existente, AdmiteEvento
<1>2. CASE \E c \in Cambios : CrearConMembresia(c)
  BY <1>2, CrearConMembresiaInv
<1>3. ASSUME NEW s \in Solicitudes, NEW u \in Usuarios, NEW c \in Cambios, Editar(s, u, c)
      PROVE  EInv'
  <2> DEFINE r == [pc |-> "editar", leido |-> evento, cambios |-> c, u |-> Dueno, role |-> "PLANNER"]
  <2>0. r = [SinSolicitud EXCEPT !.pc = "editar", !.leido = evento, !.cambios = c]
    BY Fields
  <2> HIDE DEF r
  <2>1. Empezar(s, u, "editarEvento", r)
    BY <1>3, <2>0 DEF Editar
  <2>2. UNCHANGED <<evento, membresia, contratacion>>
    BY <1>3 DEF Editar, deMiembros
  <2>3. c \in CambiosEvento /\ evento \in FilaEvento /\ Dueno \in Usuarios
    BY SupuestosEvento DEF EInv, FilasOK
  <2> QED BY <2>1, <2>2, <2>3, Starts DEF r
<1>4. ASSUME NEW s \in Solicitudes, NEW u \in Usuarios, Publicar(s, u)
      PROVE  EInv'
  <2> DEFINE r == [pc |-> "publicar", leido |-> evento, cambios |-> << >>, u |-> Dueno, role |-> "PLANNER"]
  <2>0. r = [SinSolicitud EXCEPT !.pc = "publicar", !.leido = evento]
    BY Fields
  <2> HIDE DEF r
  <2>1. Empezar(s, u, "publicarEvento", r)
    BY <1>4, <2>0 DEF Publicar
  <2>2. UNCHANGED <<evento, membresia, contratacion>>
    BY <1>4 DEF Publicar, deMiembros
  <2>3. evento \in FilaEvento /\ Dueno \in Usuarios
    BY SupuestosEvento DEF EInv, FilasOK
  <2> QED BY <2>1, <2>2, <2>3, Starts DEF r
<1>5. ASSUME NEW s \in Solicitudes, NEW u \in Usuarios, NEW v \in Usuarios,
             NEW role \in Planificadores, Invitar(s, u, v, role)
      PROVE  EInv'
  <2> DEFINE r == [pc |-> "invitar", leido |-> SinEvento, cambios |-> << >>, u |-> v, role |-> role]
  <2>0. r = [SinSolicitud EXCEPT !.pc = "invitar", !.u = v, !.role = role]
    BY Fields
  <2> HIDE DEF r
  <2>1. Empezar(s, u, "invitarMiembro", r)
    BY <1>5, <2>0 DEF Invitar
  <2>2. UNCHANGED <<evento, membresia, contratacion>>
    BY <1>5 DEF Invitar, deMiembros
  <2>3. v # Dueno
    BY <1>5, <2>1 DEF Invitar, Empezar, EInv, DuenoDentro
  <2> QED BY <2>1, <2>2, <2>3, Starts, RowTypes DEF Planificadores, r
<1>6. ASSUME NEW s \in Solicitudes, EditarEscribir(s) \/ PublicarEscribir(s) \/ invitarMiembro(s)
      PROVE  EInv'
  BY <1>6, EditarEscribirInv, PublicarEscribirInv, invitarMiembroInv
<1>7. ASSUME NEW s \in Solicitudes, EncolarInvitacion(s) \/ CaeSolicitud(s)
      PROVE  EInv'
  BY <1>7, WritesEvent DEF EncolarInvitacion, CaeSolicitud, deMiembros
<1>8. CASE \/ \E u \in Usuarios : \E estado \in {"ACTIVE", "REVOKED"} : CambiarMembresia(u, estado)
           \/ \E u \in Usuarios : \E estado \in Contratacion \ {"NINGUNA"} :
                CambiarContratacion(u, estado)
  BY <1>8, OutsideInv
<1> QED BY <1>1, <1>2, <1>3, <1>4, <1>5, <1>6, <1>7, <1>8 DEF EventsNext

LEMMA EventsInv == EventsSpec => []EInv
BY EventsInitInv, EventsNextInv, PTL DEF EventsSpec

-----------------------------------------------------------------------------
(* Theorems *)

\* Types: the rows of the event, of its memberships and contracts, and what
\* each request in flight read before it writes.
THEOREM EventTypes == EventsSpec => []EventsTypeOK
<1>1. EInv => EventsTypeOK
  BY DEF EInv, FilasOK, SolicitudesOK, SolicitudOK, EventsTypeOK
<1> QED BY <1>1, EventsInv, PTL

\* The owner of an event keeps COUPLE, ACTIVE: no invitation in flight, no
\* change of membership and no creation takes it away.
THEOREM OwnerStays == EventsSpec => []OwnerKeepsAccess
<1>1. EInv => OwnerKeepsAccess
  BY DEF EInv, DuenoDentro, OwnerKeepsAccess, AccesoDe, resolve, buscarMembresiaActiva
<1> QED BY <1>1, EventsInv, PTL

\* The status of the event, step by step.
LEMMA OnlyTwoWritersPublish ==
  ASSUME EInv, [EventsNext]_eventsVars
  PROVE  \/ evento' = evento
         \/ ~Publicado
         \/ \E s \in Solicitudes : EditarEscribir(s) \/ PublicarEscribir(s)
<1> USE DEF deMiembros
<1>1. CASE UNCHANGED eventsVars
  BY <1>1 DEF eventsVars
<1>2. CASE \E c \in Cambios : CrearConMembresia(c)
  BY <1>2 DEF CrearConMembresia, SinEvento, Publicado
<1>3. ASSUME NEW s \in Solicitudes,
             \/ \E u \in Usuarios, c \in Cambios : Editar(s, u, c)
             \/ \E u \in Usuarios : Publicar(s, u)
             \/ \E u, v \in Usuarios, role \in Planificadores : Invitar(s, u, v, role)
      PROVE  evento' = evento
  BY <1>3 DEF Editar, Publicar, Invitar
<1>4. ASSUME NEW s \in Solicitudes, invitarMiembro(s) \/ EncolarInvitacion(s) \/ CaeSolicitud(s)
      PROVE  evento' = evento
  BY <1>4 DEF invitarMiembro, EncolarInvitacion, CaeSolicitud
<1>5. CASE \/ \E u \in Usuarios : \E estado \in {"ACTIVE", "REVOKED"} : CambiarMembresia(u, estado)
           \/ \E u \in Usuarios : \E estado \in Contratacion \ {"NINGUNA"} :
                CambiarContratacion(u, estado)
  BY <1>5 DEF CambiarMembresia, CambiarContratacion
<1> QED BY <1>1, <1>2, <1>3, <1>4, <1>5 DEF EventsNext

\* What EditarEscribir may do to the event.
LEMMA PatchWrites ==
  ASSUME EInv, NEW s \in Solicitudes, EditarEscribir(s)
  PROVE  LET c == solicitud[s].cambios
             leido == solicitud[s].leido
         IN /\ c \in CambiosEvento /\ Existente(leido) /\ Existente(evento)
            /\ solicitud[s].pc = "editar" /\ solicitud'[s].pc = "libre"
            /\ \/ evento' = evento
               \/ /\ evento' = columnas(evento, c) /\ AdmiteEvento(evento')
                  /\ leido.status = "ACTIVE" =>
                       camposFaltantesParaPublicar(columnas(leido, c))
                         \ camposFaltantesParaPublicar(leido) = {}
<1>1. solicitud[s].pc = "editar" /\ Terminar(s)
  BY DEF EditarEscribir
<1>2. solicitud'[s].pc = "libre"
  BY <1>1 DEF Terminar, SinSolicitud, EInv, SolicitudesOK
<1>3. solicitud[s].cambios \in CambiosEvento /\ Existente(solicitud[s].leido) /\ Existente(evento)
  BY <1>1 DEF EInv, SolicitudesOK, SolicitudOK, SoloConEvento, FilasOK, Admitida
<1> QED BY <1>1, <1>2, <1>3 DEF EditarEscribir

LEMMA PublishStep == EInv /\ EInv' /\ [EventsNext]_eventsVars =>
  /\ Publicado => Publicado'
  /\ ~Publicado /\ Publicado' => camposFaltantesParaPublicar(evento') = {}
<1> SUFFICES ASSUME EInv, EInv', [EventsNext]_eventsVars
    PROVE  /\ Publicado => Publicado'
           /\ ~Publicado /\ Publicado' => camposFaltantesParaPublicar(evento') = {}
  OBVIOUS
<1>1. CASE \E s \in Solicitudes : EditarEscribir(s)
  <2>1. evento'.status = evento.status
    BY <1>1, PatchWrites, PatchTypes DEF Existente
  <2> QED BY <2>1 DEF Publicado
<1>2. CASE \E s \in Solicitudes : PublicarEscribir(s)
  <2>1. evento \in FilaEvento
    BY DEF EInv, FilasOK
  <2>2. CASE evento' = evento
    BY <2>2 DEF Publicado
  <2>3. CASE publicarSiCompleto(evento) /\ evento' = [evento EXCEPT !.status = "ACTIVE"]
    <3>1. /\ evento'.status = "ACTIVE" /\ evento'.weddingDate = evento.weddingDate
          /\ evento'.totalBudget = evento.totalBudget /\ evento'.venue = evento.venue
      BY <2>1, <2>3 DEF FilaEvento
    <3>2. evento'["weddingDate"] /\ evento'["totalBudget"] /\ evento'.venue = "valor"
      BY <2>3, <3>1 DEF publicarSiCompleto
    <3> QED BY <3>1, <3>2 DEF Publicado, camposFaltantesParaPublicar
  <2> QED BY <1>2, <2>2, <2>3 DEF PublicarEscribir
<1>3. CASE evento' = evento
  BY <1>3 DEF Publicado
<1>4. CASE ~Publicado /\ \A s \in Solicitudes : ~PublicarEscribir(s) /\ ~EditarEscribir(s)
  <2>1. evento' = evento \/ \E c \in Cambios : CrearConMembresia(c)
    BY <1>4 DEF EventsNext, eventsVars, deMiembros, Editar, Publicar, Invitar, invitarMiembro,
                EncolarInvitacion, CaeSolicitud, CambiarMembresia, CambiarContratacion
  <2>2. ASSUME NEW c \in Cambios, CrearConMembresia(c)
        PROVE  evento'.status = "DRAFT"
    <3> DEFINE borrador == [SinEvento EXCEPT !.status = "DRAFT"]
    <3>1. borrador \in FilaEvento /\ borrador.status = "DRAFT"
      BY DEF SinEvento, FilaEvento
    <3>2. evento' = columnas(borrador, c) /\ c \in CambiosEvento
      BY <2>2, SupuestosEvento DEF CrearConMembresia
    <3> HIDE DEF borrador
    <3> QED BY <3>1, <3>2, PatchTypes
  <2> QED BY <1>4, <2>1, <2>2 DEF Publicado
<1> QED BY <1>1, <1>2, <1>3, <1>4, OnlyTwoWritersPublish

\* The event leaves the draft with its date, budget and venue, and never goes
\* back, whatever was emptied between the check of a publication and its write.
THEOREM PublishedComplete == EventsSpec => PublishesOnlyComplete
<1>1. EInv /\ EInv' /\ [EventsNext]_eventsVars =>
        [/\ Publicado => Publicado'
         /\ ~Publicado /\ Publicado' => camposFaltantesParaPublicar(evento') = {}]_eventsVars
  BY PublishStep
<1> QED BY <1>1, EventsInv, PTL DEF EventsSpec, PublishesOnlyComplete

-----------------------------------------------------------------------------
(* What a PATCH takes away *)

\* A field a PATCH empties in one row it would empty in any other.
LEMMA EmptiesEveryRow ==
  ASSUME NEW e \in FilaEvento, NEW l \in FilaEvento, NEW c \in CambiosEvento, NEW x,
         x \in camposFaltantesParaPublicar(columnas(e, c)),
         x \notin camposFaltantesParaPublicar(e)
  PROVE  x \in camposFaltantesParaPublicar(columnas(l, c))
<1> DEFINE f == columnas(e, c)
           g == columnas(l, c)
<1>1. /\ c.weddingDate = "undefined" => f.weddingDate = e.weddingDate
      /\ c.totalBudget = "undefined" => f.totalBudget = e.totalBudget
      /\ c.venue = "undefined" => f.venue = e.venue
  BY DEF columnas, FilaEvento
<1>2. /\ c.weddingDate # "undefined" => f.weddingDate = g.weddingDate
      /\ c.totalBudget # "undefined" => f.totalBudget = g.totalBudget
      /\ c.venue # "undefined" => f.venue = g.venue
  BY DEF columnas, FilaEvento
<1> HIDE DEF f, g
<1>3. CASE x = "weddingDate" /\ ~f["weddingDate"] /\ e["weddingDate"]
  <2>1. ~g["weddingDate"]
    BY <1>1, <1>2, <1>3
  <2> QED BY <1>3, <2>1 DEF camposFaltantesParaPublicar, g
<1>4. CASE x = "totalBudget" /\ ~f["totalBudget"] /\ e["totalBudget"]
  <2>1. ~g["totalBudget"]
    BY <1>1, <1>2, <1>4
  <2> QED BY <1>4, <2>1 DEF camposFaltantesParaPublicar, g
<1>5. CASE x = "venue" /\ f.venue # "valor" /\ e.venue = "valor"
  <2>1. g.venue # "valor"
    BY <1>1, <1>2, <1>5
  <2> QED BY <1>5, <2>1 DEF camposFaltantesParaPublicar, g
<1> QED BY <1>3, <1>4, <1>5 DEF camposFaltantesParaPublicar, f

LEMMA LossStep == EInv /\ EInv' /\ [EventsNext]_eventsVars =>
  (Publicado =>
     LET perdidos == camposFaltantesParaPublicar(evento') \ camposFaltantesParaPublicar(evento)
     IN perdidos # {} =>
          /\ "weddingDate" \notin perdidos
          /\ \E s \in Solicitudes :
               /\ solicitud[s].pc = "editar" /\ solicitud'[s].pc = "libre"
               /\ \/ solicitud[s].leido.status = "DRAFT"
                  \/ perdidos \subseteq camposFaltantesParaPublicar(solicitud[s].leido))
<1> DEFINE perdidos == camposFaltantesParaPublicar(evento') \ camposFaltantesParaPublicar(evento)
<1> SUFFICES ASSUME EInv, EInv', [EventsNext]_eventsVars, Publicado, perdidos # {}
    PROVE  /\ "weddingDate" \notin perdidos
           /\ \E s \in Solicitudes :
                /\ solicitud[s].pc = "editar" /\ solicitud'[s].pc = "libre"
                /\ \/ solicitud[s].leido.status = "DRAFT"
                   \/ perdidos \subseteq camposFaltantesParaPublicar(solicitud[s].leido)
  OBVIOUS
<1>1. evento' # evento
  OBVIOUS
<1>2. \A s \in Solicitudes : ~PublicarEscribir(s)
  BY <1>1 DEF PublicarEscribir, publicarSiCompleto, Publicado
<1>3. PICK s \in Solicitudes : EditarEscribir(s)
  BY <1>1, <1>2, OnlyTwoWritersPublish
<1> DEFINE c == solicitud[s].cambios
           leido == solicitud[s].leido
<1>4. /\ c \in CambiosEvento /\ leido \in FilaEvento /\ evento \in FilaEvento
      /\ leido.status \in {"DRAFT", "ACTIVE"}
      /\ solicitud[s].pc = "editar" /\ solicitud'[s].pc = "libre"
      /\ evento' = columnas(evento, c) /\ AdmiteEvento(evento')
      /\ leido.status = "ACTIVE" => camposFaltantesParaPublicar(columnas(leido, c))
                                      \ camposFaltantesParaPublicar(leido) = {}
  BY <1>1, <1>3, PatchWrites DEF Existente
<1>5. "weddingDate" \notin camposFaltantesParaPublicar(evento')
  <2>1. evento'.status = "ACTIVE"
    BY <1>4, PatchTypes DEF Publicado
  <2>2. evento'["weddingDate"]
    BY <1>4, <2>1 DEF AdmiteEvento
  <2> QED BY <2>2 DEF camposFaltantesParaPublicar
<1>6. ASSUME leido.status = "ACTIVE", NEW x \in perdidos
      PROVE  x \in camposFaltantesParaPublicar(leido)
  <2>1. x \in camposFaltantesParaPublicar(columnas(leido, c))
    BY <1>4, EmptiesEveryRow
  <2> QED BY <1>4, <1>6, <2>1
<1> QED BY <1>4, <1>5, <1>6

\* A published event loses a field it had only to a PATCH that read it as a
\* draft, or that read the field empty already; its date, never.
THEOREM StalePatchOnly == EventsSpec => LosesFieldsOnlyToStalePatch
<1>1. EInv /\ EInv' /\ [EventsNext]_eventsVars =>
        [Publicado =>
           LET perdidos == camposFaltantesParaPublicar(evento') \ camposFaltantesParaPublicar(evento)
           IN perdidos # {} =>
                /\ "weddingDate" \notin perdidos
                /\ \E s \in Solicitudes :
                     /\ solicitud[s].pc = "editar" /\ solicitud'[s].pc = "libre"
                     /\ \/ solicitud[s].leido.status = "DRAFT"
                        \/ perdidos \subseteq
                             camposFaltantesParaPublicar(solicitud[s].leido)]_eventsVars
  BY LossStep
<1> QED BY <1>1, EventsInv, PTL DEF EventsSpec, LosesFieldsOnlyToStalePatch

-----------------------------------------------------------------------------
(* Access *)

\* What each outcome is told as.
LEMMA Answers ==
  /\ traducir("ok") = 200 /\ traducir("NotFoundError") = 404
  /\ traducir("ForbiddenError") = 403
<1>1. DOMAIN httpStatus = {"NotFoundError", "ForbiddenError", "UnauthorizedError",
                           "ConflictError", "UnprocessableError"}
  BY DEF httpStatus
<1>2. httpStatus["NotFoundError"] = 404 /\ httpStatus["ForbiddenError"] = 403
  BY DEF httpStatus
<1> QED BY <1>1, <1>2 DEF traducir

\* A list that was declared, and one that admits vendors.
Declarada(L) == "sin lista" \notin L
AdmiteVendors(L) == "VENDOR" \in L

\* Every route has a list, and only those of the event itself admit vendors.
LEMMA RouteLists ==
  /\ DOMAIN RutasEvents = {"verEvento", "editarEvento", "publicarEvento", "invitarMiembro"}
  /\ {"COUPLE", "PLANNER"} \subseteq RutasEvents["verEvento"]
  /\ \A rutas \in Controladores :
       /\ DOMAIN rutas # {}
       /\ \A r \in DOMAIN rutas :
            /\ Declarada(rutas[r])
            /\ AdmiteVendors(rutas[r]) <=> rutas = RutasEvents /\ r = "verEvento"
<1>1. /\ DOMAIN RutasEvents = {"verEvento", "editarEvento", "publicarEvento", "invitarMiembro"}
      /\ RutasEvents["verEvento"] = {"COUPLE", "PLANNER", "VENDOR"}
      /\ RutasEvents["editarEvento"] = {"COUPLE", "PLANNER"}
      /\ RutasEvents["publicarEvento"] = {"COUPLE", "PLANNER"}
      /\ RutasEvents["invitarMiembro"] = {"COUPLE"}
  BY DEF RutasEvents, Planificadores
<1>2. \A r \in DOMAIN RutasEvents :
        Declarada(RutasEvents[r]) /\ (AdmiteVendors(RutasEvents[r]) <=> r = "verEvento")
  BY <1>1 DEF Declarada, AdmiteVendors
<1>3. ASSUME NEW S, NEW x \in S
      PROVE  /\ DOMAIN Todas(S) # {}
             /\ \A r \in DOMAIN Todas(S) : Todas(S)[r] = {"COUPLE", "PLANNER"}
  BY <1>3 DEF Todas, Planificadores
<1>4. /\ "distribucion" \in {"distribucion", "generarMesas", "crearMesa", "editarMesa",
                             "borrarMesa", "vaciarAsiento", "asignarAsiento"}
      /\ "listarGastos" \in {"listarGastos", "crearGasto", "editarGasto", "borrarGasto", "verResumen"}
      /\ "listarVendors" \in {"listarVendors", "agregarVendor", "actualizarVendor", "eliminarVendor"}
      /\ "listarItems" \in {"listarItems", "crearItem", "editarItem", "borrarItem"}
      /\ "listarInvitados" \in {"listarInvitados", "resumenDeInvitados", "crearInvitado",
                      "importarInvitados", "enviarTodas", "enviarUna", "verInvitado",
                      "actualizarInvitado", "eliminarInvitado"}
      /\ "listarNotificaciones" \in {"listarNotificaciones", "marcarLeida"}
  OBVIOUS
<1>5. ASSUME NEW rutas \in Controladores, rutas # RutasEvents
      PROVE  \E S : S # {} /\ rutas = Todas(S)
  BY <1>4, <1>5 DEF Controladores, RutasSeating, RutasExpenses, RutasVendors, RutasSchedule,
                    RutasGuests, RutasNotifications
<1>6. ASSUME NEW rutas \in Controladores, rutas # RutasEvents
      PROVE  /\ DOMAIN rutas # {}
             /\ \A r \in DOMAIN rutas : Declarada(rutas[r]) /\ ~AdmiteVendors(rutas[r])
  <2>1. DOMAIN rutas # {} /\ \A r \in DOMAIN rutas : rutas[r] = {"COUPLE", "PLANNER"}
    BY <1>3, <1>5, <1>6
  <2>2. Declarada({"COUPLE", "PLANNER"}) /\ ~AdmiteVendors({"COUPLE", "PLANNER"})
    BY DEF Declarada, AdmiteVendors
  <2> QED BY <2>1, <2>2
<1>7. DOMAIN RutasEvents # {} /\ {"COUPLE", "PLANNER"} \subseteq RutasEvents["verEvento"]
  BY <1>1
<1>8. ASSUME NEW rutas \in Controladores
      PROVE  /\ DOMAIN rutas # {}
             /\ \A r \in DOMAIN rutas :
                  /\ Declarada(rutas[r])
                  /\ AdmiteVendors(rutas[r]) <=> rutas = RutasEvents /\ r = "verEvento"
  <2>1. CASE rutas = RutasEvents
    BY <1>2, <1>7, <2>1
  <2>2. CASE rutas # RutasEvents
    BY <1>6, <2>2
  <2> QED BY <2>1, <2>2
<1> QED BY <1>1, <1>7, <1>8

\* The three accesses of a user who is no admin.
Tiene(a, m, c, p) == a = resolve(FALSE, m, c, p)

LEMMA Accesses ==
  ASSUME NEW m \in Membresia, NEW c \in Contratacion, NEW p \in BOOLEAN,
         NEW a, Tiene(a, m, c, p)
  PROVE  /\ a.kind = "none" => ~listado(m, c, p)
         /\ a.kind # "none" => listado(m, c, p)
         /\ a.kind = "vendor" => p = TRUE
         /\ a.kind \notin {"none", "vendor"} => a.kind = "member" /\ a.role \in {"COUPLE", "PLANNER"}
<1>1. CASE m.status = "ACTIVE"
  <2>1. a = [kind |-> "member", role |-> m.role] /\ listado(m, c, p)
    BY <1>1 DEF Tiene, resolve, listado, buscarMembresiaActiva
  <2>2. a.kind = "member" /\ a.role \in {"COUPLE", "PLANNER"}
    BY <2>1 DEF Membresia
  <2>3. listado(m, c, p)
    BY <2>1
  <2> QED BY <2>2, <2>3
<1>2. CASE m.status # "ACTIVE" /\ c = "BOOKED" /\ p
  <2>1. a = [kind |-> "vendor"] /\ listado(m, c, p)
    BY <1>2 DEF Tiene, resolve, listado, buscarMembresiaActiva, buscarContratacionReservada
  <2>2. a.kind = "vendor"
    BY <2>1
  <2>3. listado(m, c, p)
    BY <2>1
  <2> QED BY <1>2, <2>2, <2>3
<1>3. CASE m.status # "ACTIVE" /\ ~(c = "BOOKED" /\ p)
  <2>1. a = [kind |-> "none"] /\ ~listado(m, c, p)
    BY <1>3 DEF Tiene, resolve, listado, buscarMembresiaActiva, buscarContratacionReservada
  <2>2. a.kind = "none"
    BY <2>1
  <2>3. ~listado(m, c, p)
    BY <2>1
  <2> QED BY <2>2, <2>3
<1> QED BY <1>1, <1>2, <1>3

\* The answer of a request that is well made, by the access of the user.
LEMMA AnswerOfAccess ==
  ASSUME NEW L, Declarada(L), NEW m, NEW c, NEW p, NEW a, Tiene(a, m, c, p)
  PROVE  /\ a.kind = "none" => respuesta(Correcta, "USER", L, m, c, p) = 404
         /\ a.kind = "vendor" /\ AdmiteVendors(L) => respuesta(Correcta, "USER", L, m, c, p) = 200
         /\ a.kind = "vendor" /\ ~AdmiteVendors(L) => respuesta(Correcta, "USER", L, m, c, p) = 403
         /\ a.kind = "member" /\ a.role \in L => respuesta(Correcta, "USER", L, m, c, p) = 200
<1>1. /\ Correcta.cuerpo = "bueno" /\ Correcta.cabecera = "Bearer" /\ Correcta.token = "valido"
      /\ Correcta.role = "USER" /\ Correcta.uuid = TRUE
  BY DEF Correcta
<1>2. JwtAuthGuard(Correcta, "USER") = "USER"
  BY <1>1 DEF JwtAuthGuard, autenticarAccessToken, verificarAccess, ROLES_VALIDOS
<1>a. PICK v : v = canActivate(L, TRUE, a)
  OBVIOUS
<1>3. respuesta(Correcta, "USER", L, m, c, p) = traducir(v)
  <2>1. "USER" \in ROLES_VALIDOS /\ ("USER" = "ADMIN") = FALSE
    BY DEF ROLES_VALIDOS
  <2> QED BY <1>a, <1>1, <1>2, <2>1 DEF respuesta, Tiene
<1>4. a.kind = "none" => v = "NotFoundError"
  BY <1>a DEF Declarada, AdmiteVendors, canActivate, tieneAlgunAcceso
<1>5. a.kind = "vendor" /\ AdmiteVendors(L) => v = "ok"
  BY <1>a DEF Declarada, AdmiteVendors, canActivate, tieneAlgunAcceso, etiquetaDe
<1>6. a.kind = "vendor" /\ ~AdmiteVendors(L) => v = "ForbiddenError"
  BY <1>a DEF Declarada, AdmiteVendors, canActivate, tieneAlgunAcceso, etiquetaDe
<1>7. a.kind = "member" /\ a.role \in L => v = "ok"
  BY <1>a DEF Declarada, AdmiteVendors, canActivate, tieneAlgunAcceso, etiquetaDe
<1>8. a.kind = "none" => respuesta(Correcta, "USER", L, m, c, p) = 404
  BY <1>3, <1>4, Answers
<1>9. a.kind = "vendor" /\ AdmiteVendors(L) => respuesta(Correcta, "USER", L, m, c, p) = 200
  BY <1>3, <1>5, Answers
<1>10. a.kind = "vendor" /\ ~AdmiteVendors(L) => respuesta(Correcta, "USER", L, m, c, p) = 403
  BY <1>3, <1>6, Answers
<1>11. a.kind = "member" /\ a.role \in L => respuesta(Correcta, "USER", L, m, c, p) = 200
  BY <1>3, <1>7, Answers
<1> QED BY <1>8, <1>9, <1>10, <1>11

\* Neither the event nor the role in the token shows in what an outsider gets.
LEMMA NothingTold == TellsNothing
<1> SUFFICES ASSUME NEW q \in Peticion, NEW fila \in Usuario,
                    NEW L, Declarada(L)
             PROVE  /\ fila # "ADMIN" =>
                         respuesta(q, fila, L, SinMembresia, "SHORTLISTED", TRUE)
                         = respuesta([q EXCEPT !.uuid = FALSE], fila, L, SinMembresia, "NINGUNA", TRUE)
                    /\ JwtAuthGuard(q, fila) \notin ROLES_VALIDOS =>
                         respuesta(q, fila, L, SinMembresia, "BOOKED", TRUE)
                         = respuesta([q EXCEPT !.uuid = FALSE], fila, L, SinMembresia, "NINGUNA", TRUE)
                    /\ q.role \in ROLES_VALIDOS =>
                         \A role \in ROLES_VALIDOS :
                           respuesta([q EXCEPT !.role = role], fila, L, SinMembresia, "BOOKED", TRUE)
                           = respuesta(q, fila, L, SinMembresia, "BOOKED", TRUE)
  <2>1. ASSUME NEW L \in UNION {{r[x] : x \in DOMAIN r} : r \in Controladores}
        PROVE  Declarada(L)
    BY RouteLists
  <2> QED BY <2>1 DEF TellsNothing
<1>1. PICK a : a = [q EXCEPT !.uuid = FALSE]
  OBVIOUS
<1>2. /\ a.cuerpo = q.cuerpo /\ a.cabecera = q.cabecera /\ a.token = q.token /\ a.role = q.role
      /\ a.uuid = FALSE
  BY <1>1 DEF Peticion
<1>3. JwtAuthGuard(a, fila) = JwtAuthGuard(q, fila)
  BY <1>2 DEF JwtAuthGuard, autenticarAccessToken, verificarAccess
<1>4. \A c \in {"SHORTLISTED", "NINGUNA"} : resolve(FALSE, SinMembresia, c, TRUE) = [kind |-> "none"]
  BY DEF resolve, SinMembresia, buscarMembresiaActiva, buscarContratacionReservada
<1>5. \A u \in BOOLEAN : canActivate(L, u, [kind |-> "none"]) = "NotFoundError"
  BY DEF Declarada, canActivate, tieneAlgunAcceso
<1>6. ASSUME fila # "ADMIN"
      PROVE  respuesta(q, fila, L, SinMembresia, "SHORTLISTED", TRUE)
             = respuesta(a, fila, L, SinMembresia, "NINGUNA", TRUE)
  <2>1. (JwtAuthGuard(q, fila) = "ADMIN") = FALSE
    BY <1>6 DEF JwtAuthGuard, autenticarAccessToken, Usuario, ROLES_VALIDOS
  <2>2. q.uuid \in BOOLEAN
    BY DEF Peticion
  <2> QED BY <1>2, <1>3, <1>4, <1>5, <2>1, <2>2 DEF respuesta
<1>7. ASSUME JwtAuthGuard(q, fila) \notin ROLES_VALIDOS
      PROVE  respuesta(q, fila, L, SinMembresia, "BOOKED", TRUE)
             = respuesta(a, fila, L, SinMembresia, "NINGUNA", TRUE)
  BY <1>2, <1>3, <1>7 DEF respuesta
<1>8. ASSUME q.role \in ROLES_VALIDOS, NEW role \in ROLES_VALIDOS
      PROVE  respuesta([q EXCEPT !.role = role], fila, L, SinMembresia, "BOOKED", TRUE)
             = respuesta(q, fila, L, SinMembresia, "BOOKED", TRUE)
  <2>1. PICK b : b = [q EXCEPT !.role = role]
    OBVIOUS
  <2>2. /\ b.cuerpo = q.cuerpo /\ b.cabecera = q.cabecera /\ b.token = q.token /\ b.role = role
        /\ b.uuid = q.uuid
    BY <2>1 DEF Peticion
  <2>3. JwtAuthGuard(b, fila) = JwtAuthGuard(q, fila)
    BY <1>8, <2>2 DEF JwtAuthGuard, autenticarAccessToken, verificarAccess
  <2>4. respuesta(b, fila, L, SinMembresia, "BOOKED", TRUE)
        = respuesta(q, fila, L, SinMembresia, "BOOKED", TRUE)
    BY <2>2, <2>3 DEF respuesta
  <2> QED BY <2>1, <2>4
<1> QED BY <1>1, <1>6, <1>7, <1>8

LEMMA AccessOfRows == EInv => AccessAgrees
<1> SUFFICES ASSUME EInv, NEW u \in Usuarios
             PROVE  LET estado(permitidos) == respuesta(Correcta, "USER", permitidos, membresia[u],
                                                        contratacion[u], Publicado)
                        respuestas(rutas) == {estado(rutas[r]) : r \in DOMAIN rutas}
                        propias == {r \in DOMAIN RutasEvents : estado(RutasEvents[r]) = 200}
                    IN /\ listado(membresia[u], contratacion[u], Publicado) <=> tieneAlgunAcceso(AccesoDe(u))
                       /\ IF AccesoDe(u).kind = "none"
                          THEN \A rutas \in Controladores : respuestas(rutas) = {404}
                          ELSE "verEvento" \in propias
                       /\ AccesoDe(u).kind = "vendor" =>
                            /\ propias = {"verEvento"} /\ Publicado
                            /\ \A rutas \in Controladores \ {RutasEvents} : respuestas(rutas) = {403}
                       /\ TellsNothing
  BY DEF AccessAgrees
<1>1. membresia[u] \in Membresia /\ contratacion[u] \in Contratacion
  BY DEF EInv, FilasOK
<1>a. PICK a : a = AccesoDe(u)
  OBVIOUS
<1>2. PICK m \in Membresia, c \in Contratacion, p \in BOOLEAN :
        /\ m = membresia[u] /\ c = contratacion[u] /\ p = Publicado /\ a = AccesoDe(u)
        /\ Tiene(a, m, c, p)
  <2>1. PICK p \in BOOLEAN : p = Publicado
    BY DEF Publicado
  <2>2. Tiene(AccesoDe(u), membresia[u], contratacion[u], p)
    BY <2>1 DEF AccesoDe, Tiene
  <2> QED BY <1>1, <1>a, <2>1, <2>2
<1> DEFINE estado(L) == respuesta(Correcta, "USER", L, m, c, p)
           respuestas(rutas) == {estado(rutas[r]) : r \in DOMAIN rutas}
           propias == {r \in DOMAIN RutasEvents : estado(RutasEvents[r]) = 200}
<1>3. /\ a.kind = "none" => ~listado(m, c, p)
      /\ a.kind # "none" => listado(m, c, p)
      /\ a.kind = "vendor" => p = TRUE
      /\ a.kind \notin {"none", "vendor"} => a.kind = "member" /\ a.role \in {"COUPLE", "PLANNER"}
  BY <1>2, Accesses
<1>4. ASSUME NEW L, Declarada(L)
      PROVE  /\ a.kind = "none" => estado(L) = 404
             /\ a.kind = "vendor" /\ AdmiteVendors(L) => estado(L) = 200
             /\ a.kind = "vendor" /\ ~AdmiteVendors(L) => estado(L) = 403
             /\ a.kind = "member" /\ a.role \in L => estado(L) = 200
  BY <1>2, <1>4, AnswerOfAccess
<1> HIDE DEF estado
<1>5. RutasEvents \in Controladores
  BY DEF Controladores
<1>6. ASSUME a.kind = "none", NEW rutas \in Controladores PROVE respuestas(rutas) = {404}
  <2>1. \A r \in DOMAIN rutas : estado(rutas[r]) = 404
    BY <1>4, <1>6, RouteLists
  <2>2. DOMAIN rutas # {}
    BY RouteLists
  <2> QED BY <2>1, <2>2
<1>7. ASSUME a.kind = "vendor", NEW rutas \in Controladores, rutas # RutasEvents
      PROVE  respuestas(rutas) = {403}
  <2>1. \A r \in DOMAIN rutas : estado(rutas[r]) = 403
    BY <1>4, <1>7, RouteLists
  <2>2. DOMAIN rutas # {}
    BY RouteLists
  <2> QED BY <2>1, <2>2
<1>8. a.kind # "none" => "verEvento" \in propias
  <2>1. /\ "verEvento" \in DOMAIN RutasEvents /\ Declarada(RutasEvents["verEvento"])
        /\ AdmiteVendors(RutasEvents["verEvento"])
        /\ {"COUPLE", "PLANNER"} \subseteq RutasEvents["verEvento"]
    BY <1>5, RouteLists
  <2>2. a.kind = "vendor" => estado(RutasEvents["verEvento"]) = 200
    BY <1>4, <2>1
  <2>3. a.kind = "member" /\ a.role \in {"COUPLE", "PLANNER"} => estado(RutasEvents["verEvento"]) = 200
    BY <1>4, <2>1
  <2> QED BY <1>3, <2>1, <2>2, <2>3
<1>9. ASSUME a.kind = "vendor" PROVE propias = {"verEvento"}
  <2>1. \A r \in DOMAIN RutasEvents : r # "verEvento" => estado(RutasEvents[r]) = 403
    BY <1>4, <1>5, <1>9, RouteLists
  <2>2. "verEvento" \in propias
    BY <1>8, <1>9
  <2> QED BY <2>1, <2>2
<1>10. tieneAlgunAcceso(a) <=> a.kind # "none"
  BY DEF tieneAlgunAcceso
<1> QED BY <1>2, <1>3, <1>6, <1>7, <1>8, <1>9, <1>10, NothingTold DEF estado

\* The list of events and the guard of the routes agree on who has access, a
\* vendor reaches the published event and nothing under it, and an outsider
\* learns nothing, for any number of users, requests and changes.
THEOREM ListAgreesWithGuard == EventsSpec => []AccessAgrees
<1> QED BY EventsInv, AccessOfRows, PTL
=============================================================================
