------------------------------- MODULE Events -------------------------------
(***************************************************************************)
(* One event of the platform (src/src/modules/events): its creation with   *)
(* the membership of its owner, its edition and publication, and the       *)
(* invitation of members.  A use case reads, decides and writes in         *)
(* separate statements, so two requests interleave between them.           *)
(*                                                                         *)
(* The columns are reduced to whether they hold a value.  Nothing under    *)
(* src/ accepts an invitation or expels a member: those changes of a       *)
(* membership, and the vendor's contract, come from outside the module.    *)
(***************************************************************************)
EXTENDS EventAccess, TLC

CONSTANTS Usuarios,       \* users, the owner among them
          Dueno,          \* the user who creates the event
          Solicitudes,    \* concurrent requests to the event
          Cambios,        \* the PATCH bodies considered, a subset of CambiosEvento
          MaxPeticiones   \* bound of the requests and outside changes

CamposEvento == {"weddingDate", "totalBudget", "venue"}

\* A field is absent, null or given.
CambiosEvento == [CamposEvento -> {"undefined", "null", "valor"}]

ASSUME SupuestosEvento ==
  /\ Dueno \in Usuarios /\ Cambios \subseteq CambiosEvento
  /\ MaxPeticiones \in Nat

VARIABLES
  evento,        \* the row of events
  membresia,     \* event_memberships, by user
  contratacion,  \* the user's row of event_vendors
  correos,       \* jobs event-invite-<membership> ever queued, with their role
  solicitud,     \* state of each request
  restan         \* requests and outside changes still to come

eventsVars == <<evento, membresia, contratacion, correos, solicitud, restan>>

\* A venue may be an address without coordinates, migrated from venueLocation.
FilaEvento == [status: {"NO_EXISTE", "DRAFT", "ACTIVE"}, weddingDate: BOOLEAN,
               totalBudget: BOOLEAN, venue: {"null", "direccion", "valor"}]
SinEvento == [status |-> "NO_EXISTE", weddingDate |-> FALSE, totalBudget |-> FALSE,
              venue |-> "null"]
Migrado == [status |-> "ACTIVE", weddingDate |-> TRUE, totalBudget |-> FALSE,
            venue |-> "direccion"]
SinSolicitud == [pc |-> "libre", leido |-> SinEvento, cambios |-> << >>, u |-> Dueno,
                 role |-> "PLANNER"]

Publicado == evento.status = "ACTIVE"

\* aDominio: a venue needs its coordinates.
camposFaltantesParaPublicar(e) ==
  {c \in {"weddingDate", "totalBudget"} : ~e[c]}
    \cup {c \in {"venue"} : e.venue # "valor"}

\* The row after a PATCH.
columnas(e, c) ==
  [e EXCEPT !.weddingDate = IF c.weddingDate = "undefined" THEN @ ELSE c.weddingDate = "valor",
            !.totalBudget = IF c.totalBudget = "undefined" THEN @ ELSE c.totalBudget = "valor",
            !.venue = IF c.venue = "undefined" THEN @ ELSE c.venue]

\* events_activo_con_fecha, a CHECK: DRAFT, or with a date.
AdmiteEvento(e) == e.status = "DRAFT" \/ e.weddingDate

AccesoDe(u) == resolve(FALSE, membresia[u], contratacion[u], Publicado)

\* An event that does not exist, or one published before drafts existed.
EventsInit ==
  /\ restan \in {0, MaxPeticiones}
  /\ evento \in IF restan = 0 THEN {SinEvento} ELSE {SinEvento, Migrado}
  /\ membresia = [u \in Usuarios |-> IF evento # SinEvento /\ u = Dueno
                                     THEN [status |-> "ACTIVE", role |-> "COUPLE"]
                                     ELSE SinMembresia]
  /\ contratacion = [u \in Usuarios |-> "NINGUNA"]
  /\ correos = {}
  /\ solicitud = [s \in Solicitudes |-> SinSolicitud]

Usar == restan > 0 /\ restan' = restan - 1
Terminar(s) == solicitud' = [solicitud EXCEPT ![s] = SinSolicitud]
\* A request that passed the guard starts its use case.
Empezar(s, u, ruta, e) ==
  /\ solicitud[s].pc = "libre" /\ evento # SinEvento
  /\ canActivate(RutasEvents[ruta], TRUE, AccesoDe(u)) = "ok"
  /\ solicitud' = [solicitud EXCEPT ![s] = e]
deMiembros == <<membresia, contratacion, correos>>

-----------------------------------------------------------------------------
\* CreateEventUseCase: the event and its owner's membership, in one transaction.
CrearConMembresia(c) ==
  /\ evento = SinEvento /\ Usar
  /\ evento' = columnas([SinEvento EXCEPT !.status = "DRAFT"], c)
  /\ membresia' = [membresia EXCEPT ![Dueno] = [status |-> "ACTIVE", role |-> "COUPLE"]]
  /\ UNCHANGED <<contratacion, correos, solicitud>>

\* UpdateEventUseCase: what it reads ...
Editar(s, u, c) ==
  /\ Usar
  /\ Empezar(s, u, "editarEvento",
             [SinSolicitud EXCEPT !.pc = "editar", !.leido = evento, !.cambios = c])
  /\ UNCHANGED <<evento, deMiembros>>

\* Mutant: an event that was published is emptied like a draft.
EditarSinReglas(s) ==
  LET fila == columnas(evento, solicitud[s].cambios)
  IN /\ solicitud[s].pc = "editar"
     /\ evento' = IF AdmiteEvento(fila) THEN fila ELSE evento
     /\ Terminar(s)
     /\ UNCHANGED <<deMiembros, restan>>

\* ... and what it writes, whatever the event is by then.  Of an event it read
\* ACTIVE it takes away no field; the CHECK rejects the rest of the mistakes.
EditarEscribir(s) ==
  LET leido == solicitud[s].leido
      nuevos == camposFaltantesParaPublicar(columnas(leido, solicitud[s].cambios))
                  \ camposFaltantesParaPublicar(leido)
      fila == columnas(evento, solicitud[s].cambios)
  IN /\ solicitud[s].pc = "editar"
     /\ evento' = IF (leido.status = "ACTIVE" /\ nuevos # {}) \/ ~AdmiteEvento(fila)
                  THEN evento ELSE fila
     /\ Terminar(s)
     /\ UNCHANGED <<deMiembros, restan>>

\* PublishEventUseCase, up to its check.
Publicar(s, u) ==
  /\ Usar
  /\ evento.status = "DRAFT" /\ camposFaltantesParaPublicar(evento) = {}
  /\ Empezar(s, u, "publicarEvento", [SinSolicitud EXCEPT !.pc = "publicar", !.leido = evento])
  /\ UNCHANGED <<evento, deMiembros>>

\* Mutant: the write trusts the check that was made before it.
publicarSiBorrador(e) == e.status = "DRAFT" /\ e.weddingDate

\* The WHERE of publicarSiCompleto, which repeats the check.
publicarSiCompleto(e) ==
  e.status = "DRAFT" /\ e.weddingDate /\ e.totalBudget /\ e.venue = "valor"
PublicarEscribir(s) ==
  /\ solicitud[s].pc = "publicar"
  /\ evento' = IF publicarSiCompleto(evento) THEN [evento EXCEPT !.status = "ACTIVE"] ELSE evento
  /\ Terminar(s)
  /\ UNCHANGED <<deMiembros, restan>>

\* Mutant: whoever is a member can be invited again.
InvitarACualquiera(s, u, invitado, role) ==
  /\ Usar
  /\ Empezar(s, u, "invitarMiembro",
             [SinSolicitud EXCEPT !.pc = "invitar", !.u = invitado, !.role = role])
  /\ UNCHANGED <<evento, deMiembros>>

\* InviteMemberUseCase: nobody who is a member or is invited already ...
Invitar(s, u, invitado, role) ==
  /\ Usar
  /\ membresia[invitado].status \in {"NINGUNA", "REVOKED"}
  /\ Empezar(s, u, "invitarMiembro",
             [SinSolicitud EXCEPT !.pc = "invitar", !.u = invitado, !.role = role])
  /\ UNCHANGED <<evento, deMiembros>>

\* ... by the read that came before the upsert of the membership ...
invitarMiembro(s) ==
  /\ solicitud[s].pc = "invitar"
  /\ membresia' = [membresia EXCEPT ![solicitud[s].u] =
                     [status |-> "INVITED", role |-> solicitud[s].role]]
  /\ solicitud' = [solicitud EXCEPT ![s].pc = "encolar"]
  /\ UNCHANGED <<evento, contratacion, correos, restan>>

\* ... and of its mail.  BullMQ keeps one job per membership.
EncolarInvitacion(s) ==
  LET u == solicitud[s].u
  IN /\ solicitud[s].pc = "encolar"
     /\ correos' = IF \E j \in correos : j[1] = u THEN correos
                   ELSE correos \cup {<<u, solicitud[s].role>>}
     /\ Terminar(s)
     /\ UNCHANGED <<evento, membresia, contratacion, restan>>

\* The process dies before it writes or queues, or the queue rejects the job.
CaeSolicitud(s) ==
  /\ solicitud[s].pc # "libre"
  /\ Terminar(s)
  /\ UNCHANGED <<evento, deMiembros, restan>>

\* A member accepts or is expelled.
CambiarMembresia(u, estado) ==
  /\ Usar /\ u # Dueno /\ membresia[u].status \in {"INVITED", "ACTIVE"}
  /\ estado \in {"ACTIVE", "REVOKED"} \ {membresia[u].status}
  /\ membresia' = [membresia EXCEPT ![u].status = estado]
  /\ UNCHANGED <<evento, contratacion, correos, solicitud>>

\* The planners hire the user as a vendor, or cancel.
CambiarContratacion(u, estado) ==
  /\ Usar /\ evento # SinEvento /\ contratacion[u] # estado
  /\ contratacion' = [contratacion EXCEPT ![u] = estado]
  /\ UNCHANGED <<evento, membresia, correos, solicitud>>

EventsNext ==
  \/ \E c \in Cambios : CrearConMembresia(c)
  \/ \E s \in Solicitudes :
       \/ \E u \in Usuarios, c \in Cambios : Editar(s, u, c)
       \/ \E u \in Usuarios : Publicar(s, u)
       \/ \E u, v \in Usuarios, role \in Planificadores : Invitar(s, u, v, role)
       \/ EditarEscribir(s) \/ PublicarEscribir(s) \/ invitarMiembro(s)
       \/ EncolarInvitacion(s) \/ CaeSolicitud(s)
  \/ \E u \in Usuarios : \E estado \in {"ACTIVE", "REVOKED"} : CambiarMembresia(u, estado)
  \/ \E u \in Usuarios : \E estado \in Contratacion \ {"NINGUNA"} : CambiarContratacion(u, estado)

EventsSpec == EventsInit /\ [][EventsNext]_eventsVars

-----------------------------------------------------------------------------
(* Properties *)

EventsTypeOK ==
  /\ evento \in FilaEvento
  /\ membresia \in [Usuarios -> Membresia]
  /\ contratacion \in [Usuarios -> Contratacion]
  /\ \A s \in Solicitudes : /\ solicitud[s].leido \in FilaEvento
                            /\ solicitud[s].u \in Usuarios
                            /\ solicitud[s].pc \in {"libre", "editar", "publicar", "invitar",
                                                    "encolar"}

\* The event leaves the draft only complete, whatever was emptied between the
\* check of PublishEventUseCase and its write, and never goes back.
PublishesOnlyComplete ==
  [][/\ Publicado => Publicado'
     /\ ~Publicado /\ Publicado' => camposFaltantesParaPublicar(evento') = {}]_eventsVars

\* A published event loses a field it had only to a PATCH with a stale reading
\* (of a draft, or of an event that lacked the field), and never its date.
LosesFieldsOnlyToStalePatch ==
  [][Publicado =>
       LET perdidos == camposFaltantesParaPublicar(evento') \ camposFaltantesParaPublicar(evento)
       IN perdidos # {} =>
            /\ "weddingDate" \notin perdidos
            /\ \E s \in Solicitudes :
                 /\ solicitud[s].pc = "editar" /\ solicitud'[s].pc = "libre"
                 /\ \/ solicitud[s].leido.status = "DRAFT"
                    \/ perdidos \subseteq camposFaltantesParaPublicar(solicitud[s].leido)]_eventsVars

\* An event is never left without its owner: the membership born with it stays
\* COUPLE and ACTIVE, since EventAccessService looks at memberships and not at
\* ownerId.
OwnerKeepsAccess ==
  evento # SinEvento => AccesoDe(Dueno) = [kind |-> "member", role |-> "COUPLE"]

\* The list of GET /events and the guard agree: no event is listed and then
\* answers 404, and none answers without being listed.  A user who only works
\* for the event reaches nothing but the event itself; someone without access
\* gets, on every route, the 404 of an event that does not exist; and whatever
\* the token and the database, those who have none are told nothing of it.
\* Of users only: an ADMIN passes the guard of every event and is not listed.
AccessAgrees ==
  evento # SinEvento => \A u \in Usuarios :
    LET estado(permitidos) == respuesta(Correcta, "USER", permitidos, membresia[u],
                                        contratacion[u], Publicado)
        respuestas(rutas) == {estado(rutas[r]) : r \in DOMAIN rutas}
        propias == {r \in DOMAIN RutasEvents : estado(RutasEvents[r]) = 200}
    IN /\ listado(membresia[u], contratacion[u], Publicado) <=> tieneAlgunAcceso(AccesoDe(u))
       /\ IF AccesoDe(u).kind = "none"
          THEN \A rutas \in Controladores : respuestas(rutas) = {404}
          ELSE "verEvento" \in propias
       /\ AccesoDe(u).kind = "vendor" =>
            /\ propias = {"verEvento"} /\ Publicado
            /\ \A rutas \in Controladores \ {RutasEvents} : respuestas(rutas) = {403}
       /\ TellsNothing
=============================================================================
