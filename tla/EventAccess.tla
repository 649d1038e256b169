----------------------------- MODULE EventAccess -----------------------------
(***************************************************************************)
(* Who may do what in an event (src/src/modules/events): the access of a   *)
(* user, resolved from a membership and a contract, the guard of the HTTP  *)
(* routes and the list each route declares.  The socket gateway resolves   *)
(* access with the same service.                                           *)
(***************************************************************************)
EXTENDS Integers, FiniteSets

Membresia == [status: {"NINGUNA", "INVITED", "ACTIVE", "REVOKED"}, role: {"COUPLE", "PLANNER"}]
Contratacion == {"NINGUNA", "SHORTLISTED", "BOOKED", "CANCELLED"}

SinMembresia == [status |-> "NINGUNA", role |-> "PLANNER"]

buscarMembresiaActiva(m) == m.status = "ACTIVE"

\* Only of an event that is published: vendors are not shown a draft.
buscarContratacionReservada(c, publicado) == c = "BOOKED" /\ publicado

resolve(admin, m, c, publicado) ==
  IF admin THEN [kind |-> "admin"]
  ELSE IF buscarMembresiaActiva(m) THEN [kind |-> "member", role |-> m.role]
  ELSE IF buscarContratacionReservada(c, publicado) THEN [kind |-> "vendor"]
  ELSE [kind |-> "none"]

tieneAlgunAcceso(acceso) == acceso.kind # "none"

\* The labels a route can name; an admin has none.
etiquetaDe(acceso) == IF acceso.kind = "vendor" THEN {"VENDOR"}
                      ELSE IF acceso.kind = "member" THEN {acceso.role} ELSE {}

\* Mutant: the list forgets that a draft is not shown to vendors.
listadoConBorradores(m, c, publicado) == m.status = "ACTIVE" \/ c = "BOOKED"

\* The condition of listarAccesiblesPor, which repeats the rule in SQL.
listado(m, c, publicado) == m.status = "ACTIVE" \/ (publicado /\ c = "BOOKED")

-----------------------------------------------------------------------------
(* From a request to the status of its answer: body parser, JwtAuthGuard,   *)
(* EventAccessGuard, DomainExceptionFilter.                                 *)

ROLES_VALIDOS == {"USER", "ADMIN"}

\* "sinExp" is signed and never expires; a token minted without the claim
\* has the role "undefined".
Peticion == [cuerpo: {"bueno", "entity.too.large", "charset.unsupported", "entity.parse.failed"},
             cabecera: {"ninguna", "Bearer"}, token: {"malFirmado", "caducado", "sinExp", "valido"},
             role: ROLES_VALIDOS \cup {"undefined"}, uuid: BOOLEAN]
Correcta == [cuerpo |-> "bueno", cabecera |-> "Bearer", token |-> "valido", role |-> "USER",
             uuid |-> TRUE]

\* The user's row when the request comes; the database may not answer.
Usuario == ROLES_VALIDOS \cup {"borrado", "caida"}

verificarAccess(p) == p.token = "valido"

\* The role of the row, not the one the token was signed with; or an error.
autenticarAccessToken(p, fila) ==
  IF ~verificarAccess(p) \/ p.role \notin ROLES_VALIDOS THEN "UnauthorizedError"
  ELSE CASE fila = "caida" -> "Error"
         [] fila = "borrado" -> "UnauthorizedError"
         [] OTHER -> fila

JwtAuthGuard(p, fila) == IF p.cabecera = "ninguna" THEN "UnauthorizedError"
                         ELSE autenticarAccessToken(p, fila)

\* EventAccessGuard over a route: its declared list, or "sin lista".
canActivate(permitidos, uuid, acceso) ==
  IF permitidos = {"sin lista"} THEN "Error"
  ELSE IF ~uuid \/ ~tieneAlgunAcceso(acceso) THEN "NotFoundError"
  ELSE IF acceso.kind = "admin" \/ etiquetaDe(acceso) \cap permitidos # {} THEN "ok"
  ELSE "ForbiddenError"

httpStatus == [NotFoundError |-> 404, ForbiddenError |-> 403, UnauthorizedError |-> 401,
               ConflictError |-> 409, UnprocessableError |-> 422]

errorDelParser(tipo) == CASE tipo = "entity.too.large" -> 413
                          [] tipo = "charset.unsupported" -> 415
                          [] OTHER -> 400

\* What is not a known error of the domain or the parser is a bare 500.
traducir(error) == CASE error = "ok" -> 200
                     [] error \in DOMAIN httpStatus -> httpStatus[error]
                     [] error \in {"entity.too.large", "charset.unsupported",
                                   "entity.parse.failed"} -> errorDelParser(error)
                     [] error = "InvalidCursorError" -> 400
                     [] OTHER -> 500

respuesta(p, fila, permitidos, m, c, publicado) ==
  LET rol == JwtAuthGuard(p, fila)
  IN traducir(IF p.cuerpo # "bueno" THEN p.cuerpo
              ELSE IF rol \notin ROLES_VALIDOS THEN rol
              ELSE canActivate(permitidos, p.uuid, resolve(rol = "ADMIN", m, c, publicado)))

-----------------------------------------------------------------------------
(* @RequireEventAccess of each controller: its routes and who they admit. *)

Planificadores == {"COUPLE", "PLANNER"}
Todas(rutas) == [r \in rutas |-> Planificadores]

RutasEvents == [verEvento |-> Planificadores \cup {"VENDOR"}, editarEvento |-> Planificadores,
                publicarEvento |-> Planificadores, invitarMiembro |-> {"COUPLE"}]
RutasSeating == Todas({"distribucion", "generarMesas", "crearMesa", "editarMesa", "borrarMesa",
                       "vaciarAsiento", "asignarAsiento"})
RutasExpenses == Todas({"listarGastos", "crearGasto", "editarGasto", "borrarGasto", "verResumen"})
RutasVendors == Todas({"listarVendors", "agregarVendor", "actualizarVendor", "eliminarVendor"})
RutasSchedule == Todas({"listarItems", "crearItem", "editarItem", "borrarItem"})
RutasGuests == Todas({"listarInvitados", "resumenDeInvitados", "crearInvitado",
                      "importarInvitados", "enviarTodas", "enviarUna", "verInvitado",
                      "actualizarInvitado", "eliminarInvitado"})
RutasNotifications == Todas({"listarNotificaciones", "marcarLeida"})

Controladores == {RutasEvents, RutasSeating, RutasExpenses, RutasVendors, RutasSchedule,
                  RutasGuests, RutasNotifications}

\* What a request without access to an event is told does not depend on the
\* event: it is the answer of an id nobody ever used.  Neither the role of the
\* token nor a token that is refused counts for anything.
TellsNothing ==
  \A p \in Peticion, fila \in Usuario, permitidos \in UNION {{r[x] : x \in DOMAIN r} : r \in Controladores} :
    LET con(q, c) == respuesta(q, fila, permitidos, SinMembresia, c, TRUE)
        inventado == con([p EXCEPT !.uuid = FALSE], "NINGUNA")
    IN /\ fila # "ADMIN" => con(p, "SHORTLISTED") = inventado
       /\ JwtAuthGuard(p, fila) \notin ROLES_VALIDOS => con(p, "BOOKED") = inventado
       /\ p.role \in ROLES_VALIDOS =>
            \A role \in ROLES_VALIDOS : con([p EXCEPT !.role = role], "BOOKED") = con(p, "BOOKED")
=============================================================================
