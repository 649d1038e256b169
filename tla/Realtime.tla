------------------------------- MODULE Realtime -------------------------------
(***************************************************************************)
(* Notifications of one event (src/src/modules/notifications): the rows an *)
(* RSVP leaves to the active members, the job that announces it, and the   *)
(* sockets, in rooms, that hear of it.  A "join" awaits the database twice *)
(* before it enters a room; a "leave", a disconnection, an expiry of the   *)
(* token or a change of role or membership may come in between.  The client*)
(* library of Socket.IO and Redis, which may lose a PUBLISH, are external. *)
(***************************************************************************)
EXTENDS EventAccess

CONSTANTS Sockets,          \* connections to the namespace /realtime
          Personas,         \* users
          JOINS_POR_MINUTO, \* capacity of the bucket of a socket
          Recarga,          \* tokens the bucket gains per unit of the clock
          VidaToken,        \* life of an access token
          MaxInstante,      \* bound of the clock
          MaxTomas,         \* bound of the attempts of the job
          MaxAvisos         \* bound of connections, joins, readings and changes

ASSUME SupuestosRealtime ==
  /\ {JOINS_POR_MINUTO, VidaToken, MaxTomas} \subseteq Nat \ {0}
  /\ {Recarga, MaxInstante, MaxAvisos} \subseteq Nat
  /\ Personas # {}

VARIABLES
  instante,    \* the clock
  permiso,     \* system role, membership and contract of each user
  notificacion,\* the row of notifications of each user: SinFila, NoLeida or its readAt
  aviso,       \* the RSVP and its job in the queue notifications
  enchufe,     \* each socket, with its "join" in flight
  haSido,      \* users who have been active members since the RSVP, or are
  porVenir     \* connections, joins, readings and changes still to come

realtimeVars == <<instante, permiso, notificacion, aviso, enchufe, haSido, porVenir>>

SinFila == -2   \* no row
NoLeida == -1   \* readAt null
Salas == {"user", "event", "event:vendors"}
Tipos == {"guest.rsvp.updated", "notification.created"}
Fuera == [on |-> FALSE, u |-> CHOOSE u \in Personas : TRUE, exp |-> 0, salas |-> {}, fichas |-> 0,
          recargadoEn |-> 0, rol |-> "USER", join |-> "no", recibidos |-> {}, planificador |-> FALSE]
Activa == [status |-> "ACTIVE", role |-> "COUPLE"]
Permisos == {[rol |-> "USER", m |-> Activa, c |-> "NINGUNA"],
             [rol |-> "USER", m |-> SinMembresia, c |-> "NINGUNA"],
             [rol |-> "USER", m |-> SinMembresia, c |-> "BOOKED"],
             [rol |-> "USER", m |-> [Activa EXCEPT !.status = "REVOKED"], c |-> "BOOKED"],
             [rol |-> "ADMIN", m |-> SinMembresia, c |-> "BOOKED"]}
EsMiembro(u) == permiso[u].m.status = "ACTIVE"

\* COUPLE, PLANNER and ADMIN: the audience of the room of the event.
Planifica(p) == p.rol = "ADMIN" \/ p.m.status = "ACTIVE"

\* The access of a socket's user: with the role read with the token, and the
\* membership and the contract there are now.
accesoDe(e) == resolve(e.rol = "ADMIN", permiso[e.u].m, permiso[e.u].c, TRUE)

RealtimeInit ==
  /\ instante = 0 /\ porVenir \in {0, MaxAvisos}
  /\ permiso = [u \in Personas |-> [rol |-> "USER", m |-> SinMembresia, c |-> "BOOKED"]]
  /\ notificacion = [u \in Personas |-> SinFila]
  /\ aviso = [pc |-> "nada", tomas |-> 0, por |-> {}]
  /\ enchufe = [s \in Sockets |-> Fuera]
  /\ haSido = {}

Llega == porVenir > 0 /\ porVenir' = porVenir - 1
deSockets == <<instante, permiso, notificacion, aviso, haSido>>

-----------------------------------------------------------------------------
(* The gateway *)

\* autenticar, the middleware, and handleConnection.
Conectar(s, u) ==
  /\ ~enchufe[s].on /\ Llega
  /\ enchufe' = [enchufe EXCEPT ![s] =
                   [on |-> TRUE, u |-> u, exp |-> instante + VidaToken, salas |-> {"user"},
                    fichas |-> JOINS_POR_MINUTO, recargadoEn |-> instante, rol |-> "USER",
                    join |-> "no", recibidos |-> {}, planificador |-> Planifica(permiso[u])]]
  /\ UNCHANGED deSockets

\* tomarFicha: what there is in the bucket, refilled.
Menor(a, b) == IF a < b THEN a ELSE b
fichasDe(e) == Menor(JOINS_POR_MINUTO, e.fichas + (instante - e.recargadoEn) * Recarga)
tomarFicha(e) == [e EXCEPT !.fichas = IF fichasDe(e) < 1 THEN fichasDe(e) ELSE fichasDe(e) - 1,
                           !.recargadoEn = instante]

\* conSalaAutorizada: at each "join" the token is looked at again, and the
\* user's row with it.
unirse(s) ==
  LET e == enchufe[s]
  IN /\ e.on /\ e.join = "no" /\ Llega
     /\ enchufe' = [enchufe EXCEPT ![s] =
                      [tomarFicha(e) EXCEPT !.rol = permiso[e.u].rol,
                                            !.join = IF fichasDe(e) >= 1 /\ instante < e.exp
                                                     THEN "resolve" ELSE "no"]]
     /\ UNCHANGED deSockets

\* Mutant: a vendor enters the room of the planners.
salaUnica(acceso) == IF acceso.kind = "none" THEN "no" ELSE "event"

\* EventAccessService reads the database ...
salaPara(acceso) == CASE acceso.kind = "none" -> "no"
                      [] acceso.kind = "vendor" -> "event:vendors"
                      [] OTHER -> "event"
ResolverAcceso(s) ==
  /\ enchufe[s].join = "resolve"
  /\ enchufe' = [enchufe EXCEPT ![s].join = salaPara(accesoDe(enchufe[s]))]
  /\ UNCHANGED <<deSockets, porVenir>>

\* ... and the answer puts the socket in the room, unless it is gone.
EntrarSala(s) ==
  /\ enchufe[s].join \in Salas
  /\ enchufe' = [enchufe EXCEPT ![s].join = "no",
                                ![s].salas = @ \cup IF enchufe[s].on THEN {enchufe[s].join} ELSE {}]
  /\ UNCHANGED <<deSockets, porVenir>>

salir(s) ==
  /\ enchufe[s].on /\ Llega
  /\ enchufe' = [enchufe EXCEPT ![s].salas = @ \ {"event", "event:vendors"}]
  /\ UNCHANGED deSockets

\* The client leaves, or the timer set for the expiry of the token fires.
Desconectar(s) ==
  /\ enchufe[s].on
  /\ enchufe' = [enchufe EXCEPT ![s].on = FALSE, ![s].salas = {}]
  /\ UNCHANGED <<deSockets, porVenir>>

-----------------------------------------------------------------------------
(* Rows and notices *)

\* crearParaMiembros, in the transaction of the RSVP.
crearParaMiembros ==
  /\ aviso.pc = "nada" /\ porVenir > 0
  /\ notificacion' = [u \in Personas |-> IF EsMiembro(u) THEN NoLeida ELSE SinFila]
  /\ aviso' = [aviso EXCEPT !.pc = "confirmado"]
  /\ haSido' = {u \in Personas : EsMiembro(u)}
  /\ UNCHANGED <<instante, permiso, enchufe, porVenir>>

\* After the commit; the process may die first, and then nobody is told.
EncolarAvisoRsvp ==
  /\ aviso.pc = "confirmado"
  /\ \E pc \in {"encolado", "perdido"} : aviso' = [aviso EXCEPT !.pc = pc]
  /\ UNCHANGED <<instante, permiso, notificacion, enchufe, haSido, porVenir>>

\* Redis delivers to the sockets of a room, or loses the PUBLISH.
Emitir(enSala(_), tipo) ==
  \/ enchufe' = [s \in Sockets |-> IF enchufe[s].on /\ enSala(enchufe[s])
                                   THEN [enchufe[s] EXCEPT !.recibidos = @ \cup {tipo}]
                                   ELSE enchufe[s]]
  \/ UNCHANGED enchufe

\* NotificationProcessor, avisarDeNotificacion: the room of the event, then ...
EmitirAEvento ==
  /\ aviso.pc = "encolado" /\ aviso.tomas < MaxTomas
  /\ Emitir(LAMBDA e : "event" \in e.salas, "guest.rsvp.updated")
  /\ aviso' = [aviso EXCEPT !.pc = "destinatarios", !.tomas = @ + 1]
  /\ UNCHANGED <<instante, permiso, notificacion, haSido, porVenir>>

\* ... the members there are now ...
destinatarios ==
  /\ aviso.pc = "destinatarios"
  /\ aviso' = [aviso EXCEPT !.pc = "usuarios", !.por = {u \in Personas : EsMiembro(u)}]
  /\ UNCHANGED <<instante, permiso, notificacion, enchufe, haSido, porVenir>>

\* ... one by one.
EmitirAUsuario(u) ==
  /\ aviso.pc = "usuarios" /\ u \in aviso.por
  /\ Emitir(LAMBDA e : "user" \in e.salas /\ e.u = u, "notification.created")
  /\ aviso' = [aviso EXCEPT !.por = @ \ {u}]
  /\ UNCHANGED <<instante, permiso, notificacion, haSido, porVenir>>

CompletarAviso ==
  /\ aviso.pc = "usuarios" /\ aviso.por = {}
  /\ aviso' = [aviso EXCEPT !.pc = "hecho"]
  /\ UNCHANGED <<instante, permiso, notificacion, enchufe, haSido, porVenir>>

\* An emission fails or the worker dies: BullMQ repeats the job from the start.
RepetirAviso ==
  /\ aviso.pc \in {"destinatarios", "usuarios"}
  /\ aviso' = [aviso EXCEPT !.pc = "encolado", !.por = {}]
  /\ UNCHANGED <<instante, permiso, notificacion, enchufe, haSido, porVenir>>

\* Mutant: the update does not ask for readAt null.
marcarLeidaSiempre(u) ==
  /\ notificacion[u] # SinFila /\ Llega
  /\ notificacion' = [notificacion EXCEPT ![u] = instante]
  /\ UNCHANGED <<instante, permiso, aviso, enchufe, haSido>>

\* POST notifications/:id/read, from any of the user's devices.
marcarLeida(u) ==
  /\ notificacion[u] # SinFila /\ Llega
  /\ notificacion' = [notificacion EXCEPT ![u] = IF @ = NoLeida THEN instante ELSE @]
  /\ UNCHANGED <<instante, permiso, aviso, enchufe, haSido>>

\* The role, the membership and the contract change, and the clock runs.
CambiarPermiso(u, p) ==
  /\ Llega /\ permiso[u] # p
  /\ permiso' = [permiso EXCEPT ![u] = p]
  /\ haSido' = IF p.m.status = "ACTIVE" THEN haSido \cup {u} ELSE haSido
  /\ enchufe' = [s \in Sockets |->
                   [enchufe[s] EXCEPT !.planificador = @ \/ (enchufe[s].u = u /\ Planifica(p))]]
  /\ UNCHANGED <<instante, notificacion, aviso>>

Pasa == /\ instante < MaxInstante /\ porVenir > 0 /\ instante' = instante + 1
        /\ UNCHANGED <<permiso, notificacion, aviso, enchufe, haSido, porVenir>>

RealtimeNext ==
  \/ \E s \in Sockets : \/ unirse(s) \/ ResolverAcceso(s) \/ EntrarSala(s) \/ salir(s)
                        \/ Desconectar(s) \/ \E u \in Personas : Conectar(s, u)
  \/ crearParaMiembros \/ EncolarAvisoRsvp \/ EmitirAEvento \/ destinatarios
  \/ CompletarAviso \/ RepetirAviso \/ Pasa
  \/ \E u \in Personas : \/ EmitirAUsuario(u) \/ marcarLeida(u)
                         \/ \E p \in Permisos : CambiarPermiso(u, p)

RealtimeSpec == RealtimeInit /\ [][RealtimeNext]_realtimeVars

-----------------------------------------------------------------------------
(* Properties *)

RealtimeTypeOK ==
  /\ permiso \in [Personas -> Permisos] /\ notificacion \in [Personas -> Int] /\ instante \in 0..MaxInstante
  /\ \A s \in Sockets : /\ enchufe[s].salas \subseteq Salas /\ enchufe[s].recibidos \subseteq Tipos
                        /\ enchufe[s].fichas \in 0..JOINS_POR_MINUTO
                        /\ enchufe[s].recargadoEn \in 0..instante
  /\ aviso.por \subseteq Personas /\ aviso.tomas \in 0..MaxTomas

\* What is told of guests reaches planners only: a socket in the room of the
\* event, or that heard the change, belongs to somebody who was an active
\* member or an ADMIN while it was connected, and the personal notice to
\* somebody who was an active member since the answer.  A vendor of the event
\* hears nothing, although roles and memberships change between the reads of a
\* "join" or of the worker and what they do with them.
NoticesReachOnlyPlanners ==
  \A s \in Sockets :
    /\ "event" \in enchufe[s].salas \/ "guest.rsvp.updated" \in enchufe[s].recibidos
         => enchufe[s].planificador
    /\ "notification.created" \in enchufe[s].recibidos => enchufe[s].u \in haSido

\* Marking twice, from two devices, keeps the first readAt, and nothing the
\* worker repeats or loses takes away the row, which is what a client that was
\* not connected recovers.
ReadingIsKept ==
  [][\A u \in Personas :
       /\ notificacion[u] \notin {SinFila, NoLeida} => notificacion'[u] = notificacion[u]
       /\ notificacion[u] # SinFila => notificacion'[u] # SinFila]_realtimeVars
=============================================================================
