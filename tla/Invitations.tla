----------------------------- MODULE Invitations -----------------------------
(***************************************************************************)
(* Guest invitations, from the organiser's click to the guest's answer     *)
(* (src/src/modules/guests): the send use cases, PATCH and DELETE of a     *)
(* guest, the BullMQ job and the worker that mails the link, the delivery  *)
(* webhooks of the mail provider and the public RSVP.                      *)
(*                                                                         *)
(* Requests and workers are processes that stop at every await, so they    *)
(* interleave there.  The database is Postgres at READ COMMITTED: a        *)
(* statement is one step; a row a transaction wrote stays locked until it  *)
(* commits, and its writes show at the commit.                             *)
(*                                                                         *)
(* Dates are readings of one clock.  The code reads the clock and writes   *)
(* with that reading later, and several properties turn on the difference. *)
(***************************************************************************)
EXTENDS Integers

CONSTANTS Guests,      \* guest ids of one event
          Emails,      \* addresses
          Invs,        \* invitation ids (their tokens and job ids with them)
          Senders,     \* concurrent POST /invitations requests
          Editors,     \* concurrent PATCH /guests/:id requests
          Responders,  \* concurrent POST /rsvp/:token requests
          Workers,     \* worker processes of the "invitations" queue
          Cambios,     \* the PATCH bodies that are tried
          Respuestas,  \* the RSVP bodies that are tried
          Eventos,     \* the delivery events the provider reports
          MaxCupo,     \* MAX_ACOMPANANTES
          MaxIntentos, \* attempts of a job
          MaxAtascos,  \* BullMQ's maxStalledCount
          Validez,     \* DIAS_DE_VALIDEZ, in ticks
          Cierre,      \* cierreRsvp of the event, in ticks
          MaxReloj,    \* bound of the clock
          MaxFallos,   \* bound of the infrastructure faults
          None,        \* null
          Igual        \* a field the PATCH body does not carry

Rsvp == {"CONFIRMED", "PENDING", "DECLINED"}

\* Allowed companions, and confirmed ones (null until the guest answers).
Cupo == 0..MaxCupo

\* The body of a PATCH and the answer of a guest.
Cambio == [email: Emails \cup {None, Igual}, rsvp: Rsvp \cup {Igual},
           allowed: Cupo \cup {Igual}]
Cuerpo == [rsvp: {"CONFIRMED", "DECLINED"}, comp: Cupo]

ASSUME Supuestos ==
  /\ None \notin Guests \cup Emails \cup Invs \cup Senders \cup Workers
  /\ None \notin Cupo /\ None \notin Rsvp
  /\ Igual \notin Emails \cup {None} /\ Igual \notin Cupo /\ Igual \notin Rsvp
  /\ MaxCupo \in Nat /\ MaxIntentos \in Nat \ {0} /\ MaxAtascos \in Nat
  /\ Validez \in Nat \ {0} /\ Cierre \in Nat
  /\ MaxReloj \in Nat /\ MaxFallos \in Nat
  /\ Cambios \subseteq Cambio
  /\ Eventos \subseteq {"DELIVERED", "BOUNCED", "COMPLAINED"}
  /\ Respuestas \subseteq Cuerpo

VARIABLES
  reloj,      \* the clock
  fallos,     \* infrastructure faults so far
  guest,      \* table guests
  inv,        \* table guest_invitations
  job,        \* BullMQ jobs invitation-<id>
  correo,     \* provider: the address the mail of a key left for, if it left
  acusada,    \* history: invitations whose mail.send ever returned normally
  notificada, \* table notifications: the answer last notified about a guest
  avisos,     \* jobs of the queue "notifications": <<invitation, status>>
  worker,     \* state of each worker process
  envio,      \* state of each send request
  edicion,    \* state of each PATCH request
  respuesta   \* state of each RSVP request

vars == <<reloj, fallos, guest, inv, job, correo, acusada, notificada, avisos,
          worker, envio, edicion, respuesta>>

-----------------------------------------------------------------------------
(* Invitation statuses and their order *)

Estados == {"QUEUED", "SENT", "DELIVERED", "BOUNCED", "COMPLAINED", "RESPONDED"}

Rango(e) == CASE e = "QUEUED" -> 0
              [] e = "SENT" -> 1
              [] e = "DELIVERED" -> 2
              [] e \in {"BOUNCED", "COMPLAINED"} -> 3
              [] e = "RESPONDED" -> 4

\* Mutant: a status may also move to another of the same rank.
AvanzarAlMismoRango(destino) == {e \in Estados : Rango(e) <= Rango(destino)}

EstadosQuePuedenAvanzarA(destino) == {e \in Estados : Rango(e) < Rango(destino)}

\* "NUEVA" is an id not yet drawn, "BORRADA" a row deleted with its guest.
FilaInvitacion == [guest: Guests \cup {None}, status: Estados \cup {"NUEVA", "BORRADA"},
                   expiresAt: Nat, conId: BOOLEAN, autor: Senders \cup {None}]
FilaInvitado == [existe: BOOLEAN, email: Emails \cup {None}, rsvp: Rsvp,
                 allowed: Cupo, confirmed: Cupo \cup {None}]
FilaJob == [estado: {"none", "waiting", "active", "failed"}, hechos: 0..MaxIntentos,
            atascos: 0..MaxAtascos, dueno: Workers \cup {None}]

\* What a worker process, a send, a PATCH and an answer have in memory.
EstadoWorker == [pc: {"libre", "enviar", "marcar", "completar", "caducar", "fallar",
                      "respaldo"},
                 i: Invs \cup {None}, email: Emails \cup {None}, conId: BOOLEAN,
                 hechos: 0..MaxIntentos, sinMarcar: SUBSET Invs]
EstadoEnvio == [pc: {"libre", "caducar", "crear", "encolar"}, lote: SUBSET Guests,
                g: Guests \cup {None}, i: Invs \cup {None}, desde: 0..MaxReloj]
EstadoEdicion == [pc: {"libre", "simple", "tx", "tx2", "commit"}, g: Guests \cup {None},
                  c: Cambio, desde: 0..MaxReloj, filas: SUBSET Invs, habia: SUBSET Invs]
EstadoRespuesta == [pc: {"libre", "lee", "tx", "tx2", "aviso"}, i: Invs \cup {None},
                    ahora: 0..MaxReloj, r: Cuerpo]

Existe(i) == inv[i].status \in Estados

\* admiteLectura: the link opens the RSVP.
Viva(i) == Existe(i) /\ inv[i].expiresAt > reloj

Suyas(g) == {i \in Invs : Existe(i) /\ inv[i].guest = g}

\* Mutant: an answered link is left alone.
VigentesSinResponder(g, t) ==
  {i \in Suyas(g) : inv[i].status # "RESPONDED" /\ inv[i].expiresAt > t}

\* Mutant: a field the body does not carry is written too.
AplicarTodo(fila, c) ==
  [fila EXCEPT !.email = c.email, !.rsvp = c.rsvp, !.allowed = c.allowed]

\* The rows caducarVigentesDe selects, and the row of a PATCH after it.
VigentesDe(g, t) == {i \in Suyas(g) : inv[i].expiresAt > t}
Aplicar(fila, c) ==
  [fila EXCEPT !.email = IF c.email = Igual THEN @ ELSE c.email,
               !.rsvp = IF c.rsvp = Igual THEN @ ELSE c.rsvp,
               !.allowed = IF c.allowed = Igual THEN @ ELSE c.allowed]

\* cupoCubreConfirmados, which is also the CHECK of the table.
CupoCubre(fila) == fila.confirmed # None => fila.confirmed <= fila.allowed

SinJob == [estado |-> "none", hechos |-> 0, atascos |-> 0, dueno |-> None]
SinEnvio == [pc |-> "libre", lote |-> {}, g |-> None, i |-> None, desde |-> 0]
SinEdicion == [pc |-> "libre", g |-> None,
               c |-> [email |-> Igual, rsvp |-> Igual, allowed |-> Igual],
               desde |-> 0, filas |-> {}, habia |-> {}]
SinRespuesta == [pc |-> "libre", i |-> None, ahora |-> 0,
                 r |-> [rsvp |-> "DECLINED", comp |-> 0]]
SinTrabajo == [pc |-> "libre", i |-> None, email |-> None, conId |-> FALSE, hechos |-> 0,
               sinMarcar |-> {}]

\* Row locks: the rows written by the transactions still open.
InvitacionBloqueada(i) ==
  \/ \E e \in Editors : edicion[e].pc = "commit" /\ i \in edicion[e].filas
  \/ \E r \in Responders : respuesta[r].pc = "tx2" /\ respuesta[r].i = i
InvitadoBloqueado(g) ==
  \E e \in Editors : edicion[e].pc \in {"tx2", "commit"} /\ edicion[e].g = g

\* The unique index on (event, email), over committed rows.
EmailLibre(g, email) ==
  email = None \/ \A h \in Guests \ {g} : guest[h].existe => guest[h].email # email

\* A fault of Postgres, Redis, the network or a process.
Falla == fallos < MaxFallos /\ fallos' = fallos + 1

Init ==
  /\ reloj = 0
  /\ fallos = 0
  /\ guest \in [Guests -> [existe: {TRUE}, email: Emails \cup {None}, rsvp: {"PENDING"},
                           allowed: {MaxCupo}, confirmed: {None}]]
  /\ \A g \in Guests : EmailLibre(g, guest[g].email)
  /\ inv = [i \in Invs |-> [guest |-> None, status |-> "NUEVA", expiresAt |-> 0,
                            conId |-> FALSE, autor |-> None]]
  /\ job = [i \in Invs |-> SinJob]
  /\ correo = [i \in Invs |-> None]
  /\ acusada = {}
  /\ notificada = [g \in Guests |-> None]
  /\ avisos = {}
  /\ worker = [w \in Workers |-> SinTrabajo]
  /\ envio = [s \in Senders |-> SinEnvio]
  /\ edicion = [e \in Editors |-> SinEdicion]
  /\ respuesta = [r \in Responders |-> SinRespuesta]

Tick ==
  /\ reloj < MaxReloj
  /\ reloj' = reloj + 1
  /\ UNCHANGED <<fallos, guest, inv, job, correo, acusada, notificada, avisos,
                 worker, envio, edicion, respuesta>>

-----------------------------------------------------------------------------
(* POST /invitations and POST /guests/:id/invitation *)

dePeticiones == <<edicion, respuesta>>
deCola == <<correo, acusada, notificada, avisos, worker>>

\* SendSingleInvitationUseCase: the guest exists and has an address.
EnviarUno(s, g) ==
  /\ envio[s].pc = "libre"
  /\ guest[g].existe /\ guest[g].email # None
  /\ envio' = [envio EXCEPT ![s] = [SinEnvio EXCEPT !.pc = "caducar", !.lote = {g},
                                                    !.desde = reloj]]
  /\ UNCHANGED <<reloj, fallos, guest, inv, job, deCola, dePeticiones>>

\* SendInvitationsUseCase: listarTodos is read once, and the batch is the
\* guests that had an address and no answer at that moment.
EnviarTodos(s) ==
  LET lote == {g \in Guests : guest[g].existe /\ guest[g].email # None
                              /\ guest[g].rsvp = "PENDING"}
  IN /\ envio[s].pc = "libre"
     /\ lote # {}
     /\ envio' = [envio EXCEPT ![s] = [SinEnvio EXCEPT !.pc = "caducar", !.lote = lote,
                                                       !.desde = reloj]]
     /\ UNCHANGED <<reloj, fallos, guest, inv, job, deCola, dePeticiones>>

\* The loop goes on with the rest of the batch; an isolated failure does too.
SiguienteDelLote(s, g) ==
  LET resto == envio[s].lote \ {g}
  IN envio' = [envio EXCEPT ![s] =
       IF resto = {} THEN SinEnvio
       ELSE [SinEnvio EXCEPT !.pc = "caducar", !.lote = resto, !.desde = reloj]]

\* encolarInvitacion, first await: caducarVigentesDe(guestId, new Date()).
\* The date t was read at some moment since the previous await.
CaducarAnteriores(s) ==
  /\ envio[s].pc = "caducar"
  /\ \E g \in envio[s].lote, t \in envio[s].desde..reloj :
       /\ \A i \in VigentesDe(g, t) : ~InvitacionBloqueada(i)
       /\ inv' = [i \in Invs |-> IF i \in VigentesDe(g, t)
                                 THEN [inv[i] EXCEPT !.expiresAt = t] ELSE inv[i]]
       /\ envio' = [envio EXCEPT ![s].pc = "crear", ![s].g = g, ![s].desde = reloj]
  /\ UNCHANGED <<reloj, fallos, guest, job, deCola, dePeticiones>>

\* encolarInvitacion, second await: crear.  caducidadInvitacion() reads the
\* clock, at t, before the INSERT is sent: one that takes Validez to arrive
\* creates a link already dead.  The foreign key rejects a guest deleted
\* meanwhile.
CrearInvitacion(s, i) ==
  /\ envio[s].pc = "crear"
  /\ guest[envio[s].g].existe
  /\ inv[i].status = "NUEVA"
  /\ \E t \in envio[s].desde..reloj :
       inv' = [inv EXCEPT ![i] = [guest |-> envio[s].g, status |-> "QUEUED",
                                  expiresAt |-> t + Validez, conId |-> FALSE,
                                  autor |-> s]]
  /\ envio' = [envio EXCEPT ![s].pc = "encolar", ![s].i = i]
  /\ UNCHANGED <<reloj, fallos, guest, job, deCola, dePeticiones>>

CrearRechazada(s) ==
  /\ envio[s].pc = "crear"
  /\ ~guest[envio[s].g].existe
  /\ SiguienteDelLote(s, envio[s].g)
  /\ UNCHANGED <<reloj, fallos, guest, inv, job, deCola, dePeticiones>>

\* encolarInvitacion, third await: the job is added, or Redis fails and the
\* row stays QUEUED with no job (ENQUEUE_FAILED).
Encolar(s) ==
  /\ envio[s].pc = "encolar"
  /\ job' = [job EXCEPT ![envio[s].i] = [SinJob EXCEPT !.estado = "waiting"]]
  /\ SiguienteDelLote(s, envio[s].g)
  /\ UNCHANGED <<reloj, fallos, guest, inv, deCola, dePeticiones>>

EncolarFalla(s) ==
  /\ envio[s].pc = "encolar"
  /\ Falla
  /\ SiguienteDelLote(s, envio[s].g)
  /\ UNCHANGED <<reloj, guest, inv, job, deCola, dePeticiones>>

-----------------------------------------------------------------------------
(* PATCH and DELETE /guests/:id *)

deEnvios == <<correo, acusada, notificada, avisos, worker, envio, job>>

\* UpdateGuestUseCase reads the guest; the quota check and "does the email
\* change" are decided on that reading.
LeerParaEditar(e, g, c) ==
  /\ edicion[e].pc = "libre"
  /\ guest[g].existe
  /\ c.allowed # Igual => CupoCubre(Aplicar(guest[g], c))
  /\ LET cambiaEmail == c.email # Igual /\ c.email # guest[g].email
     IN edicion' = [edicion EXCEPT ![e] =
          [SinEdicion EXCEPT !.pc = IF cambiaEmail THEN "tx" ELSE "simple",
                             !.g = g, !.c = c]]
  /\ UNCHANGED <<reloj, fallos, guest, inv, deEnvios, respuesta>>

\* The row accepts the changes: it exists, and CHECK and unique index hold.
Admite(g, c) ==
  /\ guest[g].existe
  /\ CupoCubre(Aplicar(guest[g], c))
  /\ c.email # Igual => EmailLibre(g, c.email)

\* A write to the row waits for its lock, and for an open transaction that
\* is about to take the same address.
PuedeEscribir(e) ==
  /\ ~InvitadoBloqueado(edicion[e].g)
  /\ \A f \in Editors \ {e} : edicion[f].pc \in {"tx2", "commit"}
                              => edicion[f].c.email \in {None, Igual}
                                 \/ edicion[f].c.email # edicion[e].c.email

\* No change of email: one UPDATE, outside any transaction.
EditarSinTransaccion(e) ==
  /\ edicion[e].pc = "simple"
  /\ PuedeEscribir(e)
  /\ guest' = IF Admite(edicion[e].g, edicion[e].c)
              THEN [guest EXCEPT ![edicion[e].g] = Aplicar(@, edicion[e].c)]
              ELSE guest
  /\ edicion' = [edicion EXCEPT ![e] = SinEdicion]
  /\ UNCHANGED <<reloj, fallos, inv, deEnvios, respuesta>>

\* Change of email: a transaction of two statements.  The first takes the
\* lock of the guest's row, or fails and rolls back.
EditarEnTransaccion(e) ==
  /\ edicion[e].pc = "tx"
  /\ PuedeEscribir(e)
  /\ edicion' = [edicion EXCEPT ![e] =
       IF Admite(edicion[e].g, edicion[e].c)
       THEN [@ EXCEPT !.pc = "tx2", !.desde = reloj] ELSE SinEdicion]
  /\ UNCHANGED <<reloj, fallos, guest, inv, deEnvios, respuesta>>

\* The second one, caducarVigentesDe, sees the invitations committed so far.
\* habia is history: the invitations of the guest it found, live or not.
CaducarEnTransaccion(e) ==
  /\ edicion[e].pc = "tx2"
  /\ \E t \in edicion[e].desde..reloj :
       LET filas == VigentesDe(edicion[e].g, t)
       IN /\ \A i \in filas : ~InvitacionBloqueada(i)
          /\ edicion' = [edicion EXCEPT ![e].pc = "commit", ![e].desde = t,
                                        ![e].filas = filas, ![e].habia = Suyas(edicion[e].g)]
  /\ UNCHANGED <<reloj, fallos, guest, inv, deEnvios, respuesta>>

ConfirmarEdicion(e) ==
  LET ed == edicion[e]
  IN /\ ed.pc = "commit"
     /\ guest' = [guest EXCEPT ![ed.g] = Aplicar(@, ed.c)]
     /\ inv' = [i \in Invs |-> IF i \in ed.filas
                               THEN [inv[i] EXCEPT !.expiresAt = ed.desde] ELSE inv[i]]
     /\ edicion' = [edicion EXCEPT ![e] = SinEdicion]
     /\ UNCHANGED <<reloj, fallos, deEnvios, respuesta>>

\* DeleteGuestUseCase: the DELETE cascades to the guest's invitations.  It
\* takes the guest first, and an answer that already holds an invitation of
\* that guest wants them in the other order: Postgres aborts one of the two
\* (the answer here; an aborted DELETE changes nothing).
BorrarInvitado(g) ==
  /\ guest[g].existe
  /\ ~InvitadoBloqueado(g)
  /\ guest' = [guest EXCEPT ![g].existe = FALSE]
  /\ inv' = [i \in Invs |-> IF i \in Suyas(g)
                            THEN [inv[i] EXCEPT !.status = "BORRADA"] ELSE inv[i]]
  /\ respuesta' = [r \in Responders |->
       IF respuesta[r].pc = "tx2" /\ respuesta[r].i \in Suyas(g)
       THEN SinRespuesta ELSE respuesta[r]]
  /\ UNCHANGED <<reloj, fallos, deEnvios, edicion>>

-----------------------------------------------------------------------------
(* The queue "invitations" and its worker *)

deApi == <<notificada, avisos, envio, edicion, respuesta>>

\* Mutant: attemptsMade is compared without the attempt in course.
esUltimoIntentoUnoDeMas(hechos) == hechos >= MaxIntentos

\* On the attempts the worker read with the job.
esUltimoIntento(hechos) == hechos + 1 >= MaxIntentos

\* Where process goes when enviar throws and the mail has not left.
TrasFallar(hechos) == IF esUltimoIntento(hechos) THEN "caducar" ELSE "fallar"

\* A worker takes a waiting job, and enviar reads the invitation, its guest
\* and the clock.  Deleted, no longer QUEUED, expired or without address:
\* the job is discarded, which completes it.  Or the read fails.
Tomar(w, i) ==
  LET email == guest[inv[i].guest].email
      manda == Viva(i) /\ inv[i].status = "QUEUED" /\ email # None
      toma(pc, direccion) ==
        worker' = [worker EXCEPT ![w] = [@ EXCEPT !.pc = pc, !.i = i, !.email = direccion,
                                                  !.hechos = job[i].hechos]]
  IN /\ worker[w].pc = "libre"
     /\ job[i].estado = "waiting"
     /\ job' = [job EXCEPT ![i].estado = "active", ![i].dueno = w]
     /\ \/ /\ IF manda THEN toma("enviar", email) ELSE toma("completar", None)
           /\ UNCHANGED fallos
        \/ toma(TrasFallar(job[i].hechos), None) /\ Falla
     /\ UNCHANGED <<reloj, guest, inv, correo, acusada, deApi>>

\* What a job looks at when its attempt ends.
Soltar(w) == [SinTrabajo EXCEPT !.sinMarcar = worker[w].sinMarcar]

\* The provider's idempotency key: the first accepted request of a key sends
\* the mail; later ones do not send another.
Saliente(w) == LET i == worker[w].i
               IN [correo EXCEPT ![i] = IF @ = None THEN worker[w].email ELSE @]

\* mail.send returns, with the message id or, on an idempotency conflict
\* with a mail already sent, without it.
EnviarOk(w) ==
  LET i == worker[w].i
  IN /\ worker[w].pc = "enviar"
     /\ correo' = Saliente(w)
     /\ acusada' = acusada \cup {i}
     /\ \E conId \in BOOLEAN :
          /\ ~conId => correo[i] # None
          /\ worker' = [worker EXCEPT ![w].pc = "marcar", ![w].conId = conId]
     /\ UNCHANGED <<reloj, fallos, guest, inv, job, deApi>>

TrasFallarEnvio(w) == [worker EXCEPT ![w].pc = TrasFallar(worker[w].hechos)]

\* Mutant: the error of the provider is caught and the sending goes on.
EnviarRechazadoCapturado(w) ==
  /\ worker[w].pc = "enviar"
  /\ worker' = [worker EXCEPT ![w].pc = "marcar"]
  /\ UNCHANGED <<reloj, fallos, guest, inv, job, correo, acusada, deApi>>

\* mail.send throws: the provider rejects the request...
EnviarRechazado(w) ==
  /\ worker[w].pc = "enviar"
  /\ worker' = TrasFallarEnvio(w)
  /\ UNCHANGED <<reloj, fallos, guest, inv, job, correo, acusada, deApi>>

\* ...or accepts it and the response is lost.
EnviarSinRespuesta(w) ==
  /\ worker[w].pc = "enviar"
  /\ Falla
  /\ correo' = Saliente(w)
  /\ worker' = TrasFallarEnvio(w)
  /\ UNCHANGED <<reloj, guest, inv, job, acusada, deApi>>

\* Mutants: the write has no condition on the status...
MarcarEnviadaSiempre(w) ==
  /\ worker[w].pc = "marcar"
  /\ Existe(worker[w].i) /\ ~InvitacionBloqueada(worker[w].i)
  /\ inv' = [inv EXCEPT ![worker[w].i].status = "SENT"]
  /\ worker' = [worker EXCEPT ![w].pc = "completar"]
  /\ UNCHANGED <<reloj, fallos, guest, job, correo, acusada, deApi>>

\* ...or counts the validity of the link from the sending.
MarcarEnviadaRenueva(w) ==
  /\ worker[w].pc = "marcar"
  /\ inv[worker[w].i].status = "QUEUED" /\ ~InvitacionBloqueada(worker[w].i)
  /\ inv' = [inv EXCEPT ![worker[w].i].status = "SENT",
                        ![worker[w].i].expiresAt = reloj + Validez]
  /\ worker' = [worker EXCEPT ![w].pc = "completar"]
  /\ UNCHANGED <<reloj, fallos, guest, job, correo, acusada, deApi>>

\* marcarEnviada: SENT and the message id in one write, from QUEUED only.
MarcarEnviada(w) ==
  LET i == worker[w].i
  IN /\ worker[w].pc = "marcar"
     /\ ~InvitacionBloqueada(i)
     /\ inv' = IF inv[i].status \in EstadosQuePuedenAvanzarA("SENT")
               THEN [inv EXCEPT ![i].status = "SENT", ![i].conId = worker[w].conId]
               ELSE inv
     /\ worker' = [worker EXCEPT ![w].pc = "completar"]
     /\ UNCHANGED <<reloj, fallos, guest, job, correo, acusada, deApi>>

\* The write fails: the mail left, so nothing is expired, and the process
\* remembers it for the `failed` event.
MarcarFalla(w) ==
  /\ worker[w].pc = "marcar"
  /\ Falla
  /\ worker' = [worker EXCEPT ![w].pc = "fallar",
                              ![w].sinMarcar = @ \cup {worker[w].i}]
  /\ UNCHANGED <<reloj, guest, inv, job, correo, acusada, deApi>>

\* Mutant: the expiry is repeated until it writes a row.
CaducarAgotadaInsiste(w) ==
  LET i == worker[w].i
  IN /\ worker[w].pc \in {"caducar", "respaldo"}
     /\ Existe(i) /\ ~InvitacionBloqueada(i)
     /\ inv' = [inv EXCEPT ![i].expiresAt = reloj]
     /\ worker' = [worker EXCEPT ![w] = IF worker[w].pc = "caducar"
                                        THEN [@ EXCEPT !.pc = "fallar"] ELSE Soltar(w)]
     /\ UNCHANGED <<reloj, fallos, guest, job, correo, acusada, deApi>>

\* caducar(id), by process on the last attempt and by alFallar as a backup.
\* Its own failure is logged and swallowed.
CaducarAgotada(w) ==
  LET i == worker[w].i
  IN /\ worker[w].pc \in {"caducar", "respaldo"}
     /\ ~InvitacionBloqueada(i)
     /\ inv' = IF Existe(i) THEN [inv EXCEPT ![i].expiresAt = reloj] ELSE inv
     /\ worker' = [worker EXCEPT ![w] = IF worker[w].pc = "caducar"
                                        THEN [@ EXCEPT !.pc = "fallar"] ELSE Soltar(w)]
     /\ UNCHANGED <<reloj, fallos, guest, job, correo, acusada, deApi>>

CaducarAgotadaFalla(w) ==
  /\ worker[w].pc \in {"caducar", "respaldo"}
  /\ Falla
  /\ worker' = [worker EXCEPT ![w] = IF worker[w].pc = "caducar"
                                     THEN [@ EXCEPT !.pc = "fallar"] ELSE Soltar(w)]
  /\ UNCHANGED <<reloj, guest, inv, job, correo, acusada, deApi>>

\* The attempt ends well: removeOnComplete deletes the job, unless the lock
\* of the job was lost to the stalled check.
Completar(w) ==
  LET i == worker[w].i
  IN /\ worker[w].pc = "completar"
     /\ job' = IF job[i].dueno = w
               THEN [job EXCEPT ![i] = [@ EXCEPT !.estado = "none", !.dueno = None]]
               ELSE job
     /\ worker' = [worker EXCEPT ![w] = Soltar(w)]
     /\ UNCHANGED <<reloj, fallos, guest, inv, correo, acusada, deApi>>

\* attemptsMade of a job once the attempt in course has failed.
HechosTras(i) == job[i].hechos + 1

\* The attempt fails: BullMQ moves the job to retry or to failed, and emits
\* `failed` to alFallar, which consumes the mark of sinMarcar and goes on to
\* the backup only if no attempt is left.  Without the lock nothing moves and
\* nothing is emitted.
Fallar(w) ==
  LET i == worker[w].i
      hechos == HechosTras(i)
      agotado == hechos >= MaxIntentos
      marcada == i \in worker[w].sinMarcar
  IN /\ worker[w].pc = "fallar"
     /\ IF job[i].dueno = w
        THEN /\ job' = [job EXCEPT ![i] = [@ EXCEPT !.hechos = hechos, !.dueno = None,
                          !.estado = IF agotado THEN "failed" ELSE "waiting"]]
             /\ worker' = [worker EXCEPT ![w] =
                  IF agotado /\ ~marcada
                  THEN [@ EXCEPT !.pc = "respaldo"]
                  ELSE [SinTrabajo EXCEPT !.sinMarcar = worker[w].sinMarcar \ {i}]]
        ELSE /\ job' = job
             /\ worker' = [worker EXCEPT ![w] = Soltar(w)]
     /\ UNCHANGED <<reloj, fallos, guest, inv, correo, acusada, deApi>>

\* The worker process dies: what it had in memory is gone, the job stays
\* active in Redis until the stalled check finds it.
CaeWorker(w) ==
  /\ worker[w] # SinTrabajo
  /\ Falla
  /\ worker' = [worker EXCEPT ![w] = SinTrabajo]
  /\ UNCHANGED <<reloj, guest, inv, job, correo, acusada, deApi>>

Atendido(i) == \E w \in Workers : job[i].dueno = w /\ worker[w].i = i

\* BullMQ's stalled check: back to waiting, or failed once MaxAtascos is
\* spent.  That `failed` is global: no alFallar runs.
TrasAtasco(i) ==
  job' = [job EXCEPT ![i] =
    IF job[i].atascos < MaxAtascos
    THEN [@ EXCEPT !.estado = "waiting", !.dueno = None, !.atascos = job[i].atascos + 1]
    ELSE [@ EXCEPT !.estado = "failed", !.dueno = None]]

\* The owner is dead...
Atasco(i) ==
  /\ job[i].estado = "active"
  /\ ~Atendido(i)
  /\ TrasAtasco(i)
  /\ UNCHANGED <<reloj, fallos, guest, inv, correo, acusada, worker, deApi>>

\* ...or alive and unable to renew its lock in time.
AtascoConVida(i) ==
  /\ job[i].estado = "active"
  /\ Atendido(i)
  /\ Falla
  /\ TrasAtasco(i)
  /\ UNCHANGED <<reloj, guest, inv, correo, acusada, worker, deApi>>

\* The row that actualizarEstadoPorMessageId finds and advances.
AvanzaConMensaje(i, estado) ==
  /\ inv[i].conId
  /\ ~InvitacionBloqueada(i)
  /\ inv[i].status \in EstadosQuePuedenAvanzarA(estado)

\* HandleDeliveryEventUseCase: webhooks repeat and arrive in any order.  A
\* notice follows the row that advanced; the failure of that enqueue is
\* swallowed.
Webhook(i, estado) ==
  /\ correo[i] # None
  /\ AvanzaConMensaje(i, estado)
  /\ inv' = [inv EXCEPT ![i].status = estado]
  /\ \/ avisos' = avisos \cup {<<i, estado>>} /\ UNCHANGED fallos
     \/ Falla /\ UNCHANGED avisos
  /\ UNCHANGED <<reloj, guest, job, correo, acusada, notificada, worker, envio,
                 edicion, respuesta>>

-----------------------------------------------------------------------------
(* POST /rsvp/:token *)

deCorreo == <<job, correo, acusada, worker, envio, edicion>>

\* Whoever has the mail posts an answer; ahora is read when it arrives.
RecibirRespuesta(r, i, cuerpo) ==
  /\ respuesta[r].pc = "libre"
  /\ correo[i] # None
  /\ respuesta' = [respuesta EXCEPT ![r] = [pc |-> "lee", i |-> i, ahora |-> reloj,
       r |-> [cuerpo EXCEPT !.comp = IF cuerpo.rsvp = "DECLINED" THEN 0 ELSE @]]]
  /\ UNCHANGED <<reloj, fallos, guest, inv, notificada, avisos, deCorreo>>

\* Mutant: a link that cannot be answered is read again.
LeerInvitacionReintenta(r) ==
  /\ respuesta[r].pc = "lee"
  /\ LET i == respuesta[r].i
     IN respuesta' = IF Existe(i) /\ inv[i].expiresAt > respuesta[r].ahora
                     THEN [respuesta EXCEPT ![r].pc = "tx"] ELSE respuesta
  /\ UNCHANGED <<reloj, fallos, guest, inv, notificada, avisos, deCorreo>>

\* buscarInvitacionRespondible and the quota, read outside the transaction:
\* 404, RSVP_CLOSED, too many companions, or go on.
LeerInvitacion(r) ==
  LET p == respuesta[r]
      respondible == Existe(p.i) /\ inv[p.i].expiresAt > p.ahora /\ p.ahora < Cierre
      cabe == p.r.comp <= guest[inv[p.i].guest].allowed
  IN /\ p.pc = "lee"
     /\ respuesta' = [respuesta EXCEPT ![r] =
          IF respondible /\ cabe THEN [@ EXCEPT !.pc = "tx"] ELSE SinRespuesta]
     /\ UNCHANGED <<reloj, fallos, guest, inv, notificada, avisos, deCorreo>>

\* Mutant: marcarRespondida writes on a connection outside the transaction.
MarcarRespondidaFuera(r) ==
  LET p == respuesta[r]
      hay == Existe(p.i) /\ inv[p.i].expiresAt > p.ahora
  IN /\ p.pc = "tx"
     /\ ~InvitacionBloqueada(p.i)
     /\ inv' = IF hay THEN [inv EXCEPT ![p.i].status = "RESPONDED"] ELSE inv
     /\ respuesta' = [respuesta EXCEPT ![r] = IF hay THEN [@ EXCEPT !.pc = "tx2"] ELSE SinRespuesta]
     /\ UNCHANGED <<reloj, fallos, guest, notificada, avisos, deCorreo>>

\* First statement: marcarRespondida, WHERE expiresAt > ahora; 0 rows is 404.
MarcarRespondida(r) ==
  LET p == respuesta[r]
  IN /\ p.pc = "tx"
     /\ ~InvitacionBloqueada(p.i)
     /\ respuesta' = [respuesta EXCEPT ![r] =
          IF Existe(p.i) /\ inv[p.i].expiresAt > p.ahora
          THEN [@ EXCEPT !.pc = "tx2"] ELSE SinRespuesta]
     /\ UNCHANGED <<reloj, fallos, guest, inv, notificada, avisos, deCorreo>>

\* Second statement, the guest's row: the CHECK may reject it, and all is
\* undone.  Then the notifications, and the commit of the three writes.
ConfirmarRespuesta(r) ==
  LET p == respuesta[r]
      g == inv[p.i].guest
      nueva == [guest[g] EXCEPT !.rsvp = p.r.rsvp, !.confirmed = p.r.comp]
  IN /\ p.pc = "tx2"
     /\ ~InvitadoBloqueado(g)
     /\ IF CupoCubre(nueva)
        THEN /\ inv' = [inv EXCEPT ![p.i].status = "RESPONDED"]
             /\ guest' = [guest EXCEPT ![g] = nueva]
             /\ notificada' = [notificada EXCEPT ![g] = p.r.rsvp]
             /\ respuesta' = [respuesta EXCEPT ![r].pc = "aviso"]
        ELSE /\ respuesta' = [respuesta EXCEPT ![r] = SinRespuesta]
             /\ UNCHANGED <<inv, guest, notificada>>
     /\ UNCHANGED <<reloj, fallos, avisos, deCorreo>>

\* After the commit the notice is enqueued; its failure is swallowed.
EncolarAviso(r) ==
  /\ respuesta[r].pc = "aviso"
  /\ \/ avisos' = avisos \cup {<<respuesta[r].i, "RESPONDED">>} /\ UNCHANGED fallos
     \/ Falla /\ UNCHANGED avisos
  /\ respuesta' = [respuesta EXCEPT ![r] = SinRespuesta]
  /\ UNCHANGED <<reloj, guest, inv, notificada, deCorreo>>

-----------------------------------------------------------------------------
(* What Postgres and the operating system do to the requests *)

\* A PATCH holds the guest and wants the invitation, an answer holds the
\* invitation and wants the guest: Postgres aborts one of the two.
Interbloqueo(e, r) ==
  /\ edicion[e].pc = "tx2" /\ respuesta[r].pc = "tx2"
  /\ inv[respuesta[r].i].guest = edicion[e].g
  /\ \E t \in edicion[e].desde..reloj : respuesta[r].i \in VigentesDe(edicion[e].g, t)
  /\ \/ edicion' = [edicion EXCEPT ![e] = SinEdicion] /\ UNCHANGED respuesta
     \/ respuesta' = [respuesta EXCEPT ![r] = SinRespuesta] /\ UNCHANGED edicion
  /\ UNCHANGED <<reloj, fallos, guest, inv, job, deCola, envio>>

\* The API process dies: open transactions roll back, requests are forgotten.
CaeApi ==
  /\ Falla
  /\ envio' = [s \in Senders |-> SinEnvio]
  /\ edicion' = [e \in Editors |-> SinEdicion]
  /\ respuesta' = [r \in Responders |-> SinRespuesta]
  /\ UNCHANGED <<reloj, guest, inv, job, deCola>>

PasoEnvio(s) == \/ CaducarAnteriores(s) \/ CrearRechazada(s) \/ Encolar(s) \/ EncolarFalla(s)
                \/ \E i \in Invs : CrearInvitacion(s, i)
PasoEdicion(e) == \/ EditarSinTransaccion(e) \/ EditarEnTransaccion(e)
                  \/ CaducarEnTransaccion(e) \/ ConfirmarEdicion(e)
PasoRespuesta(r) == \/ LeerInvitacion(r) \/ MarcarRespondida(r)
                    \/ ConfirmarRespuesta(r) \/ EncolarAviso(r)
PasoWorker(w) == \/ EnviarOk(w) \/ EnviarRechazado(w) \/ EnviarSinRespuesta(w)
                 \/ MarcarEnviada(w) \/ MarcarFalla(w) \/ CaducarAgotada(w)
                 \/ CaducarAgotadaFalla(w) \/ Completar(w) \/ Fallar(w)

Next ==
  \/ Tick
  \/ \E s \in Senders : EnviarTodos(s) \/ PasoEnvio(s) \/ \E g \in Guests : EnviarUno(s, g)
  \/ \E e \in Editors : PasoEdicion(e)
                        \/ \E g \in Guests, c \in Cambios : LeerParaEditar(e, g, c)
  \/ \E g \in Guests : BorrarInvitado(g)
  \/ \E w \in Workers : PasoWorker(w) \/ CaeWorker(w) \/ \E i \in Invs : Tomar(w, i)
  \/ \E i \in Invs : Atasco(i) \/ AtascoConVida(i)
                     \/ \E e \in Eventos : Webhook(i, e)
  \/ \E r \in Responders : PasoRespuesta(r)
                           \/ \E i \in Invs, b \in Respuestas : RecibirRespuesta(r, i, b)
  \/ \E e \in Editors, r \in Responders : Interbloqueo(e, r)
  \/ CaeApi

Spec == Init /\ [][Next]_vars

\* Fairness: the server finishes what it started, and a statement that waits
\* for a row lock gets it in the end, because Postgres queues the waiters:
\* hence SF for the requests.  Users, webhooks, the clock and faults owe
\* nothing.
Equidad ==
  /\ \A s \in Senders : SF_vars(PasoEnvio(s))
  /\ \A e \in Editors : SF_vars(PasoEdicion(e))
  /\ \A r \in Responders : SF_vars(PasoRespuesta(r))
  /\ \A w \in Workers : SF_vars(PasoWorker(w)) /\ WF_vars(\E i \in Invs : Tomar(w, i))
  /\ \A i \in Invs : WF_vars(Atasco(i))
  /\ WF_vars(\E e \in Editors, r \in Responders : Interbloqueo(e, r))

FairSpec == Spec /\ Equidad

-----------------------------------------------------------------------------
(* Properties *)

\* Every variable holds what its column, job or in-memory object can hold.
ClockOK == reloj \in 0..MaxReloj /\ fallos \in 0..MaxFallos
GuestOK == guest \in [Guests -> FilaInvitado]
InvOK == /\ inv \in [Invs -> FilaInvitacion]
         /\ \A i \in Invs : inv[i].status # "NUEVA" => inv[i].guest \in Guests
JobOK == job \in [Invs -> FilaJob]
MailOK == correo \in [Invs -> Emails \cup {None}] /\ acusada \subseteq Invs
NoticeOK == /\ notificada \in [Guests -> {"CONFIRMED", "DECLINED", None}]
            /\ avisos \subseteq Invs \X Estados
WorkerOK ==
  /\ worker \in [Workers -> EstadoWorker]
  /\ \A w \in Workers : worker[w].pc # "libre" => worker[w].i \in Invs
EnvioOK ==
  /\ envio \in [Senders -> EstadoEnvio]
  /\ \A s \in Senders : /\ envio[s].pc \in {"crear", "encolar"} => envio[s].g \in Guests
                        /\ envio[s].pc = "encolar" => envio[s].i \in Invs
EdicionOK ==
  /\ edicion \in [Editors -> EstadoEdicion]
  /\ \A e \in Editors : edicion[e].pc # "libre" => edicion[e].g \in Guests
RespuestaOK ==
  /\ respuesta \in [Responders -> EstadoRespuesta]
  /\ \A r \in Responders : respuesta[r].pc # "libre" => respuesta[r].i \in Invs

TypeOK == /\ ClockOK /\ GuestOK /\ InvOK /\ JobOK /\ MailOK /\ NoticeOK
          /\ WorkerOK /\ EnvioOK /\ EdicionOK /\ RespuestaOK

\* The status of an invitation only advances in the order of ORDEN, and never
\* leaves RESPONDED, however late worker retries, webhooks and answers arrive
\* (estadosQuePuedenAvanzarA in the WHERE of each write).
StatusOnlyAdvances ==
  [][\A i \in Invs : Existe(i) /\ inv'[i].status \in Estados /\ inv'[i].status # inv[i].status
       => Rango(inv[i].status) < Rango(inv'[i].status)]_inv

\* A link that stopped working never works again: resend, change of email and
\* the worker's give-up only bring expiresAt to a moment already past.
LinkNeverRevives ==
  [][\A i \in Invs : Existe(i) /\ ~Viva(i) => ~Viva(i)']_vars

\* Two live links of one guest can only come from two send requests that
\* overlapped: a single request line never leaves two (ruling C24).
TwoLiveLinksNeedTwoSenders ==
  \A i, j \in Invs : i # j /\ Viva(i) /\ Viva(j) /\ inv[i].guest = inv[j].guest
                     => inv[i].autor # inv[j].autor

\* A change of email kills every link of the guest whose row was there when
\* its transaction expired them, also one already used to answer, and though
\* between that statement and the commit other writers touch the same rows:
\* none is alive when the new address shows.
ChangeOfEmailKillsOlderLinks ==
  [][\A e \in Editors :
       /\ edicion[e].pc = "commit" /\ edicion'[e].pc = "libre"
       /\ guest'[edicion[e].g].email # guest[edicion[e].g].email
       => \A i \in edicion[e].habia : ~Viva(i)']_vars

\* An invitation that is past QUEUED was really mailed: no path of retries,
\* lost responses or webhooks records a mail that never left.
SentMeansMailed ==
  \A i \in Invs : Existe(i) /\ inv[i].status # "QUEUED" => correo[i] # None

\* The three writes of an answer go together: a RESPONDED invitation has a
\* guest with companions on record and a notification for the couple.
RespondedMeansRecorded ==
  \A i \in Invs : inv[i].status = "RESPONDED"
    => /\ guest[inv[i].guest].confirmed # None
       /\ notificada[inv[i].guest] # None

\* Requests, retries, crashes and webhooks never make an invitation do what
\* one that is handled by a single operation at a time could not do: it keeps
\* the life cycle of InvitationLifecycle.
Ciclo == INSTANCE InvitationLifecycle WITH
  de <- [i \in Invs |-> inv[i].guest], estado <- [i \in Invs |-> inv[i].status],
  vivas <- {i \in Invs : Viva(i)}, mandadas <- {i \in Invs : correo[i] # None},
  dicha <- notificada
ImplementsLifecycle == Ciclo!CicloSpec

\* The couple is told of a status only if the invitation got at least there;
\* BOUNCED and COMPLAINED are never both told of one invitation.
NoticeMeansAdvanced ==
  \A i \in Invs :
    /\ \A e \in Estados : <<i, e>> \in avisos /\ Existe(i) => Rango(e) <= Rango(inv[i].status)
    /\ ~({<<i, "BOUNCED">>, <<i, "COMPLAINED">>} \subseteq avisos)

\* Ruling C18: a failed job keeps the token in Redis, so its link is dead
\* unless the mail left.  One infrastructure fault (a write that fails, a
\* process that dies, a lost lock) is not enough to break it.
FailedJobLinkIsDead ==
  \A i \in Invs :
    /\ job[i].estado = "failed" /\ fallos <= 1
    /\ \A w \in Workers : ~(worker[w].pc = "respaldo" /\ worker[w].i = i)
    => ~Viva(i) \/ correo[i] # None

\* Every job ends: it completes or fails, whatever retries and stalls it meets.
JobEnds == \A i \in Invs : job[i].estado # "none" ~> job[i].estado \in {"none", "failed"}

\* Every answer that starts ends, also when its transaction meets that of a
\* change of email with the rows locked in the opposite order.
AnswerEnds == \A r \in Responders : respuesta[r].pc # "libre" ~> respuesta[r].pc = "libre"

\* What invitation.repository.ts says of caducarVigentesDe: "a guest has at
\* most ONE live token".
AtMostOneLiveLink ==
  \A i, j \in Invs : Viva(i) /\ Viva(j) /\ inv[i].guest = inv[j].guest => i = j

\* What prisma-invitation.repository.ts says of marcarRespondida: a link that
\* expires between the read and the write leaves the write without rows.
AnswerNeedsLiveLink ==
  [][\A r \in Responders : respuesta[r].pc = "tx" /\ respuesta'[r].pc = "tx2"
       => Viva(respuesta[r].i)]_vars

\* What update-guest.use-case.ts says of a change of email: there is no new
\* address with the link of the old one still alive.
NoLiveLinkAtOldAddress ==
  \A i \in Invs : correo[i] # None /\ Viva(i) => guest[inv[i].guest].email = correo[i]

\* What invitation.processor.ts says of the last attempt: if the mail already
\* left, its link is not expired.
MailedLinkIsNotExpired ==
  [][\A w \in Workers : worker[w].pc \in {"caducar", "respaldo"} /\ inv' # inv
       /\ worker'[w] # worker[w] => worker[w].i \notin acusada]_vars
=============================================================================
