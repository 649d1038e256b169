# Formal model of the wedding planner backend

TLA+ modules, TLC configurations and TLAPS proofs about the backend in this
repository (NestJS, Prisma on Postgres, BullMQ on Redis, socket.io). Paths below
are relative to `src/src/` unless they start with `src/`. Definitions keep the
Spanish names of the code.

## 1. The system

The API server, the queue workers and the websocket gateway share one Postgres
database and one Redis. Handlers are `async`: they interleave at every `await`,
within one process and between processes. Postgres runs at READ COMMITTED; most
use cases read, decide and write in separate statements, a few inside
`UnitOfWork.ejecutar` (one transaction). BullMQ delivers jobs at least once.

| Component | State | Operations | Talks to |
|---|---|---|---|
| invitation sending (`modules/guests/application/send-*.ts`) | `guest_invitations` | send one, send all pending, resend | queue `invitations` |
| invitation worker (`modules/guests/interfaces/invitation.processor.ts`) | BullMQ job, `sinMarcar` in memory | attempt, mark sent, give up, backup on `failed` | mail provider, `guest_invitations` |
| delivery webhooks (`handle-delivery-event.use-case.ts`) | `guest_invitations.status` | advance by message id | queue `notifications` |
| public RSVP (`submit-rsvp.use-case.ts`) | invitation, guest, notifications in one transaction | read, answer | queue `notifications` |
| guests (`modules/guests`) | `guests` | create, import CSV, PATCH, DELETE, list, summary | invitations (change of email kills links) |
| sessions (`modules/auth`, refresh, login, logout) | `sessions` with families | login, rotate, grace window, revoke family or user | users |
| password reset | `password_reset_tokens` | request, consume and revoke all | sessions, queue `email` |
| registration and email verification | `email_verification_tokens`, `users` | register, verify, resend | queue `email` |
| notifications and realtime (`modules/notifications`) | `notifications`, socket rooms | persist, broadcast, join, leave, reauthenticate | events (access) |
| events, publication, membership (`modules/events`) | `events`, `event_members` | create, edit, publish, archive, invite member | everything that checks access |
| seating (`modules/seating`) | tables, assignments | create/delete table, assign, swap under the event's row lock | guests (companions) |
| expenses (`modules/expenses`) | expenses | create, PATCH with `paidAt`, budget | event |
| vendors (`modules/vendors`) | profiles, packages, portfolio, event vendors | profile mode, replace packages, portfolio upload | image storage |
| users and image storage | users, objects of the bucket | avatar in two steps | storage |
| schedule | schedule items | single-row edits | event |
| unit of work and queue port (`shared`) | - | commit, rollback, add job | Postgres, Redis |
| shared algorithms | - | cursor, amounts, rate limit, CSV validation, guest summary | - |
| HTTP surface, configuration | - | parsing, limits, health | - |

### What is hard

* Interleavings between the statements of two requests: two sends to one guest,
  a send against a change of email, a login against a password reset.
* Dates read before an `await` and written or compared after it (`ahora` of the
  RSVP, `new Date()` of `caducarVigentesDe`).
* Retries with partial effects: the mail left and the mark failed; the provider
  accepted and the response was lost; a worker died or lost its lock.
* Three parties count the attempts of a job: BullMQ, `esUltimoIntento` and
  `alFallar`.
* Row locks taken in opposite orders (change of email against an answer; delete
  of a table against an assignment).
* Webhooks that repeat and arrive in any order.

### What makes each component correct

* Invitations: a guest is not left with links that should be dead; a status only
  advances; what a status or a notice says really happened; an answer is written
  whole or not at all; every job and every answer ends.
* Sessions: a token that was rotated away does not give a second living session;
  theft brings the whole family down; a reset leaves no session of before.
* Reset and verification tokens: used once; the last link wins; a crash does not
  leave a spent token and an unchanged account.
* Notifications: whoever lost access stops receiving; at-least-once broadcast
  shows a notification once persisted; a socket ends in the room it last asked for.
* Events: what publication requires stays true while the event is ACTIVE; access
  is what the membership says.
* Seating: capacity counted in seats is never exceeded; a guest has one seat.
* Expenses: `paidAt` is set exactly while the expense is paid.
* Vendors, storage: every object a row names exists; no orphan survives for ever.
* Shared algorithms: pages by cursor cover the list without loss or repetition.

`PROJECT.json` ("hazards") has each hazard at its line, with the properties that
cover it or the reason none does.

## 2. Modules

Invitations first, since it has the most actors and the most failure handling, then
authentication, then the services that share no state with them.

| Module | What it models | Abstract statement | Proofs |
|---|---|---|---|
| `Invitations` | sending, worker, webhooks, RSVP, PATCH and DELETE of a guest | implements `InvitationLifecycle` | `InvitationsProofs`, `InvitationsSafety` |
| `Sessions` | families, rotation, grace window, logout, login, forgot-password, reset | - | `SessionsProofs` |
| `Seating` over `SeatingDomain` | the seven routes of the plan, statement by statement, against deletions and RSVPs | implements `SeatingPlan` | `SeatingProofs` |
| `EventAccess` | access of a user to an event, the guards, the status of an answer | `TellsNothing` | in `EventsProofs` |
| `Events` | creation, PATCH, publication, members | - | `EventsProofs` |
| `Contracts` | vendors of an event, their audit log, expenses, budget | - | `ServicesProofs` |
| `Schedule` | items of the day, the stale PATCH against the CHECK | - | `ServicesProofs` |
| `GuestList` | creation, import of a file, change of address | - | `ServicesProofs` |
| `Listings` | the walk of a cursor over the four listings | - | `ServicesProofs` |
| `Realtime` | notifications, the job that announces them, rooms of sockets | - | `RealtimeProofs` |
| `Accounts` | registration, verification links, the worker of `email` | - | `AccountsProofs` |
| `Images` | avatar, portfolio, packages, mode of the vendor profile, bucket | - | `ServicesProofs` |

`MCInvitations`, `MCSessions` and `MCServices` give the constants their values;
`ServicesProofs` also proves what `MCServices` composes.

Composition. `SeatingDomain` holds the rows and pure rules that `Seating` and
`SeatingPlan` share. `EventAccess` is one service of the code that two parts use:
`Events` (every route of the API that names an event passes its guard) and
`Realtime` (a socket that joins). `Invitations` composes five parts in one state: the send, the
worker, the webhooks, the answer and the edition of a guest all write the same rows.
`Sessions` does it for login, refresh, logout and reset. The rest of the
services write tables of their own and meet only through reads that their modules
take as inputs: a guest changes at any moment in `Seating` (`CambiarInvitado`,
`EmpezarBorrado`), a membership and a contract in `Events` and `Realtime`
(`CambiarMembresia`, `CambiarContratacion`, `CambiarPermiso`), a profile in
`Contracts` (`CambiarPerfil`), a reset in `Accounts` (`actualizarPassword`). Each of these is as
free as the code that causes it, so composing the modules would only take
behaviours away.

That is why `MCServices` checks the nine of them in one run without multiplying
their states. Its variable `activo` says which one moves, for the whole behaviour;
the others stay in their initial state with no budget of requests. The reachable
states are then the sum of what each module reaches by itself. The initial
predicates take a budget of zero or of all of it for that purpose.

## 3. Module `Invitations`

### State

| Variable | Code |
|---|---|
| `guest` | rows of `guests`: email, rsvp, `companionsAllowed`, `companionsConfirmed` |
| `inv` | rows of `guest_invitations`. `conId`: the provider's message id is recorded. `autor` is history: the request that created it |
| `job` | BullMQ job `invitation-<id>`: state, attempts made, stalls, lock owner |
| `correo` | mail provider: the address the mail of the idempotency key left for |
| `acusada` | history: the invitations whose `mail.send` returned normally |
| `notificada`, `avisos` | rows of `notifications` about an answer, and jobs of the queue `notifications` |
| `worker` | a worker process: point in `process` / `alFallar`, address and attempts it read, its set `sinMarcar` |
| `envio`, `edicion`, `respuesta` | a request in flight: its point and what it read |
| `reloj`, `fallos` | clock; count of infrastructure faults |

Every action is one statement, one call to the provider or one step of BullMQ.
Transactions: the writes show at the commit; the rows written before are locked
(`InvitacionBloqueada`, `InvitadoBloqueado`) and a statement that needs them is
not enabled. `caducarVigentesDe` uses a date read at some moment since the
previous await (`desde..reloj`), and so does the expiry of a new link:
`caducidadInvitacion()` is computed before the INSERT is sent, and an INSERT that takes
the whole validity to arrive creates a link already dead. Where both transactions wait for each other,
`Interbloqueo` aborts one of them, as Postgres does.

### Actions and code

| Action | Code |
|---|---|
| `EnviarUno`, `EnviarTodos` | the guards of the two send use cases |
| `CaducarAnteriores`, `CrearInvitacion`, `CrearRechazada`, `Encolar`, `EncolarFalla` | `encolarInvitacion`, await by await, and the loop of the batch |
| `LeerParaEditar`, `EditarSinTransaccion`, `EditarEnTransaccion`, `CaducarEnTransaccion`, `ConfirmarEdicion` | `UpdateGuestUseCase` |
| `BorrarInvitado` | DELETE with its cascade |
| `Tomar` | BullMQ gives a job to a worker, and the reads of `enviar`, which may fail (`TrasFallar`) |
| `EnviarOk`, `EnviarRechazado`, `EnviarSinRespuesta` | `mail.send` under an idempotency key |
| `MarcarEnviada`, `MarcarFalla`, `Completar`, `Fallar` | the rest of `process` and BullMQ's answer to it |
| `CaducarAgotada`, `CaducarAgotadaFalla` | the expiry on the last attempt and its backup in `alFallar` |
| `Atasco`, `AtascoConVida`, `CaeWorker` | stalled check, lost lock, death of the process |
| `Webhook` | `HandleDeliveryEventUseCase` |
| `RecibirRespuesta`, `LeerInvitacion`, `MarcarRespondida`, `ConfirmarRespuesta`, `EncolarAviso` | `SubmitRsvpUseCase` |
| `CaeApi`, `Tick` | the API process dies; time passes |

### Refinement

`InvitationLifecycle` says what an invitation promises with every operation at once
and alone, as in the in-memory repository of the tests: a link lives at most once
and dies once (one may be born dead, of a creation that took longer than its validity), a mail leaves at most once, a status moves forward and only for a mail that left,
and an answer is recorded with its notification. `Ciclo` maps to it the columns of
`inv` (`de`, `estado`, `vivas`), the mails the provider accepted (`mandadas`) and the
notification of each guest (`dicha`).

### Left out of the module, and why

* A payload that does not parse (`UnrecoverableError`): the only producer is
  `encolarInvitacion`.
* The two reads that start an answer (the invitation by hash, then its guest)
  are one step: both facts are checked again in the transaction.
* Guests are there from the initial state: creation and import (`GuestList`) only
  add PENDING guests with no invitation.
* Rejections that change nothing (404, 401, validation) are stutters; only those
  that end a request in flight appear.
* The provider: a second call with the key of a mail already accepted returns
  the first answer. The code names the case of a twin request still in flight
  (`concurrent_idempotent_requests`); here such a request counts as accepted.
  The key's 24 h of life are longer than the retries of a job.
* Webhook signatures and parsing; text of the mails; the guest's other columns.
* Notices are a set: a repeated job with the same id is the same element.
* One clock for all processes.

## 4. Module `Sessions`

### State

| Variable | Code |
|---|---|
| `sesion` | rows of `sessions`: family, expiry, `revokedAt`. `familia = None`: an id not used yet |
| `ficha` | rows of `password_reset_tokens`: status and expiry. `NUEVA`: an id not used yet |
| `clave` | how many times the password hash of the user was written |
| `cola` | jobs of the queue `email`: the link of a token, the notice of a change |
| `entregado` | sessions whose token was in an answer, so a browser has or had it |
| `cookie` | for each family, the token its browser keeps: that of the last answer to arrive |
| `peticion`, `olvido`, `reset` | a refresh or logout, a forgot-password and a reset-password in flight: its point and what it read |
| `reloj`, `fallos` | clock; count of infrastructure faults |

One user; each login is one browser and opens one family. A transaction shows
its writes at its commit and holds until then what it took: `FamiliaBloqueada` are
the advisory locks of `bloquearFamilia`, `SesionBloqueada`, `FichaBloqueada` and
`UsuarioBloqueado` the row locks. The `updateMany` of a revocation is two steps,
because at READ COMMITTED it is two: it selects its rows on what is committed
(`RevocarBloquear`, `SeleccionarSesiones`) and then waits for them and checks the
condition again (`RevocarConfirmar`, `RevocarTodas`). That gap is what the advisory
locks are there to cover, so the model must have it.

### Actions and code

| Action | Code |
|---|---|
| `Login` | `LoginUseCase`, from `sesiones.crear` on |
| `Pedir` | a browser sends POST /auth/refresh or /auth/logout with a token it has |
| `LeerSesion`, `Gracia`, `BuscarViva` | `RefreshUseCase.ejecutar` and `intentarContinuarComoConcurrente`, await by await |
| `RotarBloquear`, `RotarCas`, `RotarInsertar` | `rotar`: lock, compare-and-swap, insert and commit |
| `Firmar` | `firmarRespuesta` and the cookie of the answer |
| `RevocarBloquear`, `RevocarConfirmar` | `revocarFamilia`, for a reuse and for a logout |
| `Olvidar`, `OlvidoCaducar`, `OlvidoCrear`, `OlvidoEncolar` | `ForgotPasswordUseCase`, whose `emitirEnlace` is not awaited |
| `UsarEnlace`, `Consumir`, `ActualizarPassword`, `ListarFamilias`, `TomarCerrojo`, `SeleccionarSesiones`, `RevocarTodas`, `ConfirmarReset`, `AvisarDelCambio` | `ResetPasswordUseCase`, statement by statement, and the notice after it |
| `Interbloqueo` | Postgres aborts one of two resets that wait for each other |
| `CaeApi`, `Tick` | the API process dies; time passes |

`SoloCookie` chooses what a request may carry: the cookie of the browser, or any
token an answer ever had (a second tab that sent its request before the first
answer arrived, a copy).

### Left out of the module, and why

* Rejected logins (wrong password, email not verified) and a refresh with an
  unknown token write nothing. A login that verified the password may create its
  session at any later moment, even after a reset: `Login` has no guard on
  `clave`.
* Access tokens: signed, not stored; no session depends on them.
* Deletion of a user, and with it the user that `firmarRespuesta` does not find.
* The worker that mails the link: a link may be used from the moment its job is
  queued. The worker belongs to `Accounts`.
* `emailVerifiedAt`, written by `actualizarPassword` in the row it already holds.
* `revokedAt` is the reading of the clock at the commit; the code reads it before
  it waits for the row. It only moves the edge of the grace window.
* The locks of families are taken in any order: only a reset takes more than one,
  and it does so with the row of the user taken, so two resets never hold families
  at a time.
* `caducarVigentesDe` of a forgot-password takes its rows at once. Taken one by one
  they may deadlock with a reset, and Postgres aborts either: the aborted reset is
  an outcome `CaeApi` already gives, the aborted forgot-password leaves no token.
* Rotation of a session row that is gone: rows are never deleted.

## 5. The services

In all of them a use case that reads, decides and writes in separate statements is
several actions: the first reads and decides, the next write *whatever the row
is by then*. A request lives in a record with its point (`pc`) and what it
read. `Cae...` is the death of the process, a lost connection or a rejected
statement between two steps; what was committed stays. A rejection before anything
is read again (404, 422, validation) changes nothing and is no step. A counter bounds the requests and the
changes from outside.

### `SeatingDomain`, `SeatingPlan`, `Seating`

| State | Code |
|---|---|
| `mesas`, `asignaciones`, `invitados` | committed rows of `seating_tables`, `seat_assignments`, `guests` |
| `peticion` | an open transaction: its point, the assignments it read, deleted (`quitadas`) and inserted (`puestas`), the tables it wrote (`filas`) |
| `borrando` | rows whose DELETE holds the row and waits for its cascade |

| Action | Code |
|---|---|
| `Asignar`, `LeerInvitado`, `LeerAsignaciones`, `QuitarOcupantes`, `AsignarDestino`, `AsignarIntercambio` | `AssignSeatUseCase` |
| `VaciarAsiento` | `ClearSeatUseCase` |
| `CrearMesa`, `GenerarMesas`, `crearMesas` | creation of one table or several |
| `ActualizarMesa`, `ComprobarVacios`, `actualizarMesa` | `UpdateTableUseCase` |
| `Confirmar`, `Deshacer` | commit and rollback |
| `EmpezarBorrado`, `TerminarBorrado` | deletion of a table, or of a guest, outside the lock of the event, with its cascade |
| `CambiarInvitado` | RSVP or PATCH of a guest, with no lock of the event |
| `Interbloqueo` | the detector of Postgres aborts either side |

`CerrojoLibre` is `SELECT ... FOR UPDATE` on the event. A transaction shows its
writes at its commit. Row locks are the ones that matter here: an insert waits
for a DELETE of a row it names, a DELETE waits for the inserts that name its row
(`Retenida`) and its cascade for the assignments a transaction took away (`EsperaA`).
`SeatingPlan` is the promise: each operation of `SeatingRepository` at
once and alone, as in the in-memory double the use cases are tested
against. The refinement mapping is the identity on the committed rows, so every commit must be one
of its operations on the plan *as it is at the commit*, however old the reads are.
Left out: name and position of a table (never read by a decision).

### `EventAccess` and `Events`

`EventAccess` has no variables. `resolve` is `EventAccessService`: an admin, an
ACTIVE member, a BOOKED vendor of a published event, or nobody. `listado` is the
condition of `GET /events`, which says the same in SQL of every user but an ADMIN, who passes
the guard of every event and is listed only those he has himself; `AccessAgrees` is about users. `respuesta` follows a
request from the body parser through `JwtAuthGuard` and `EventAccessGuard`
to the status of `DomainExceptionFilter`. The `Rutas...` records are the
`@RequireEventAccess` lists of the seven controllers.

`Events` has the row of one event (its columns reduced to whether they hold a value;
a venue may be an address without coordinates, as migrated rows are), the
memberships and contracts of each user, and the jobs `event-invite-<membership>`.
`Editar`/`EditarEscribir` are `UpdateEventUseCase`: it decides on what it read and
writes only the columns that came; `AdmiteEvento` is the CHECK that judges the write.
`Publicar`/`PublicarEscribir` are `PublishEventUseCase`, whose write repeats the
check in its WHERE. `Invitar`, `invitarMiembro`, `EncolarInvitacion` are
`InviteMemberUseCase`. Nothing under `src/` accepts an invitation or expels a
member: `CambiarMembresia` is external.

### `Contracts`

Vendors of the event with their audit log, expenses, and the sums of the budget.
`Crear...`, `Actualizar...`, `Quitar...` read; `crearGasto`, `actualizarGasto`,
`crearContrato`, `actualizarContrato`, `eliminar` write. A PATCH names some of its fields
or none of those modelled ("undefined", `SinMonto`) and leaves the rest of the row as it is by then.
`sumas` is the sum of the tables at one instant, for the property: the code runs its two
statements at once, and a summary may see a commit between them. `AdmiteClave` is the
foreign key of expenses (ON DELETE RESTRICT) and `AdmitePagado` the CHECK
`expenses_pagado_con_fecha`. `parseVendorRef` decides linked or external.

### `Schedule`, `GuestList`

`Schedule`: PATCH validates the range against what it read and writes its columns
over what is there; `schedule_items_rango` is the last word. Its property is in its
type invariant: no item ends before it begins.
`GuestList`: the unique index compares addresses as written, the import
also without case. `Importar` checks the whole file against the addresses there are;
`crearVarios` is one INSERT.

### `Listings`

A client walks one of the four lists by cursor while rows are inserted (with any
`createdAt`, since a transaction takes its time at its start), leave or enter the
filter, or go. A page is the set of rows that come first after the cursor, one
more than asked for telling whether another follows. The WHERE of each repository is a definition of its own (`trasInvitado`,
`trasFicha`, `trasGasto`, `trasNotificacion`).

### `Realtime`

| State | Code |
|---|---|
| `enchufe` | a socket: user, expiry of its token, rooms, bucket of joins, its "join" in flight |
| `notificacion`, `aviso` | rows of `notifications` about one answer and the job that announces it |
| `permiso` | system role, membership and contract of each user, which change at any moment |
| `haSido`, `enchufe[s].planificador` | history: who was an active member since the answer; who was one, or an ADMIN, while connected |

`unirse`, `ResolverAcceso`, `EntrarSala` are one "join", cut at its awaits; `salir`
and `Desconectar` may come in between. `EmitirAEvento`, `destinatarios`,
`EmitirAUsuario`, `CompletarAviso`, `RepetirAviso` are the worker; `Emitir` may lose the
PUBLISH. At each "join" the gateway reads the user's row with the token (`rol`), and an
ADMIN enters the room of any event with no membership, as `salas.ts` says: planners, in
`NoticesReachOnlyPlanners`, are active members and ADMINs. A leave overtaken by the join it
crosses leaves the socket in the room; nothing in the code promises otherwise.

### `Accounts`

`Registrar`, `create`, `notificarExistente`: the race of two registrations for one
address ends at the unique index. `Reenviar`, `caducarVigentesDe`, `crear`,
`enqueue`: the issue of a link, which no transaction covers. `process`: the
worker of `email`, at least once. `consumirPorHash`, `marcarEmailVerificado`: the
click, in two statements. `actualizarPassword`: a reset, which proves the mailbox.

### `Images`

The showcase of one user: `preparar` and `Subir` (signed URL, PUT), then the
confirmation (`SetAvatar`, `AddPortfolioImage`) that looks at the object and writes
a row, or deletes it if its type or size is not valid (`confirmarNoValida`; `NoValidas` are the
keys whose objects are not), and `borrar` of what the row no longer shows, which may fail.
`bloquearFicha`/`agregarFoto` is the transaction that counts the photos under the
lock of the profile; `borrarFoto` takes no lock. `ReplacePackages` and
`SetVendorMode` read and write apart with nothing to protect them.

## 6. Runs

`CHECK_DEADLOCK FALSE` everywhere: when the ids, the clock and the faults are used
up and nobody asks for anything the system rests.

| Run | Question | Bounds |
|---|---|---|
| `InvDelivery` | one invitation from the send to the answer through two workers: `SentMeansMailed`, `FailedJobLinkIsDead`, `NoticeMeansAdvanced`, `StatusOnlyAdvances`, `LinkNeverRevives`, and `ImplementsLifecycle` | 2 attempts, 1 stall, 2 faults, 2 instants, the three delivery events |
| `InvRsvp` | two invitations of a guest with a send, a PATCH, a DELETE and an answer interleaved: `TypeOK`, `TwoLiveLinksNeedTwoSenders`, `RespondedMeansRecorded`, `ChangeOfEmailKillsOlderLinks` | 1 process of each kind, quota 0..1, 2 instants, closing date inside the window |
| `InvLive` | `JobEnds`, `AnswerEnds` under `FairSpec` | 2 attempts, 1 stall, 1 fault, clock still |
| `InvTwoLinks` | `AtMostOneLiveLink` is violated | 2 senders |
| `InvLateAnswer` | `AnswerNeedsLiveLink` is violated | one answer, one change of email |
| `InvOldAddress` | `NoLiveLinkAtOldAddress` is violated | one send, up to two PATCHes |
| `InvMailedExpired` | `MailedLinkIsNotExpired` is violated | 2 attempts, 1 fault |
| `SesRotation` | what rotations and revocations leave: `TypeOK`, `OneLivePerFamily`, `ReuseNeedsRevocation`, `FamilyRevocationIsTotal`, `DeadFamilyStaysDead`, `ResetKillsListedFamilies` | 4 sessions of a family, 2 refreshes or logouts at a time, one reset, 1 fault, 2 instants, any token the browser had |
| `SesReset` | `OneChangePerToken`, and `RequestEnds` and `ResetEnds` under `FairSpec` | 2 forgot-passwords, 2 tokens, 2 resets, one refresh or logout, clock still |
| `SesCookie` | `CookieIsLive` is violated | 3 sessions, 2 refreshes with the cookie of the browser |
| `Services` | what the nine services promise: `TypeOK`, `EveryoneSeatedIsShown`, `SeatIsFreeWhenTaken`, `ImplementsSeatingPlan`, `SeatingRequestEnds`, `OwnerKeepsAccess`, `AccessAgrees`, `PublishesOnlyComplete`, `LosesFieldsOnlyToStalePatch`, `AuditTellsTheStory`, `VendorLeavesNoHole`, `CheckNeverRejectsPatch`, `WalkIsExact`, `ImportDoublesNoMailbox`, `NoticesReachOnlyPlanners`, `ReadingIsKept`, `OneLiveLink`, `AlreadyVerifiedIsTrue`, `ShowcaseIsInOrder` | two requests at a time and three in all per service (see below) |
| `ImgRetry` | `LimitDeletesOnlyOrphans` is violated | one request at a time, one photo, a portfolio of one |

Why these bounds are enough to show something: two attempts tell the last one
from the others; two workers are what a stalled job needs; two faults allow a
failed write after a lost response (and `FailedJobLinkIsDead` speaks of at most
one, see below); two invitations are a resend; validity of one tick lets a link
expire inside the run. The clock stands still in `InvLive`: dates only decide
which branch ends a request, and every branch ends it. Between them the three
passing runs take every action of `Invitations`.

In `SesRotation` two requests are a pair of twins, or a rotation and the
revocation that crosses it; four sessions are the first one and three rotations,
so the loser of the twins rotates the heir and a third rotation follows. Two
instants, with a life of one tick and a window of none, make a token expire and the
window close inside the run. One family is enough there: no operation but a reset
relates two. A request starts only while an id is left for the session it may
create (`QuedanSesiones`), and so does a forgot-password for its token: an id that
runs out is no behaviour of the code. In `SesReset` two links, two forgot-passwords
that overlap and two resets are what the deadlock of two resets needs. Symmetry is
used in `SesRotation` only, which checks no liveness. The two passing runs take
every action of `Sessions`.

`FailedJobLinkIsDead` is stated for at most one fault because the code promises no
more: with a dead worker and a failed write of the backup the link of a job that
failed for good stays alive until it expires by itself.

In `Services` each service has two requests in flight, the number every one of its
races needs, and a budget of three operations, so that a third party (a
deletion, a change of membership, a reset) comes between the two; `Listings` has two
changes while a client walks three rows in pages of one or two. A plan of
two tables with at most two seats and two guests, one of them with a companion, has every
case of a swap: same table, other table, seat taken, person seated elsewhere. One
member besides the owner is enough where nothing relates two. Three links let a
resend cross another and a third follow. Two users, one socket, a
token that lives one tick and a bucket of two joins make a join refused for lack of tokens
and another for its expired token. A portfolio of two with three photos reaches
its limit; four keys are signed, one of them of an avatar that is not valid. There
is one amount, so a PATCH of the amount only changes what it leaves alone; the proofs are for any
set of amounts. Events start from a draft and PATCHes write one field or all of
them: a PATCH decides on each field apart.

### Fairness

`FairSpec` asks strong fairness of each request and worker at its next statement,
and weak fairness of taking a job, of the stalled check and of the deadlock
detector. Strong fairness is what Postgres gives: a statement that waits for a row
lock is queued and gets it although the row is locked and released many times. A
user owes nothing, nor does the clock, a webhook or a fault. In `Sessions` it is the
same: strong fairness of each refresh, logout and reset at its next statement, weak
fairness of the deadlock detector. A forgot-password owes nothing: it runs in the
background and nobody waits for it. `SeatingEquidad`, of `Services`, asks only weak
fairness of each request's next statement, of the end of each DELETE and of the
deadlock detector: the lock of the event lets one transaction through at a time, so
no statement is enabled and disabled for ever. Nobody has to send a request.

## 7. Disagreements found

Each one is a run with expected result *violation*.

* `InvTwoLinks`: "así un invitado tiene como mucho UN token vivo"
  (`invitation.repository.ts`). `encolarInvitacion` expires and creates in two
  statements; two overlapping sends expire first and create after, and both links
  live. What does hold is `TwoLiveLinksNeedTwoSenders`.
* `InvLateAnswer`: the comment of `marcarRespondida` promises that a link that
  expires between the read and the write leaves the write without rows. The
  comparison uses the date read when the request came in, so a link expired since
  then with a later date still counts as alive.
* `InvOldAddress`: "no queda un email nuevo con el enlace viejo aún vivo"
  (`update-guest.use-case.ts`). An invitation created after the expiry inside the
  transaction and mailed before its commit goes to the old address and lives on.
  What does hold is `ChangeOfEmailKillsOlderLinks`: the links whose rows were there when
  the transaction expired them are dead when the new address shows.
* `InvMailedExpired`: the worker says that a mail that left is not expired. The
  mark of that is a local of the attempt: an earlier attempt sent and could not
  mark, the last one fails to send and expires the link in the guest's inbox.
* `SesCookie`: the loser of two twin refreshes rotates the heir of the winner, and
  from then on "cualquiera de las dos pestañas" refreshes "sin fricción"
  (`refresh.use-case.ts`). Nothing orders the two answers: when the winner's arrives
  last, the cookie both tabs share is its token, already revoked, and once the
  window has passed the next refresh is taken for a theft. What does hold is
  `ReuseNeedsRevocation`: only a token already revoked brings its family down.
* `ImgRetry`: over the limit `AddPortfolioImage` deletes "lo subido", which "no llegó a
  guardarse" (`portfolio.use-cases.ts:72-73`). The limit is checked before the key is
  compared with the photos there are, so the confirmation repeated by a client for the
  photo that filled the portfolio deletes an object a row still shows. What does
  hold is `ShowcaseIsInOrder`.

## 8. Proofs

All for any number of guests, addresses, invitations, tables, users, workers and
requests, and any bounds; the only assumptions on the constants are those that each
module names (`Supuestos`, `SupuestosSesion`, `SupuestosSeating` and so on: distinct null
markers, natural bounds, and the bodies and events taken from their types). The sets
that something counts are assumed finite, as any table and any server's requests are: `Fichas` of
`Sessions`, the tables of a plan, the ids of `Listings`, the requests of `Images`. One theorem has a
hypothesis of its own, `FailedJobsLinkIsDead`.

* `InvitationsProofs`: `TypeCorrect`. `TypeOK` is not inductive by itself: counting
  one more attempt stays in `0..MaxIntentos` only for a job that has some left, and
  the commit of an answer reads the guest of its invitation. The invariant is
  `TypeInv` (`TypeOK` with `JobCoherent`: a job that has not failed has attempts
  left, and a failed one has no owner) with `AnswerHolds` (an answer that holds
  the lock of an invitation is about one that exists).
* `InvitationsSafety`:
  * `StatusesAdvance`: every write of a status has the rank in its WHERE.
  * `LinksStayDead`: from `PastDates` (no date in memory is later than the clock),
    since each writer of `expiresAt` writes such a date.
  * `TwoLinksTwoSenders`: from `NothingLeftBehind`, a send about to create has no
    live link of its own to that guest.
  * `EmailChangesKillLinks`: from `OthersAreDead`, of the rows its guest had when a change
    of email read them, those it is not about to expire are dead, and stay so: no writer of
    `expiresAt` revives a link, and an id in use is not drawn again. The others die at the
    commit, with a date that has passed. A row created later is not one of them, whatever
    reading of the clock it carries.
  * `SentWasMailed`: from `MailBefore`, a worker about to mark and an answer in
    flight have a mail that left, and a worker about to send has an address.
  * `RespondedIsRecorded`: the three writes of the commit, and no later writer
    takes the confirmed companions or the notification away.
  * `LifecycleImplemented`: `Invitations` implements `InvitationLifecycle`. Every statement
    is one operation of the life of one row, or none: the creation is `crear`
    (`CreationIsCrear`), the deletion of a guest takes its rows (`DeletionIsBorrarDe`), a write
    of a status, by the worker or by a webhook, only goes forward (`MarkIsAvanzar`,
    `WebhookIsAvanzar`), the commit of an answer is the answer (`AnswerIsResponder`), a mail
    leaves once (`SendingIsMandar`); dates that pass or are cut short are `caducar`, and every
    other step leaves the rows alone. It rests on `AnswerHolds` (the row an answer commits to is
    there), `PastDates` (a cut date is never a later one) and `MailBefore` (who marks or answers
    an invitation has its mail before).
  * `NoticesAreTrue`: from `NoticeBefore` (a notice speaks of a row that was created, and an
    answer about to announce itself has committed), since a webhook puts the notice in the queue
    after the write that advanced the row, and no later write takes it back.
  * `FailedJobsLinkIsDead`, the longest argument. A job may be active with nobody attending it,
    or with a worker that believes it is its own, so the property needs four facts at once:
    * `QueueInv`: the worker that owns a job counts the attempts the job has made
      (`Duenos`); every stall, and every owner that died, has cost a fault (`Atascos`), which is
      what makes a *second* stall impossible with at most one fault; what a worker keeps in
      `sinMarcar` was mailed (`SinMarcarSalio`);
    * `FreshInv`: a row not yet created has no job, no worker and no send about to queue it;
    * `SpentMeansDead`: while nothing has failed, a worker that reaches the end of its last
      attempt, or its backup, finds the link expired or the mail gone;
    * and the property itself, which every later step keeps because a dead link stays dead
      (`DeadStays`).

    The theorem assumes `MaxAtascos # 0`. BullMQ's `maxStalledCount` is one unless it is
    overridden, and the processor does not override it; with zero a single stall fails the job before any
    worker has expired its link, so the property would not hold. `InvRsvp`, which has no
    stalls, does not check it.

* `SessionsProofs`, from `SupuestosSesion`. The inductive invariant `IInv` is:
  * `TypeInv`: `TypeOK`, and the browser only has tokens of sessions that exist;
  * `ExclusionP`, `ExclusionR`: the advisory lock of a family has one holder, among
    refreshes, logouts and resets;
  * `MadreViva`, `FilasP`, `FilasR`: what a holder saw when it had the lock is still
    so. The session about to be rotated is alive; the rows selected for revocation
    are all the living ones of their families;
  * `FilasLibres`: the rows a reset has written are not being rotated;
  * `Listadas`: a family that a reset listed was opened by a login, so a login
    does not open it again behind its back;
  * `OneLivePerFamily`.

  `OneLivePerFamily` alone is not inductive: a rotation adds a living session, and
  only `MadreViva` says that it takes another one away. Each step is checked
  against what it must respect (`PutLocks`, `PutResetLocks`) and the writers of
  sessions one by one. `SessionsTyped` and `OneLive` follow at once;
  `FamiliesStayDead` because a rotation needs a living mother; `RevocationTotal`
  and `ResetKills` because the rows revoked are all that lived. Two more
  invariants stand on it: `TokenInv` (a reset under way holds its token, not spent
  yet) gives `OneChange`, by the cardinality of the set of spent tokens, which is
  why `Fichas` is assumed finite; `ReuseInv` (a refresh that will not rotate its own
  session saw it revoked, and a revoked session stays so) gives `OnlyReuseRevokes`.

* `EventsProofs`. A request decides on a row it read before, and by the time it writes
  the row is any other; what holds is what the write itself checks. The inductive
  invariant `EInv` is `FilasOK` (types, and the CHECK of the table: an event that is
  not a draft has its date), `SolicitudesOK` (what a request in flight may have
  read), `DuenoDentro` (a created event has its owner as ACTIVE COUPLE) and `SoloConEvento` (no
  member, job or reading of an event that does not exist). From it
  `OwnerStays`, `PublishedComplete` (the WHERE of the publication repeats the check) and
  `StalePatchOnly` (a PATCH that empties a field read the row as a draft or the
  field as empty, and `AdmiteEvento` never lets the date go). `ListAgreesWithGuard` compares two
  pieces of code that never meet, the SQL of `GET /events` and the guard of the routes: the
  answer of a route depends only on the kind of access (`AnswerOfAccess`, by cases on the lists
  of `Rutas`, which `RouteLists` reads off), `NothingTold` says that an event that is not there
  and one that is not yours answer alike, and `AccessOfRows` joins them over any reachable row.
* `SeatingProofs`. The inductive invariant `SInv` is `PlanEnOrden` (the rows: CHECKs, unique
  indexes, no assignment of a table, seat or guest that does not exist), `UnaSola` (one
  request past the lock at most) and `EnMarcha`, which says for each point of a
  transaction what its reads are still worth. The lock of the event keeps others from
  adding rows, but the deletion of a table or a guest takes no lock: a row that was read is there *or
  went with its table or guest* (`Leido`, `Era`); one that was deleted in the transaction cannot go
  again, because the cascade waits (`RetiraLoLeido`); one that was inserted keeps its table
  and guest, because the DELETE does not get past the foreign key (`Firme`); the seats a
  PATCH takes away are still empty (`Cabida`); new tables have new dates of creation
  (`Creada`, by the least upper bound of those there are). One lemma for each action. From it
  `EveryoneSeatedIsShown`, `SeatIsFreeWhenTaken` and the refinement: a commit
  is `Sentar`, `Vaciar`, `Crear` or `Actualizar` (`SentadaIsSentar` and the three
  after it), the end of a deletion is `EliminarMesa` or `EliminarInvitado`
  (`DeletionIsEliminar`), and every other step changes nothing that shows. A swap is the
  delicate case: at the commit both rows that were read are there, since the
  foreign keys of the second insert speak for the table of the one and the guest of the
  other (`ReadIsThere`). It assumes that there are finitely many tables and that no id
  is both a table's and a guest's.
* `RealtimeProofs`. `RInv` says of each socket (`SocketOK`) that its rooms, what it
  heard and *the room its join in flight is about to enter* are those of somebody who
  planned the event while connected (and who is an ADMIN by the role its join read was one then), and of the notice (`AvisoOK`) that
  those the worker is about to tell were members since the answer. The second half is what
  makes it inductive: membership may be lost between either read and its use.
  From it `OnlyPlannersHear`; `ReadingStays` from the types. `RealtimeTyped` needs `RealtimeTypes` beside it: the
  bucket of a socket, refilled by any lapse of the clock, stays in its capacity (`BucketHolds`).
* `AccountsProofs`. `AInv` is `TiposDeCuenta`; `Sola` (an account that does not exist has no link
  and nobody issues one for it); `Atras` (the links there were when an issue began
  are dead by the time it creates its own); `UnAlta` (of the registrations that race
  for an address one alone issues a link as such); `Gastados` (the user of a spent link is
  verified, or the click that spent it has not marked it yet or died); and `Unico`, which is
  `OneLiveLink` and needs `Atras` for the link about to be created. From it
  `LinksOverlap`, `ToldTheTruth` and `AccountsTyped`.
* `ServicesProofs`, one part for each of the smaller services and one for all of them:
  * `Schedule`: `ScheduleInv` adds to the types what a PATCH in flight is about to write;
    `ScheduleKeepsItsRange` then rests on the CHECK, which judges the write and not the reading.
  * `GuestList`: `GuestListInv` says that an import past its check had no error in its
    file *against the list it read*. `ImportsDoubleNoMailbox` is about the rows that have not
    changed since; the unique index and the check of the file cover the rest.
  * `Contracts`: `ContractsInv` is `RequestsInv` (an expense about to be inserted obeys the
    CHECK, a vendor about to be removed was hired once) and `TablesInv` (types, CHECK and key of
    each expense, and the story of each vendor). `AuditTellsTheStory` is inductive only with the
    former: without it a removal could be written of a vendor nobody hired. A step is either another
    vendor's (`OthersStory`) or writes the next line of its own (`OwnStory`).
    `ChecksNeverRejectPatch` is about the CHECK, not about which date of payment stays, and about the row as it is by then: `PatchedRow` holds for *any* row
    that obeys the CHECK, because `paidAt` is written whenever `status` is. `VendorsLeaveNoHole`
    adds that the sums of the summary do not depend on who is hired (`SameRemaining`).
  * `Images`: `ShowcaseInv` has, besides the limit and the places, `HayLugar` (who is about
    to add a photo holds the lock and counted room for it: a deletion, which takes no lock, only makes more
    room) and `ListasBien`. The lists of packages are bounded because each has an owner of its own
    (`DeQuien`, an injection into the requests) and the request that replaces them deletes all
    the lists it saw, its own earlier one among them.
  * `Listings`: `WalkInv` says that what was shown lies up to the cursor and what matched all
    along and was not shown lies beyond. `PageHolds` needs that each of the four WHEREs is
    "after the cursor" in one strict total order (`AfterInOrder`, `OrderOfKeys`), that a page is
    not empty while a row matches (`PageIsNotEmpty`), that its cursor is its last row
    (`LastOfPage`) and that what it leaves out comes after all it shows (`RestComesAfter`).
    First and last exist because a strict order on a finite set has an extreme (`Extreme`, by
    cardinality).
  * All: `EachIsServed` says that a behaviour of `MCServices` is one of each of the nine
    services, so that every theorem about a service holds in the composition the run checks;
    `ServicesTyped` is the case of `TypeOK`.
Only model-checked: the liveness properties `JobEnds`, `AnswerEnds`, `RequestEnds`, `ResetEnds`
and `SeatingRequestEnds`, because liveness under fairness and ENABLED are beyond the prover. No
property needs induction over data or a RECURSIVE operator: where a proof wants the last
row of a page, the least of a set or the size of one, it uses the minimum
principle of a well-founded relation or the theorems on finite sets.

## 9. Not modelled

* Configuration, environment, logging, health checks, mail templates, start-up and
  shutdown: input and output with no state of the domain.
* Rate limits of the HTTP surface, validation schemas, webhook signatures and bodies. A
  request that they reject changes nothing, so the models start after them.
* Parsing and formatting of cursors, amounts, places and dates, the reading of a CSV
  up to its rows: they compute on strings, one call at a time, and the tests
  of the repository reach them.
* The text of profiles (names, alt of a photo, description), the public page and the
  similar vendors, which only read, and the guest summary, which only counts.
* An avatar uploaded again under the same key while the old one is being deleted
  (`avatar.use-cases.ts:36`): in the model a key is used for one object.
* Nesting of `UnitOfWork.ejecutar` and its AsyncLocalStorage: transactions are in the
  steps of the components that open them.

## 10. Running

    tlc -workers 2 -config InvRsvp.cfg MCInvitations
    tlc -workers 2 -config SesRotation.cfg MCSessions
    tlc -workers 2 -config Services.cfg MCServices
    tlc -config ImgRetry.cfg Images
    tlapm InvitationsProofs.tla
    tlapm InvitationsSafety.tla
    tlapm SessionsProofs.tla
    tlapm EventsProofs.tla
    tlapm SeatingProofs.tla
    tlapm RealtimeProofs.tla
    tlapm AccountsProofs.tla
    tlapm ServicesProofs.tla
