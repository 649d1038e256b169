-------------------------- MODULE InvitationsProofs --------------------------
(* What TLAPS proves of Invitations, for every value of its constants. *)
EXTENDS Invitations, TLAPS

-----------------------------------------------------------------------------
(* The type part of the inductive invariant *)

\* A job that has not failed has attempts left, and a failed one no owner.
JobCoherent ==
  \A i \in Invs : /\ job[i].estado # "failed" => job[i].hechos < MaxIntentos
                  /\ job[i].dueno # None => job[i].estado # "failed"

TypeInv == TypeOK /\ JobCoherent

\* An answer that holds the lock of its invitation has an invitation.
AnswerHolds == \A r \in Responders : respuesta[r].pc = "tx2" => Existe(respuesta[r].i)

-----------------------------------------------------------------------------
(* Which actions write each variable.  Every proof below that a step         *)
(* preserves something splits on the writers of what it talks about.         *)

LEMMA WritersOfInv ==
  ASSUME [Next]_vars
  PROVE  \/ inv' = inv
         \/ \E s \in Senders : CaducarAnteriores(s) \/ \E i \in Invs : CrearInvitacion(s, i)
         \/ \E e \in Editors : ConfirmarEdicion(e)
         \/ \E g \in Guests : BorrarInvitado(g)
         \/ \E w \in Workers : MarcarEnviada(w) \/ CaducarAgotada(w)
         \/ \E i \in Invs, e \in Eventos : Webhook(i, e)
         \/ \E r \in Responders : ConfirmarRespuesta(r)
<1> USE DEF dePeticiones, deCola, deEnvios, deApi, deCorreo
<1>1. CASE UNCHANGED vars
  BY <1>1 DEF vars
<1>2. CASE Tick
  BY <1>2 DEF Tick
<1>3. ASSUME NEW s \in Senders, EnviarTodos(s) \/ PasoEnvio(s) \/ \E g \in Guests : EnviarUno(s, g)
      PROVE  inv' = inv \/ CaducarAnteriores(s) \/ \E i \in Invs : CrearInvitacion(s, i)
  BY <1>3 DEF EnviarTodos, EnviarUno, PasoEnvio, CrearRechazada, Encolar, EncolarFalla
<1>4. ASSUME NEW e \in Editors,
             PasoEdicion(e) \/ \E g \in Guests, c \in Cambios : LeerParaEditar(e, g, c)
      PROVE  inv' = inv \/ ConfirmarEdicion(e)
  BY <1>4 DEF LeerParaEditar, PasoEdicion, EditarSinTransaccion, EditarEnTransaccion,
              CaducarEnTransaccion
<1>5. ASSUME NEW w \in Workers, PasoWorker(w) \/ CaeWorker(w) \/ \E i \in Invs : Tomar(w, i)
      PROVE  inv' = inv \/ MarcarEnviada(w) \/ CaducarAgotada(w)
  BY <1>5 DEF Tomar, CaeWorker, PasoWorker, EnviarOk, EnviarRechazado, EnviarSinRespuesta,
              MarcarFalla, CaducarAgotadaFalla, Completar, Fallar
<1>6. ASSUME NEW i \in Invs, Atasco(i) \/ AtascoConVida(i) PROVE inv' = inv
  BY <1>6 DEF Atasco, AtascoConVida
<1>7. ASSUME NEW r \in Responders,
             PasoRespuesta(r) \/ \E i \in Invs, b \in Respuestas : RecibirRespuesta(r, i, b)
      PROVE  inv' = inv \/ ConfirmarRespuesta(r)
  BY <1>7 DEF RecibirRespuesta, PasoRespuesta, LeerInvitacion, MarcarRespondida, EncolarAviso
<1>8. ASSUME NEW e \in Editors, NEW r \in Responders, Interbloqueo(e, r) PROVE inv' = inv
  BY <1>8 DEF Interbloqueo
<1>9. CASE CaeApi
  BY <1>9 DEF CaeApi
<1> QED BY <1>1, <1>2, <1>3, <1>4, <1>5, <1>6, <1>7, <1>8, <1>9 DEF Next

\* Nobody takes the lock of an invitation for an answer but its first write.
LEMMA WritersOfRespuesta ==
  ASSUME [Next]_vars, TypeInv, NEW r \in Responders, respuesta'[r].pc = "tx2"
  PROVE  \/ respuesta'[r] = respuesta[r]
         \/ MarcarRespondida(r)
<1> USE DEF dePeticiones, deCola, deEnvios, deApi, deCorreo
<1>1. CASE UNCHANGED vars
  BY <1>1 DEF vars
<1>2. CASE Tick
  BY <1>2 DEF Tick
<1>3. ASSUME NEW s \in Senders, EnviarTodos(s) \/ PasoEnvio(s) \/ \E g \in Guests : EnviarUno(s, g)
      PROVE  respuesta' = respuesta
  BY <1>3 DEF EnviarTodos, EnviarUno, PasoEnvio, CaducarAnteriores, CrearInvitacion,
              CrearRechazada, Encolar, EncolarFalla
<1>4. ASSUME NEW e \in Editors,
             PasoEdicion(e) \/ \E g \in Guests, c \in Cambios : LeerParaEditar(e, g, c)
      PROVE  respuesta' = respuesta
  BY <1>4 DEF LeerParaEditar, PasoEdicion, EditarSinTransaccion, EditarEnTransaccion,
              CaducarEnTransaccion, ConfirmarEdicion
<1>5. ASSUME NEW w \in Workers, PasoWorker(w) \/ CaeWorker(w) \/ \E i \in Invs : Tomar(w, i)
      PROVE  respuesta' = respuesta
  BY <1>5 DEF Tomar, CaeWorker, PasoWorker, EnviarOk, EnviarRechazado, EnviarSinRespuesta,
              MarcarEnviada, MarcarFalla, CaducarAgotada, CaducarAgotadaFalla, Completar, Fallar
<1>6. ASSUME NEW i \in Invs, Atasco(i) \/ AtascoConVida(i) \/ \E e \in Eventos : Webhook(i, e)
      PROVE  respuesta' = respuesta
  BY <1>6 DEF Atasco, AtascoConVida, Webhook
<1>7. ASSUME NEW q \in Responders,
             PasoRespuesta(q) \/ \E i \in Invs, b \in Respuestas : RecibirRespuesta(q, i, b)
      PROVE  respuesta'[r] = respuesta[r] \/ MarcarRespondida(r)
  <2> USE DEF TypeInv, TypeOK, RespuestaOK
  <2>1. ASSUME NEW i \in Invs, NEW b \in Respuestas, RecibirRespuesta(q, i, b)
        PROVE  respuesta'[r] = respuesta[r]
    BY <2>1 DEF RecibirRespuesta
  <2>2. CASE LeerInvitacion(q)
    BY <2>2 DEF LeerInvitacion, SinRespuesta
  <2>3. CASE MarcarRespondida(q)
    BY <2>3 DEF MarcarRespondida
  <2>4. CASE ConfirmarRespuesta(q)
    <3>1. CASE respuesta' = [respuesta EXCEPT ![q].pc = "aviso"]
      BY <3>1
    <3>2. CASE respuesta' = [respuesta EXCEPT ![q] = SinRespuesta]
      BY <3>2 DEF SinRespuesta
    <3> QED BY <2>4, <3>1, <3>2 DEF ConfirmarRespuesta
  <2>5. CASE EncolarAviso(q)
    BY <2>5 DEF EncolarAviso, SinRespuesta
  <2> QED BY <1>7, <2>1, <2>2, <2>3, <2>4, <2>5 DEF PasoRespuesta
<1>8. ASSUME NEW e \in Editors, NEW q \in Responders, Interbloqueo(e, q)
      PROVE  respuesta'[r] = respuesta[r]
  BY <1>8 DEF Interbloqueo, SinRespuesta, TypeInv, TypeOK, RespuestaOK
<1>9. ASSUME NEW g \in Guests, BorrarInvitado(g) PROVE respuesta'[r] = respuesta[r]
  BY <1>9 DEF BorrarInvitado, SinRespuesta, TypeInv, TypeOK, RespuestaOK
<1>10. CASE CaeApi
  BY <1>10 DEF CaeApi, SinRespuesta
<1> QED BY <1>1, <1>2, <1>3, <1>4, <1>5, <1>6, <1>7, <1>8, <1>9, <1>10 DEF Next

-----------------------------------------------------------------------------
(* Types *)

LEMMA InitTypes == Init => TypeInv
<1> SUFFICES ASSUME Init PROVE TypeInv
  OBVIOUS
<1> USE Supuestos DEF Init
<1>1. ClockOK /\ NoticeOK /\ MailOK
  BY DEF ClockOK, NoticeOK, MailOK
<1>2. GuestOK
  <2>1. ASSUME NEW g \in Guests PROVE guest[g] \in FilaInvitado
    <3>1. MaxCupo \in Cupo /\ "PENDING" \in Rsvp
      BY DEF Cupo, Rsvp
    <3>2. guest[g] \in [existe: {TRUE}, email: Emails \cup {None}, rsvp: {"PENDING"},
                       allowed: {MaxCupo}, confirmed: {None}]
      OBVIOUS
    <3> QED BY ONLY <3>1, <3>2 DEF FilaInvitado
  <2> QED BY <2>1 DEF GuestOK
<1>3. InvOK
  BY DEF InvOK, FilaInvitacion, Estados
<1>4. JobOK /\ JobCoherent
  BY DEF JobOK, JobCoherent, FilaJob, SinJob
<1>5. WorkerOK
  BY DEF WorkerOK, SinTrabajo, EstadoWorker
<1>6. EnvioOK
  BY DEF EnvioOK, SinEnvio, EstadoEnvio
<1>7. EdicionOK
  BY DEF EdicionOK, SinEdicion, EstadoEdicion, Cambio
<1>8. RespuestaOK
  BY DEF RespuestaOK, SinRespuesta, EstadoRespuesta, Cuerpo, Cupo
<1> QED BY <1>1, <1>2, <1>3, <1>4, <1>5, <1>6, <1>7, <1>8 DEF TypeInv, TypeOK

\* A variable that does not change keeps its type.
LEMMA Keep ==
  ASSUME TypeInv
  PROVE  /\ reloj' = reloj /\ fallos' = fallos => ClockOK'
         /\ guest' = guest => GuestOK'
         /\ inv' = inv => InvOK'
         /\ job' = job => JobOK' /\ JobCoherent'
         /\ correo' = correo /\ acusada' = acusada => MailOK'
         /\ notificada' = notificada /\ avisos' = avisos => NoticeOK'
         /\ worker' = worker => WorkerOK'
         /\ envio' = envio => EnvioOK'
         /\ edicion' = edicion => EdicionOK'
         /\ respuesta' = respuesta => RespuestaOK'
BY DEF TypeInv, TypeOK, ClockOK, GuestOK, InvOK, JobOK, JobCoherent, MailOK, NoticeOK,
       WorkerOK, EnvioOK, EdicionOK, RespuestaOK

\* A fault stays within its bound.
LEMMA FaultTypes == ASSUME TypeInv, reloj' = reloj, Falla PROVE ClockOK'
BY Supuestos DEF TypeInv, TypeOK, ClockOK, Falla

\* Replacing what one process has in memory by something well formed.
LEMMA PutEnvio ==
  ASSUME EnvioOK, NEW s \in Senders, NEW f \in EstadoEnvio,
         f.pc \in {"crear", "encolar"} => f.g \in Guests,
         f.pc = "encolar" => f.i \in Invs,
         envio' = [envio EXCEPT ![s] = f]
  PROVE  EnvioOK'
BY DEF EnvioOK

LEMMA PutEdicion ==
  ASSUME EdicionOK, NEW e \in Editors, NEW f \in EstadoEdicion,
         f.pc # "libre" => f.g \in Guests, edicion' = [edicion EXCEPT ![e] = f]
  PROVE  EdicionOK'
BY DEF EdicionOK

LEMMA PutRespuesta ==
  ASSUME RespuestaOK, NEW r \in Responders, NEW f \in EstadoRespuesta,
         f.pc # "libre" => f.i \in Invs, respuesta' = [respuesta EXCEPT ![r] = f]
  PROVE  RespuestaOK'
BY DEF RespuestaOK

LEMMA PutWorker ==
  ASSUME WorkerOK, NEW w \in Workers, NEW f \in EstadoWorker,
         f.pc # "libre" => f.i \in Invs, worker' = [worker EXCEPT ![w] = f]
  PROVE  WorkerOK'
BY DEF WorkerOK

LEMMA PutInv ==
  ASSUME InvOK, NEW i \in Invs, NEW f \in FilaInvitacion, f.guest \in Guests,
         inv' = [inv EXCEPT ![i] = f]
  PROVE  InvOK'
BY DEF InvOK

LEMMA PutJob ==
  ASSUME JobOK, JobCoherent, NEW i \in Invs, NEW f \in FilaJob,
         f.estado # "failed" => f.hechos < MaxIntentos,
         f.dueno # None => f.estado # "failed",
         job' = [job EXCEPT ![i] = f]
  PROVE  JobOK' /\ JobCoherent'
<1>1. JobOK'
  BY DEF JobOK
<1> QED BY <1>1 DEF JobOK, JobCoherent

LEMMA SendTypes ==
  ASSUME TypeInv, NEW s \in Senders,
         EnviarTodos(s) \/ PasoEnvio(s) \/ \E g \in Guests : EnviarUno(s, g)
  PROVE  TypeInv'
<1> USE DEF dePeticiones, deCola
<1>a. ClockOK /\ InvOK /\ JobOK /\ JobCoherent /\ EnvioOK
  BY DEF TypeInv, TypeOK
<1>1. CASE EnviarTodos(s)
  <2> DEFINE lote == {g \in Guests : guest[g].existe /\ guest[g].email # None
                                     /\ guest[g].rsvp = "PENDING"}
             f == [SinEnvio EXCEPT !.pc = "caducar", !.lote = lote, !.desde = reloj]
  <2>2. f \in EstadoEnvio /\ f.pc = "caducar"
    BY <1>a DEF ClockOK, SinEnvio, EstadoEnvio
  <2>1. EnvioOK'
    BY <1>a, <1>1, <2>2, PutEnvio DEF EnviarTodos
  <2> QED BY Keep, <2>1, <1>1 DEF EnviarTodos, TypeInv, TypeOK
<1>2. ASSUME NEW g \in Guests, EnviarUno(s, g) PROVE TypeInv'
  <2> DEFINE f == [SinEnvio EXCEPT !.pc = "caducar", !.lote = {g}, !.desde = reloj]
  <2>2. f \in EstadoEnvio /\ f.pc = "caducar"
    BY <1>a DEF ClockOK, SinEnvio, EstadoEnvio
  <2>1. EnvioOK'
    BY <1>a, <1>2, <2>2, PutEnvio DEF EnviarUno
  <2> QED BY Keep, <2>1, <1>2 DEF EnviarUno, TypeInv, TypeOK
<1>b. ASSUME NEW g \in Guests, SiguienteDelLote(s, g) PROVE EnvioOK'
  <2> DEFINE resto == envio[s].lote \ {g}
             f == IF resto = {} THEN SinEnvio
                  ELSE [SinEnvio EXCEPT !.pc = "caducar", !.lote = resto, !.desde = reloj]
  <2>1. resto \subseteq Guests /\ reloj \in 0..MaxReloj /\ 0 \in 0..MaxReloj
    BY Supuestos, <1>a DEF ClockOK, EnvioOK, EstadoEnvio
  <2>2. f \in EstadoEnvio /\ f.pc \in {"libre", "caducar"}
    BY <2>1 DEF SinEnvio, EstadoEnvio
  <2> QED BY <1>a, <1>b, <2>2, PutEnvio DEF SiguienteDelLote
<1>3. CASE CaducarAnteriores(s)
  <2>1. PICK g \in envio[s].lote, t \in envio[s].desde..reloj :
             /\ inv' = [i \in Invs |-> IF i \in VigentesDe(g, t)
                                       THEN [inv[i] EXCEPT !.expiresAt = t] ELSE inv[i]]
             /\ envio' = [envio EXCEPT ![s].pc = "crear", ![s].g = g, ![s].desde = reloj]
    BY <1>3 DEF CaducarAnteriores
  <2>2. g \in Guests /\ t \in Nat
    <3>1. envio[s].lote \subseteq Guests /\ envio[s].desde \in 0..MaxReloj /\ reloj \in Nat
      BY <1>a, Supuestos DEF EnvioOK, EstadoEnvio, ClockOK
    <3> QED BY <3>1, Supuestos
  <2>3. InvOK'
    BY <1>a, <2>1, <2>2 DEF InvOK, FilaInvitacion
  <2>4. EnvioOK'
    <3> DEFINE f == [envio[s] EXCEPT !.pc = "crear", !.g = g, !.desde = reloj]
    <3>0. envio[s] \in EstadoEnvio /\ reloj \in 0..MaxReloj
      BY <1>a DEF EnvioOK, ClockOK
    <3>1. f \in EstadoEnvio /\ f.pc = "crear" /\ f.g \in Guests
      BY <3>0, <2>2 DEF EstadoEnvio
    <3>2. envio' = [envio EXCEPT ![s] = f]
      BY <2>1, <1>a DEF EnvioOK
    <3> QED BY <1>a, <3>1, <3>2, PutEnvio
  <2> QED BY Keep, <2>3, <2>4, <1>3 DEF CaducarAnteriores, TypeInv, TypeOK
<1>4. ASSUME NEW i \in Invs, CrearInvitacion(s, i) PROVE TypeInv'
  <2>1. InvOK'
    <3>0. PICK t \in envio[s].desde..reloj :
            inv' = [inv EXCEPT ![i] = [guest |-> envio[s].g, status |-> "QUEUED",
                                       expiresAt |-> t + Validez, conId |-> FALSE,
                                       autor |-> s]]
      BY <1>4 DEF CrearInvitacion
    <3> DEFINE f == [guest |-> envio[s].g, status |-> "QUEUED", expiresAt |-> t + Validez,
                     conId |-> FALSE, autor |-> s]
    <3>1. envio[s].g \in Guests /\ t + Validez \in Nat
      <4>1. envio[s].g \in Guests /\ envio[s].desde \in Nat /\ reloj \in Nat
        BY <1>a, <1>4, Supuestos DEF CrearInvitacion, EnvioOK, EstadoEnvio, ClockOK
      <4> QED BY <4>1, Supuestos
    <3>2. f \in FilaInvitacion /\ f.guest \in Guests
      BY <3>1 DEF FilaInvitacion, Estados
    <3> QED BY <1>a, <3>0, <3>2, PutInv
  <2>2. EnvioOK'
    <3> DEFINE f == [envio[s] EXCEPT !.pc = "encolar", !.i = i]
    <3>0. envio[s] \in EstadoEnvio /\ envio[s].g \in Guests
      BY <1>a, <1>4 DEF EnvioOK, CrearInvitacion
    <3>1. f \in EstadoEnvio /\ f.pc = "encolar" /\ f.g \in Guests /\ f.i \in Invs
      BY <3>0 DEF EstadoEnvio
    <3>2. envio' = [envio EXCEPT ![s] = f]
      BY <1>4, <1>a DEF EnvioOK, CrearInvitacion
    <3> QED BY <1>a, <3>1, <3>2, PutEnvio
  <2> QED BY Keep, <2>1, <2>2, <1>4 DEF CrearInvitacion, TypeInv, TypeOK
<1>5. CASE CrearRechazada(s)
  <2>1. EnvioOK'
    BY <1>a, <1>b, <1>5 DEF CrearRechazada, EnvioOK
  <2> QED BY Keep, <2>1, <1>5 DEF CrearRechazada, TypeInv, TypeOK
<1>6. CASE Encolar(s)
  <2>1. EnvioOK'
    BY <1>a, <1>b, <1>6 DEF Encolar, EnvioOK
  <2>2. JobOK' /\ JobCoherent'
    <3> DEFINE f == [SinJob EXCEPT !.estado = "waiting"]
    <3>1. 0 \in 0..MaxIntentos /\ 0 \in 0..MaxAtascos /\ 0 < MaxIntentos
      BY Supuestos
    <3>2. f \in FilaJob /\ f.estado = "waiting" /\ f.hechos = 0 /\ f.dueno = None
      BY <3>1 DEF SinJob, FilaJob
    <3>3. envio[s].i \in Invs
      BY <1>a, <1>6 DEF Encolar, EnvioOK
    <3>4. job' = [job EXCEPT ![envio[s].i] = f]
      BY <1>6 DEF Encolar
    <3> QED BY <1>a, <3>1, <3>2, <3>3, <3>4, PutJob
  <2> QED BY Keep, <2>1, <2>2, <1>6 DEF Encolar, TypeInv, TypeOK
<1>7. CASE EncolarFalla(s)
  <2>1. EnvioOK'
    BY <1>a, <1>b, <1>7 DEF EncolarFalla, EnvioOK
  <2> QED BY Keep, <2>1, <1>7, FaultTypes DEF EncolarFalla, TypeInv, TypeOK
<1> QED BY <1>1, <1>2, <1>3, <1>4, <1>5, <1>6, <1>7 DEF PasoEnvio

LEMMA EditTypes ==
  ASSUME TypeInv, NEW e \in Editors,
         PasoEdicion(e) \/ \E g \in Guests, c \in Cambios : LeerParaEditar(e, g, c)
  PROVE  TypeInv'
<1> USE DEF deEnvios
<1>a. ClockOK /\ InvOK /\ GuestOK /\ EdicionOK
  BY DEF TypeInv, TypeOK
<1>b. ASSUME NEW f \in FilaInvitado, NEW c \in Cambio PROVE Aplicar(f, c) \in FilaInvitado
  BY DEF Aplicar, FilaInvitado, Cambio
<1>c. ASSUME edicion' = [edicion EXCEPT ![e] = SinEdicion] PROVE EdicionOK'
  <2>1. SinEdicion \in EstadoEdicion /\ SinEdicion.pc = "libre"
    <3>1. 0 \in 0..MaxReloj
      BY Supuestos
    <3> QED BY <3>1 DEF SinEdicion, EstadoEdicion, Cambio
  <2> QED BY <1>a, <1>c, <2>1, PutEdicion
<1>1. ASSUME NEW g \in Guests, NEW c \in Cambios, LeerParaEditar(e, g, c) PROVE TypeInv'
  <2> DEFINE f(pc) == [SinEdicion EXCEPT !.pc = pc, !.g = g, !.c = c]
  <2>2. /\ f("tx") \in EstadoEdicion /\ f("simple") \in EstadoEdicion
        /\ f("tx").g \in Guests /\ f("simple").g \in Guests
    <3>1. c \in Cambio /\ 0 \in 0..MaxReloj
      BY Supuestos
    <3> QED BY <3>1 DEF SinEdicion, EstadoEdicion
  <2>3. edicion' = [edicion EXCEPT ![e] = f("tx")] \/ edicion' = [edicion EXCEPT ![e] = f("simple")]
    BY <1>1 DEF LeerParaEditar
  <2>1. EdicionOK'
    BY <1>a, <2>2, <2>3, PutEdicion
  <2> QED BY Keep, <2>1, <1>1 DEF LeerParaEditar, TypeInv, TypeOK
<1>2. CASE EditarSinTransaccion(e)
  <2>1. GuestOK'
    <3>1. edicion[e].c \in Cambio
      BY <1>a DEF EdicionOK, EstadoEdicion
    <3> QED BY <1>a, <1>b, <1>2, <3>1 DEF EditarSinTransaccion, GuestOK
  <2> QED BY Keep, <2>1, <1>c, <1>2 DEF EditarSinTransaccion, TypeInv, TypeOK
<1>3. CASE EditarEnTransaccion(e)
  <2>1. EdicionOK'
    <3> DEFINE f == [edicion[e] EXCEPT !.pc = "tx2", !.desde = reloj]
    <3>0. edicion[e] \in EstadoEdicion /\ edicion[e].g \in Guests /\ reloj \in 0..MaxReloj
      BY <1>a, <1>3 DEF EditarEnTransaccion, EdicionOK, ClockOK
    <3>1. f \in EstadoEdicion /\ f.g \in Guests
      BY <3>0 DEF EstadoEdicion
    <3>2. edicion' = [edicion EXCEPT ![e] = f] \/ edicion' = [edicion EXCEPT ![e] = SinEdicion]
      BY <1>a, <1>3 DEF EditarEnTransaccion, EdicionOK
    <3> QED BY <1>a, <1>c, <3>1, <3>2, PutEdicion
  <2> QED BY Keep, <2>1, <1>3 DEF EditarEnTransaccion, TypeInv, TypeOK
<1>4. CASE CaducarEnTransaccion(e)
  <2>1. EdicionOK'
    <3>1. PICK t \in edicion[e].desde..reloj :
            edicion' = [edicion EXCEPT ![e].pc = "commit", ![e].desde = t,
                                       ![e].filas = VigentesDe(edicion[e].g, t),
                                       ![e].habia = Suyas(edicion[e].g)]
      BY <1>4 DEF CaducarEnTransaccion
    <3> DEFINE f == [edicion[e] EXCEPT !.pc = "commit", !.desde = t,
                                       !.filas = VigentesDe(edicion[e].g, t),
                                       !.habia = Suyas(edicion[e].g)]
    <3>0. edicion[e] \in EstadoEdicion /\ edicion[e].g \in Guests
      BY <1>a, <1>4 DEF CaducarEnTransaccion, EdicionOK
    <3>2. /\ t \in 0..MaxReloj /\ Suyas(edicion[e].g) \subseteq Invs
          /\ VigentesDe(edicion[e].g, t) \subseteq Invs
      BY <1>a, <3>0, Supuestos DEF EstadoEdicion, ClockOK, VigentesDe, Suyas
    <3>3. f \in EstadoEdicion /\ f.g \in Guests
      BY <3>0, <3>2 DEF EstadoEdicion
    <3>4. edicion' = [edicion EXCEPT ![e] = f]
      BY <1>a, <3>1 DEF EdicionOK
    <3> QED BY <1>a, <3>3, <3>4, PutEdicion
  <2> QED BY Keep, <2>1, <1>4 DEF CaducarEnTransaccion, TypeInv, TypeOK
<1>5. CASE ConfirmarEdicion(e)
  <2>1. GuestOK'
    <3>1. edicion[e].c \in Cambio
      BY <1>a DEF EdicionOK, EstadoEdicion
    <3> QED BY <1>a, <1>b, <1>5, <3>1 DEF ConfirmarEdicion, GuestOK
  <2>2. InvOK'
    <3>1. edicion[e].desde \in Nat
      BY <1>a DEF EdicionOK, EstadoEdicion
    <3> QED BY <1>a, <1>5, <3>1 DEF ConfirmarEdicion, InvOK, FilaInvitacion
  <2> QED BY Keep, <2>1, <2>2, <1>c, <1>5 DEF ConfirmarEdicion, TypeInv, TypeOK
<1> QED BY <1>1, <1>2, <1>3, <1>4, <1>5 DEF PasoEdicion

\* How a worker comes out of taking a job: it sends, discards it or, if the
\* read failed, goes where a failed attempt goes.
LEMMA TomarShape ==
  ASSUME NEW w \in Workers, NEW i \in Invs, Tomar(w, i)
  PROVE  \E p \in {"enviar", "completar", "caducar", "fallar"},
            m \in {guest[inv[i].guest].email, None} :
           /\ worker' = [worker EXCEPT ![w] = [worker[w] EXCEPT
                            !.pc = p, !.i = i, !.email = m, !.hechos = job[i].hechos]]
           /\ p = "enviar" \/ m # None => Viva(i) /\ inv[i].status = "QUEUED" /\ m # None
           /\ p = "fallar" => ~esUltimoIntento(job[i].hechos)
           /\ fallos' = fallos \/ Falla
<1> DEFINE manda == Viva(i) /\ inv[i].status = "QUEUED" /\ guest[inv[i].guest].email # None
<1>1. CASE Falla /\ worker' = [worker EXCEPT ![w] = [worker[w] EXCEPT
              !.pc = TrasFallar(job[i].hechos), !.i = i, !.email = None, !.hechos = job[i].hechos]]
  <2>1. CASE esUltimoIntento(job[i].hechos)
    BY <1>1, <2>1 DEF TrasFallar
  <2>2. CASE ~esUltimoIntento(job[i].hechos)
    BY <1>1, <2>2 DEF TrasFallar
  <2> QED BY <2>1, <2>2
<1>2. CASE ~Falla \/ worker' # [worker EXCEPT ![w] = [worker[w] EXCEPT
              !.pc = TrasFallar(job[i].hechos), !.i = i, !.email = None, !.hechos = job[i].hechos]]
  <2>0. fallos' = fallos
    BY <1>2 DEF Tomar
  <2>1. CASE manda
    <3>1. worker' = [worker EXCEPT ![w] = [worker[w] EXCEPT !.pc = "enviar", !.i = i,
                       !.email = guest[inv[i].guest].email, !.hechos = job[i].hechos]]
      BY <1>2, <2>1 DEF Tomar
    <3> QED BY <2>0, <2>1, <3>1
  <2>2. CASE ~manda
    <3>1. worker' = [worker EXCEPT ![w] = [worker[w] EXCEPT !.pc = "completar", !.i = i,
                       !.email = None, !.hechos = job[i].hechos]]
      BY <1>2, <2>2 DEF Tomar
    <3> QED BY <2>0, <3>1
  <2> QED BY <2>1, <2>2
<1> QED BY <1>1, <1>2

LEMMA WorkerTypes ==
  ASSUME TypeInv, NEW w \in Workers, PasoWorker(w) \/ CaeWorker(w) \/ \E i \in Invs : Tomar(w, i)
  PROVE  TypeInv'
<1> USE DEF deApi
<1>a. /\ ClockOK /\ InvOK /\ GuestOK /\ JobOK /\ JobCoherent /\ MailOK /\ WorkerOK
      /\ worker[w] \in EstadoWorker
      /\ worker[w].pc # "libre" => worker[w].i \in Invs
  BY DEF TypeInv, TypeOK, WorkerOK
\* A worker that only moves on keeps its type, and so does one that lets go.
<1>b. ASSUME NEW p \in {"marcar", "completar", "caducar", "fallar", "respaldo"},
             worker[w].pc # "libre",
             worker' = [worker EXCEPT ![w] = [worker[w] EXCEPT !.pc = p]]
      PROVE  WorkerOK'
  <2>1. [worker[w] EXCEPT !.pc = p] \in EstadoWorker
    BY <1>a DEF EstadoWorker
  <2>2. [worker[w] EXCEPT !.pc = p].i = worker[w].i
    BY <1>a DEF EstadoWorker
  <2> QED BY <1>a, <1>b, <2>1, <2>2, PutWorker
<1>c. ASSUME NEW m \in SUBSET Invs,
             worker' = [worker EXCEPT ![w] = [SinTrabajo EXCEPT !.sinMarcar = m]]
      PROVE  WorkerOK'
  <2>1. 0 \in 0..MaxIntentos
    BY Supuestos
  <2>2. [SinTrabajo EXCEPT !.sinMarcar = m] \in EstadoWorker
    BY <2>1 DEF SinTrabajo, EstadoWorker
  <2>3. [SinTrabajo EXCEPT !.sinMarcar = m].pc = "libre"
    BY DEF SinTrabajo
  <2> QED BY <1>a, <1>c, <2>2, <2>3, PutWorker
<1>d. worker[w].sinMarcar \in SUBSET Invs
  BY <1>a DEF EstadoWorker
<1>e. ASSUME worker' = [worker EXCEPT ![w] = Soltar(w)] PROVE WorkerOK'
  BY <1>c, <1>d, <1>e DEF Soltar
<1>f. ASSUME worker[w].pc = "enviar", correo' = Saliente(w), acusada' \subseteq acusada \cup {worker[w].i}
      PROVE  MailOK'
  BY <1>a, <1>f DEF Saliente, MailOK, EstadoWorker
<1>g. ASSUME worker[w].pc = "enviar", worker' = TrasFallarEnvio(w) PROVE WorkerOK'
  <2>1. \E p \in {"caducar", "fallar"} :
           worker' = [worker EXCEPT ![w] = [worker[w] EXCEPT !.pc = p]]
    BY <1>a, <1>g DEF TrasFallarEnvio, TrasFallar, WorkerOK
  <2> QED BY <1>b, <1>g, <2>1
<1>1. ASSUME NEW i \in Invs, Tomar(w, i) PROVE TypeInv'
  <2>1. JobOK' /\ JobCoherent'
    <3> DEFINE f == [job[i] EXCEPT !.estado = "active", !.dueno = w]
    <3>1. job[i] \in FilaJob /\ job[i].hechos < MaxIntentos
      BY <1>a, <1>1 DEF Tomar, JobOK, JobCoherent
    <3>2. f \in FilaJob /\ f.estado = "active" /\ f.hechos = job[i].hechos
      BY <3>1 DEF FilaJob
    <3>3. job' = [job EXCEPT ![i] = f]
      BY <1>1, <1>a DEF Tomar, JobOK
    <3> QED BY <1>a, <3>1, <3>2, <3>3, PutJob
  <2>2. WorkerOK'
    <3>1. PICK p \in {"enviar", "completar", "caducar", "fallar"},
               m \in {guest[inv[i].guest].email, None} :
            /\ worker' = [worker EXCEPT ![w] = [worker[w] EXCEPT
                            !.pc = p, !.i = i, !.email = m, !.hechos = job[i].hechos]]
            /\ p = "enviar" \/ m # None => Viva(i) /\ inv[i].status = "QUEUED" /\ m # None
            /\ p = "fallar" => ~esUltimoIntento(job[i].hechos)
            /\ fallos' = fallos \/ Falla
      BY <1>1, TomarShape
    <3>2. m \in Emails \cup {None}
      <4>1. m # None => inv[i].guest \in Guests
        BY <1>a, <3>1 DEF InvOK
      <4> QED BY <1>a, <3>1, <4>1 DEF GuestOK, FilaInvitado
    <3> DEFINE f == [worker[w] EXCEPT !.pc = p, !.i = i, !.email = m, !.hechos = job[i].hechos]
    <3>3. job[i].hechos \in 0..MaxIntentos
      BY <1>a DEF JobOK, FilaJob
    <3>4. f \in EstadoWorker /\ f.i \in Invs
      BY <1>a, <3>1, <3>2, <3>3 DEF EstadoWorker
    <3> QED BY <1>a, <3>1, <3>4, PutWorker
  <2>3. ClockOK'
    BY <1>1, TomarShape, FaultTypes, Keep DEF Tomar
  <2> QED BY Keep, <2>1, <2>2, <2>3, <1>1 DEF Tomar, TypeInv, TypeOK
<1>2. CASE EnviarOk(w)
  <2>1. MailOK'
    BY <1>2, <1>f DEF EnviarOk
  <2>2. WorkerOK'
    <3>1. PICK c \in BOOLEAN : worker' = [worker EXCEPT ![w].pc = "marcar", ![w].conId = c]
      BY <1>2 DEF EnviarOk
    <3> DEFINE f == [worker[w] EXCEPT !.pc = "marcar", !.conId = c]
    <3>2. f \in EstadoWorker /\ f.i = worker[w].i
      BY <1>a DEF EstadoWorker
    <3>3. worker' = [worker EXCEPT ![w] = f]
      BY <3>1, <1>a DEF WorkerOK
    <3>4. worker[w].i \in Invs
      BY <1>a, <1>2 DEF EnviarOk
    <3> QED BY <1>a, <3>2, <3>3, <3>4, PutWorker
  <2> QED BY Keep, <2>1, <2>2, <1>2 DEF EnviarOk, TypeInv, TypeOK
<1>3. CASE EnviarRechazado(w)
  <2> QED BY Keep, <1>g, <1>3 DEF EnviarRechazado, TypeInv, TypeOK
<1>4. CASE EnviarSinRespuesta(w)
  <2> QED BY Keep, FaultTypes, <1>f, <1>g, <1>4 DEF EnviarSinRespuesta, TypeInv, TypeOK
<1>5. CASE MarcarEnviada(w)
  <2>1. InvOK'
    <3>1. CASE inv' = inv
      BY <3>1, Keep
    <3>2. CASE /\ inv[worker[w].i].status \in EstadosQuePuedenAvanzarA("SENT")
               /\ inv' = [inv EXCEPT ![worker[w].i].status = "SENT",
                                     ![worker[w].i].conId = worker[w].conId]
      <4> DEFINE i == worker[w].i
                 f == [inv[i] EXCEPT !.status = "SENT", !.conId = worker[w].conId]
      <4>1. i \in Invs /\ inv[i] \in FilaInvitacion
        BY <1>a, <1>5 DEF MarcarEnviada, InvOK
      <4>2. inv[i].status # "NUEVA"
        BY <3>2 DEF EstadosQuePuedenAvanzarA, Estados
      <4>3. worker[w].conId \in BOOLEAN /\ inv[i].guest \in Guests
        BY <1>a, <4>1, <4>2 DEF EstadoWorker, InvOK
      <4>4. f \in FilaInvitacion /\ f.guest \in Guests
        BY <4>1, <4>3 DEF FilaInvitacion, Estados
      <4>5. inv' = [inv EXCEPT ![i] = f]
        BY <3>2, <1>a, <4>1 DEF InvOK
      <4> HIDE DEF i, f
      <4> QED BY <1>a, <4>1, <4>4, <4>5, PutInv
    <3> QED BY <3>1, <3>2, <1>5 DEF MarcarEnviada
  <2>2. WorkerOK'
    <3>1. worker' = [worker EXCEPT ![w] = [worker[w] EXCEPT !.pc = "completar"]]
      BY <1>a, <1>5 DEF MarcarEnviada, WorkerOK
    <3> QED BY <3>1, <1>b, <1>5 DEF MarcarEnviada
  <2> QED BY Keep, <2>1, <2>2, <1>5 DEF MarcarEnviada, TypeInv, TypeOK
<1>6. CASE MarcarFalla(w)
  <2>1. WorkerOK'
    <3> DEFINE f == [worker[w] EXCEPT !.pc = "fallar", !.sinMarcar = worker[w].sinMarcar \cup {worker[w].i}]
    <3>1. worker[w].i \in Invs
      BY <1>a, <1>6 DEF MarcarFalla
    <3>2. worker[w].sinMarcar \cup {worker[w].i} \in SUBSET Invs
      BY <1>d, <3>1
    <3>3. f \in EstadoWorker /\ f.i = worker[w].i
      BY <1>a, <3>2 DEF EstadoWorker
    <3>4. worker' = [worker EXCEPT ![w] = f]
      BY <1>a, <1>6 DEF MarcarFalla, WorkerOK
    <3> QED BY <1>a, <3>1, <3>3, <3>4, PutWorker
  <2> QED BY Keep, FaultTypes, <2>1, <1>6 DEF MarcarFalla, TypeInv, TypeOK
<1>h. ASSUME worker[w].pc \in {"caducar", "respaldo"},
             worker' = [worker EXCEPT ![w] = IF worker[w].pc = "caducar"
                          THEN [@ EXCEPT !.pc = "fallar"] ELSE Soltar(w)]
      PROVE  WorkerOK'
  <2>1. CASE worker[w].pc = "caducar"
    BY <1>a, <1>b, <1>h, <2>1
  <2>2. CASE worker[w].pc # "caducar"
    BY <1>e, <1>h, <2>2
  <2> QED BY <2>1, <2>2
<1>7. CASE CaducarAgotada(w)
  <2>1. InvOK'
    <3>1. worker[w].i \in Invs /\ reloj \in Nat
      BY <1>a, <1>7, Supuestos DEF CaducarAgotada, ClockOK
    <3> QED BY <1>a, <1>7, <3>1 DEF CaducarAgotada, InvOK, FilaInvitacion
  <2> QED BY Keep, <2>1, <1>h, <1>7 DEF CaducarAgotada, TypeInv, TypeOK
<1>8. CASE CaducarAgotadaFalla(w)
  <2> QED BY Keep, FaultTypes, <1>h, <1>8 DEF CaducarAgotadaFalla, TypeInv, TypeOK
<1>9. CASE Completar(w)
  <2>1. JobOK' /\ JobCoherent'
    <3> DEFINE i == worker[w].i
               f == [job[i] EXCEPT !.estado = "none", !.dueno = None]
    <3>1. CASE job' = job
      BY <3>1, Keep
    <3>2. CASE job[i].dueno = w /\ job' = [job EXCEPT ![i] = f]
      <4>1. i \in Invs /\ job[i] \in FilaJob
        BY <1>a, <1>9 DEF Completar, JobOK
      <4>2. job[i].hechos < MaxIntentos
        BY <1>a, <3>2, <4>1, Supuestos DEF JobCoherent
      <4>3. f \in FilaJob /\ f.hechos = job[i].hechos /\ f.dueno = None
        BY <4>1 DEF FilaJob
      <4> QED BY <1>a, <3>2, <4>1, <4>2, <4>3, PutJob
    <3> QED BY <3>1, <3>2, <1>9 DEF Completar
  <2> QED BY Keep, <2>1, <1>e, <1>9 DEF Completar, TypeInv, TypeOK
<1>10. CASE Fallar(w)
  <2> DEFINE i == worker[w].i
             hechos == HechosTras(i)
             f == [job[i] EXCEPT !.hechos = hechos, !.dueno = None,
                     !.estado = IF hechos >= MaxIntentos THEN "failed" ELSE "waiting"]
  <2>0. i \in Invs /\ job[i] \in FilaJob /\ job[i].hechos \in 0..MaxIntentos
    BY <1>a, <1>10 DEF Fallar, JobOK, FilaJob
  <2>1. JobOK' /\ JobCoherent'
    <3>1. CASE job' = job
      BY <3>1, Keep
    <3>2. CASE job[i].dueno = w /\ job' = [job EXCEPT ![i] = f]
      <4>1. job[i].hechos < MaxIntentos
        BY <1>a, <2>0, <3>2, Supuestos DEF JobCoherent
      <4>2. hechos \in 0..MaxIntentos
        BY <2>0, <4>1, Supuestos DEF HechosTras
      <4>3. /\ f \in FilaJob /\ f.hechos = hechos /\ f.dueno = None
            /\ f.estado = IF hechos >= MaxIntentos THEN "failed" ELSE "waiting"
        BY <2>0, <4>2 DEF FilaJob
      <4>4. f.estado # "failed" => f.hechos < MaxIntentos
        BY <4>2, <4>3, Supuestos
      <4> HIDE DEF f, i, hechos
      <4> QED BY <1>a, <2>0, <3>2, <4>3, <4>4, PutJob
    <3> QED BY <3>1, <3>2, <1>10 DEF Fallar
  <2>2. WorkerOK'
    <3>1. \/ worker' = [worker EXCEPT ![w] = Soltar(w)]
          \/ worker' = [worker EXCEPT ![w] = [worker[w] EXCEPT !.pc = "respaldo"]]
          \/ worker' = [worker EXCEPT ![w] = [SinTrabajo EXCEPT !.sinMarcar = worker[w].sinMarcar \ {i}]]
      BY <1>10 DEF Fallar
    <3>2. worker[w].sinMarcar \ {i} \in SUBSET Invs
      BY <1>d
    <3> QED BY <3>1, <3>2, <1>b, <1>c, <1>e, <1>10 DEF Fallar
  <2> QED BY Keep, <2>1, <2>2, <1>10 DEF Fallar, TypeInv, TypeOK
<1>11. CASE CaeWorker(w)
  <2>1. 0 \in 0..MaxIntentos
    BY Supuestos
  <2>2. WorkerOK'
    <3>1. SinTrabajo \in EstadoWorker /\ SinTrabajo.pc = "libre"
      BY <2>1 DEF SinTrabajo, EstadoWorker
    <3> QED BY <3>1, <1>a, <1>11, PutWorker DEF CaeWorker
  <2> QED BY Keep, FaultTypes, <2>2, <1>11 DEF CaeWorker, TypeInv, TypeOK
<1> QED BY <1>1, <1>2, <1>3, <1>4, <1>5, <1>6, <1>7, <1>8, <1>9, <1>10, <1>11 DEF PasoWorker

LEMMA StallTypes ==
  ASSUME TypeInv, NEW i \in Invs, Atasco(i) \/ AtascoConVida(i)
  PROVE  TypeInv'
<1> USE DEF deApi
<1>a. job[i] \in FilaJob /\ job[i].atascos \in 0..MaxAtascos /\ JobOK /\ JobCoherent
  BY DEF TypeInv, TypeOK, JobOK, FilaJob
<1>1. ASSUME job[i].estado = "active", TrasAtasco(i) PROVE JobOK' /\ JobCoherent'
  <2> DEFINE f == [job[i] EXCEPT !.estado = "waiting", !.dueno = None,
                                 !.atascos = job[i].atascos + 1]
             h == [job[i] EXCEPT !.estado = "failed", !.dueno = None]
  <2>1. CASE job[i].atascos < MaxAtascos /\ job' = [job EXCEPT ![i] = f]
    <3>1. job[i].atascos + 1 \in 0..MaxAtascos
      BY <1>a, <2>1, Supuestos
    <3>2. f \in FilaJob /\ f.hechos = job[i].hechos /\ f.dueno = None
      BY <1>a, <3>1 DEF FilaJob
    <3>3. job[i].hechos < MaxIntentos
      BY <1>a, <1>1 DEF JobCoherent
    <3> QED BY <1>a, <2>1, <3>2, <3>3, PutJob
  <2>2. CASE job' = [job EXCEPT ![i] = h]
    <3>1. h \in FilaJob /\ h.estado = "failed" /\ h.dueno = None
      BY <1>a DEF FilaJob
    <3> QED BY <1>a, <2>2, <3>1, PutJob
  <2>3. CASE job[i].atascos < MaxAtascos
    BY <1>1, <2>1, <2>3 DEF TrasAtasco
  <2>4. CASE ~(job[i].atascos < MaxAtascos)
    BY <1>1, <2>2, <2>4 DEF TrasAtasco
  <2> QED BY <2>3, <2>4
<1>2. CASE Atasco(i)
  BY Keep, <1>1, <1>2 DEF Atasco, TypeInv, TypeOK
<1>3. CASE AtascoConVida(i)
  BY Keep, FaultTypes, <1>1, <1>3 DEF AtascoConVida, TypeInv, TypeOK
<1> QED BY <1>2, <1>3

LEMMA WebhookTypes ==
  ASSUME TypeInv, NEW i \in Invs, NEW e \in Eventos, Webhook(i, e)
  PROVE  TypeInv'
<1>a. InvOK /\ NoticeOK /\ ClockOK /\ inv[i] \in FilaInvitacion /\ e \in Estados
  BY Supuestos DEF TypeInv, TypeOK, InvOK, Estados
<1>1. InvOK'
  <2> DEFINE f == [inv[i] EXCEPT !.status = e]
  <2>1. inv[i].guest \in Guests
    BY <1>a DEF Webhook, AvanzaConMensaje, EstadosQuePuedenAvanzarA, Estados, InvOK
  <2>2. f \in FilaInvitacion /\ f.guest \in Guests
    BY <1>a, <2>1 DEF FilaInvitacion
  <2>3. inv' = [inv EXCEPT ![i] = f]
    BY <1>a DEF Webhook, InvOK
  <2> QED BY <1>a, <2>2, <2>3, PutInv
<1>2. NoticeOK' /\ ClockOK'
  BY <1>a, FaultTypes DEF Webhook, NoticeOK, ClockOK
<1> QED BY Keep, <1>1, <1>2 DEF Webhook, TypeInv, TypeOK

LEMMA DeleteTypes ==
  ASSUME TypeInv, NEW g \in Guests, BorrarInvitado(g)
  PROVE  TypeInv'
<1>a. InvOK /\ GuestOK /\ RespuestaOK
  BY DEF TypeInv, TypeOK
<1>1. InvOK'
  BY <1>a DEF BorrarInvitado, Suyas, InvOK, FilaInvitacion, Existe, Estados
<1>2. GuestOK'
  BY <1>a DEF BorrarInvitado, GuestOK, FilaInvitado
<1>3. RespuestaOK'
  <2>1. 0 \in 0..MaxReloj /\ 0 \in Cupo
    BY Supuestos DEF Cupo
  <2>2. SinRespuesta \in EstadoRespuesta /\ SinRespuesta.pc = "libre"
    BY <2>1 DEF SinRespuesta, EstadoRespuesta, Cuerpo
  <2> QED BY <1>a, <2>2 DEF BorrarInvitado, RespuestaOK
<1> QED BY Keep, <1>1, <1>2, <1>3 DEF BorrarInvitado, TypeInv, TypeOK, deEnvios

LEMMA AnswerTypes ==
  ASSUME TypeInv, AnswerHolds, NEW r \in Responders,
         PasoRespuesta(r) \/ \E i \in Invs, b \in Respuestas : RecibirRespuesta(r, i, b)
  PROVE  TypeInv'
<1> USE DEF deCorreo
<1>a. /\ ClockOK /\ InvOK /\ GuestOK /\ NoticeOK /\ RespuestaOK
      /\ respuesta[r] \in EstadoRespuesta
      /\ respuesta[r].pc # "libre" => respuesta[r].i \in Invs
  BY DEF TypeInv, TypeOK, RespuestaOK
<1>b. ASSUME NEW p \in {"tx", "tx2", "aviso"}, respuesta[r].pc # "libre",
             respuesta' = [respuesta EXCEPT ![r] = [respuesta[r] EXCEPT !.pc = p]]
      PROVE  RespuestaOK'
  <2>1. /\ [respuesta[r] EXCEPT !.pc = p] \in EstadoRespuesta
        /\ [respuesta[r] EXCEPT !.pc = p].i = respuesta[r].i
    BY <1>a DEF EstadoRespuesta
  <2> QED BY <1>a, <1>b, <2>1, PutRespuesta
<1>c. ASSUME respuesta' = [respuesta EXCEPT ![r] = SinRespuesta] PROVE RespuestaOK'
  <2>1. 0 \in 0..MaxReloj /\ 0 \in Cupo
    BY Supuestos DEF Cupo
  <2>2. SinRespuesta \in EstadoRespuesta /\ SinRespuesta.pc = "libre"
    BY <2>1 DEF SinRespuesta, EstadoRespuesta, Cuerpo
  <2> QED BY <1>a, <1>c, <2>2, PutRespuesta
<1>1. ASSUME NEW i \in Invs, NEW b \in Respuestas, RecibirRespuesta(r, i, b) PROVE TypeInv'
  <2> DEFINE c == [b EXCEPT !.comp = IF b.rsvp = "DECLINED" THEN 0 ELSE b.comp]
             f == [pc |-> "lee", i |-> i, ahora |-> reloj, r |-> c]
  <2>1. b \in Cuerpo /\ 0 \in Cupo
    BY Supuestos DEF Cupo
  <2>2. c \in Cuerpo
    BY <2>1 DEF Cuerpo
  <2>3. reloj \in 0..MaxReloj
    BY <1>a DEF ClockOK
  <2>4. f \in EstadoRespuesta /\ f.i \in Invs
    BY <2>2, <2>3 DEF EstadoRespuesta
  <2>5. respuesta' = [respuesta EXCEPT ![r] = f]
    BY <1>1 DEF RecibirRespuesta
  <2>6. RespuestaOK'
    BY <1>a, <2>4, <2>5, PutRespuesta
  <2> QED BY Keep, <2>6, <1>1 DEF RecibirRespuesta, TypeInv, TypeOK
<1>2. CASE LeerInvitacion(r)
  <2>1. RespuestaOK'
    BY <1>b, <1>c, <1>2 DEF LeerInvitacion
  <2> QED BY Keep, <2>1, <1>2 DEF LeerInvitacion, TypeInv, TypeOK
<1>3. CASE MarcarRespondida(r)
  <2>1. RespuestaOK'
    BY <1>b, <1>c, <1>3 DEF MarcarRespondida
  <2> QED BY Keep, <2>1, <1>3 DEF MarcarRespondida, TypeInv, TypeOK
<1>4. CASE ConfirmarRespuesta(r)
  <2> DEFINE p == respuesta[r]
             g == inv[p.i].guest
             nueva == [guest[g] EXCEPT !.rsvp = p.r.rsvp, !.confirmed = p.r.comp]
  <2>1. CASE /\ inv' = [inv EXCEPT ![p.i].status = "RESPONDED"]
             /\ guest' = [guest EXCEPT ![g] = nueva]
             /\ notificada' = [notificada EXCEPT ![g] = p.r.rsvp]
             /\ respuesta' = [respuesta EXCEPT ![r].pc = "aviso"]
    <3>0. p.i \in Invs /\ p.r \in Cuerpo
      BY <1>a, <1>4 DEF ConfirmarRespuesta, EstadoRespuesta
    <3>1. InvOK'
      <4> DEFINE f == [inv[p.i] EXCEPT !.status = "RESPONDED"]
      <4>1. inv[p.i] \in FilaInvitacion /\ g \in Guests
        BY <1>a, <1>4, <3>0 DEF ConfirmarRespuesta, AnswerHolds, Existe, Estados, InvOK
      <4>2. f \in FilaInvitacion /\ f.guest \in Guests
        BY <4>1 DEF FilaInvitacion, Estados
      <4>3. inv' = [inv EXCEPT ![p.i] = f]
        BY <1>a, <2>1 DEF InvOK
      <4> HIDE DEF f
      <4> QED BY <1>a, <3>0, <4>2, <4>3, PutInv
    <3>2. ASSUME g \in Guests PROVE nueva \in FilaInvitado
      <4>1. guest[g] \in FilaInvitado /\ p.r.rsvp \in Rsvp /\ p.r.comp \in Cupo
        BY <1>a, <3>0, <3>2 DEF GuestOK, Cuerpo, Rsvp
      <4> QED BY <4>1 DEF FilaInvitado
    <3>3. GuestOK'
      BY <1>a, <2>1, <3>2 DEF GuestOK
    <3>4. NoticeOK'
      BY <1>a, <1>4, <2>1, <3>0 DEF ConfirmarRespuesta, NoticeOK, Cuerpo
    <3>5. respuesta' = [respuesta EXCEPT ![r] = [respuesta[r] EXCEPT !.pc = "aviso"]]
      BY <1>a, <2>1 DEF RespuestaOK
    <3>6. RespuestaOK'
      BY <1>b, <1>4, <3>5 DEF ConfirmarRespuesta
    <3> QED BY Keep, <1>4, <3>1, <3>3, <3>4, <3>6 DEF ConfirmarRespuesta, TypeInv, TypeOK
  <2>2. CASE respuesta' = [respuesta EXCEPT ![r] = SinRespuesta] /\ UNCHANGED <<inv, guest, notificada>>
    BY Keep, <1>c, <1>4, <2>2 DEF ConfirmarRespuesta, TypeInv, TypeOK
  <2> QED BY <1>4, <2>1, <2>2 DEF ConfirmarRespuesta
<1>5. CASE EncolarAviso(r)
  <2>1. NoticeOK' /\ ClockOK'
    <3>1. respuesta[r].i \in Invs
      BY <1>a, <1>5 DEF EncolarAviso
    <3> QED BY <1>a, <1>5, <3>1, FaultTypes DEF EncolarAviso, NoticeOK, ClockOK, Estados
  <2> QED BY Keep, <2>1, <1>c, <1>5 DEF EncolarAviso, TypeInv, TypeOK
<1> QED BY <1>1, <1>2, <1>3, <1>4, <1>5 DEF PasoRespuesta

\* The processes of an API that died, or of a transaction that was aborted.
LEMMA AbortTypes ==
  ASSUME TypeInv, CaeApi \/ \E e \in Editors, r \in Responders : Interbloqueo(e, r)
  PROVE  TypeInv'
<1> USE DEF deCola
<1>a. EnvioOK /\ EdicionOK /\ RespuestaOK /\ 0 \in 0..MaxReloj /\ 0 \in Cupo
  BY Supuestos DEF TypeInv, TypeOK, Cupo
<1>b. /\ SinEnvio \in EstadoEnvio /\ SinEnvio.pc = "libre"
      /\ SinEdicion \in EstadoEdicion /\ SinEdicion.pc = "libre"
      /\ SinRespuesta \in EstadoRespuesta /\ SinRespuesta.pc = "libre"
  BY <1>a DEF SinEnvio, EstadoEnvio, SinEdicion, EstadoEdicion, Cambio, SinRespuesta,
              EstadoRespuesta, Cuerpo
<1>1. CASE CaeApi
  <2>1. EnvioOK' /\ EdicionOK' /\ RespuestaOK'
    BY <1>b, <1>1 DEF CaeApi, EnvioOK, EdicionOK, RespuestaOK
  <2> QED BY Keep, FaultTypes, <2>1, <1>1 DEF CaeApi, TypeInv, TypeOK
<1>2. ASSUME NEW e \in Editors, NEW r \in Responders, Interbloqueo(e, r) PROVE TypeInv'
  <2>1. EdicionOK' /\ RespuestaOK'
    BY Keep, <1>a, <1>b, <1>2, PutEdicion, PutRespuesta DEF Interbloqueo
  <2> QED BY Keep, <2>1, <1>2 DEF Interbloqueo, TypeInv, TypeOK
<1> QED BY <1>1, <1>2

LEMMA StepTypes == TypeInv /\ AnswerHolds /\ [Next]_vars => TypeInv'
<1> SUFFICES ASSUME TypeInv, AnswerHolds, [Next]_vars PROVE TypeInv'
  OBVIOUS
<1>1. CASE UNCHANGED vars
  BY <1>1, Keep DEF vars, TypeInv, TypeOK
<1>2. CASE Tick
  <2>1. ClockOK'
    BY <1>2, Supuestos DEF Tick, TypeInv, TypeOK, ClockOK
  <2> QED BY <1>2, <2>1, Keep DEF Tick, TypeInv, TypeOK
<1> QED BY <1>1, <1>2, SendTypes, EditTypes, DeleteTypes, WorkerTypes, StallTypes,
           WebhookTypes, AnswerTypes, AbortTypes DEF Next

\* An invitation goes away only with its guest.
LEMMA ExistsStays ==
  ASSUME TypeInv, [Next]_vars, NEW i \in Invs, Existe(i),
         \A g \in Guests : ~BorrarInvitado(g)
  PROVE  Existe(i)'
<1>a. InvOK /\ inv[i].status \in Estados
  BY DEF TypeInv, TypeOK, Existe
<1>1. CASE inv' = inv
  BY <1>1, <1>a DEF Existe
<1>2. ASSUME NEW s \in Senders, CaducarAnteriores(s) PROVE Existe(i)'
  BY <1>2, <1>a DEF CaducarAnteriores, Existe, InvOK, FilaInvitacion
<1>3. ASSUME NEW s \in Senders, NEW j \in Invs, CrearInvitacion(s, j) PROVE Existe(i)'
  BY <1>3, <1>a DEF CrearInvitacion, Existe, InvOK, Estados
<1>4. ASSUME NEW e \in Editors, ConfirmarEdicion(e) PROVE Existe(i)'
  BY <1>4, <1>a DEF ConfirmarEdicion, Existe, InvOK, FilaInvitacion
<1>5. ASSUME NEW w \in Workers, MarcarEnviada(w) PROVE Existe(i)'
  BY <1>5, <1>a DEF MarcarEnviada, Existe, InvOK, FilaInvitacion, Estados
<1>6. ASSUME NEW w \in Workers, CaducarAgotada(w) PROVE Existe(i)'
  BY <1>6, <1>a DEF CaducarAgotada, Existe, InvOK, FilaInvitacion
<1>7. ASSUME NEW j \in Invs, NEW e \in Eventos, Webhook(j, e) PROVE Existe(i)'
  BY <1>7, <1>a, Supuestos DEF Webhook, Existe, InvOK, FilaInvitacion, Estados
<1>8. ASSUME NEW r \in Responders, ConfirmarRespuesta(r) PROVE Existe(i)'
  BY <1>8, <1>a DEF ConfirmarRespuesta, Existe, InvOK, FilaInvitacion, Estados
<1> QED BY <1>1, <1>2, <1>3, <1>4, <1>5, <1>6, <1>7, <1>8, WritersOfInv

LEMMA StepAnswerHolds == TypeInv /\ AnswerHolds /\ [Next]_vars => AnswerHolds'
<1> SUFFICES ASSUME TypeInv, AnswerHolds, [Next]_vars,
                    NEW r \in Responders, respuesta'[r].pc = "tx2"
             PROVE  Existe(respuesta[r].i)'
  BY DEF AnswerHolds
<1>a. RespuestaOK
  BY DEF TypeInv, TypeOK
<1>1. ASSUME NEW q \in Responders, MarcarRespondida(q) PROVE Existe(respuesta[r].i)'
  BY <1>1, <1>a DEF MarcarRespondida, AnswerHolds, Existe, RespuestaOK, SinRespuesta, deCorreo
<1>2. ASSUME NEW g \in Guests, BorrarInvitado(g) PROVE Existe(respuesta[r].i)'
  <2>1. respuesta'[r] = respuesta[r] /\ respuesta[r].i \in Invs
    BY <1>2, <1>a DEF BorrarInvitado, SinRespuesta, RespuestaOK
  <2>2. ~(Existe(respuesta[r].i) /\ inv[respuesta[r].i].guest = g)
    BY <1>2, <2>1 DEF BorrarInvitado, Suyas, SinRespuesta
  <2> QED BY <1>2, <2>1, <2>2 DEF BorrarInvitado, Suyas, AnswerHolds, Existe
<1>3. CASE /\ \A q \in Responders : ~MarcarRespondida(q)
           /\ \A g \in Guests : ~BorrarInvitado(g)
  <2>1. respuesta'[r] = respuesta[r]
    BY <1>3, WritersOfRespuesta
  <2>2. respuesta[r].i \in Invs /\ Existe(respuesta[r].i)
    BY <2>1, <1>a DEF AnswerHolds, RespuestaOK
  <2>3. \A i \in Invs : Existe(i) => Existe(i)'
    BY <1>3, ExistsStays
  <2> QED BY <2>1, <2>2, <2>3 DEF Existe
<1> QED BY <1>1, <1>2, <1>3

LEMMA Reachable == Spec => [](TypeInv /\ AnswerHolds)
<1>1. Init => AnswerHolds
  BY DEF Init, AnswerHolds, SinRespuesta
<1> QED BY InitTypes, StepTypes, StepAnswerHolds, <1>1, PTL DEF Spec

\* In every reachable state each table, job and process in memory has the
\* shape of the code's columns and objects.
THEOREM TypeCorrect == Spec => []TypeOK
<1>1. TypeInv => TypeOK
  BY DEF TypeInv
<1> QED BY Reachable, <1>1, PTL
=============================================================================
