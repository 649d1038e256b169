-------------------------- MODULE InvitationsSafety --------------------------
(* The safety properties of Invitations, proved from its types.            *)
EXTENDS InvitationsProofs

-----------------------------------------------------------------------------
(* What each family of steps leaves alone *)

PasoDe(s) == EnviarTodos(s) \/ PasoEnvio(s) \/ \E g \in Guests : EnviarUno(s, g)
EdicionDe(e) == PasoEdicion(e) \/ \E g \in Guests, c \in Cambios : LeerParaEditar(e, g, c)
TrabajoDe(w) == PasoWorker(w) \/ CaeWorker(w) \/ \E i \in Invs : Tomar(w, i)
RespuestaDe(r) ==
  PasoRespuesta(r) \/ \E i \in Invs, b \in Respuestas : RecibirRespuesta(r, i, b)

LEMMA Frames ==
  ASSUME [Next]_vars
  PROVE  \/ UNCHANGED vars
         \/ Tick
         \/ \E s \in Senders : PasoDe(s)
              /\ UNCHANGED <<reloj, guest, correo, notificada, worker, edicion, respuesta>>
         \/ \E e \in Editors : EdicionDe(e)
              /\ UNCHANGED <<reloj, correo, notificada, worker, envio, respuesta>>
         \/ \E g \in Guests : BorrarInvitado(g)
              /\ UNCHANGED <<reloj, correo, notificada, worker, envio, edicion>>
         \/ \E w \in Workers : TrabajoDe(w)
              /\ UNCHANGED <<reloj, guest, notificada, envio, edicion, respuesta>>
         \/ \E i \in Invs : (Atasco(i) \/ AtascoConVida(i) \/ \E e \in Eventos : Webhook(i, e))
              /\ UNCHANGED <<reloj, guest, correo, notificada, worker, envio, edicion, respuesta>>
         \/ \E r \in Responders : RespuestaDe(r)
              /\ UNCHANGED <<reloj, correo, worker, envio, edicion>>
         \/ \E e \in Editors, r \in Responders : Interbloqueo(e, r)
              /\ UNCHANGED <<reloj, guest, inv, correo, notificada, worker, envio>>
         \/ CaeApi /\ UNCHANGED <<reloj, guest, inv, correo, notificada, worker>>
<1> USE DEF dePeticiones, deCola, deEnvios, deApi, deCorreo
<1>1. ASSUME NEW s \in Senders, PasoDe(s)
      PROVE  UNCHANGED <<reloj, guest, correo, notificada, worker, edicion, respuesta>>
  BY <1>1 DEF PasoDe, EnviarTodos, EnviarUno, PasoEnvio, CaducarAnteriores, CrearInvitacion,
              CrearRechazada, Encolar, EncolarFalla
<1>2. ASSUME NEW e \in Editors, EdicionDe(e)
      PROVE  UNCHANGED <<reloj, correo, notificada, worker, envio, respuesta>>
  BY <1>2 DEF EdicionDe, LeerParaEditar, PasoEdicion, EditarSinTransaccion, EditarEnTransaccion,
              CaducarEnTransaccion, ConfirmarEdicion
<1>3. ASSUME NEW g \in Guests, BorrarInvitado(g)
      PROVE  UNCHANGED <<reloj, correo, notificada, worker, envio, edicion>>
  BY <1>3 DEF BorrarInvitado
<1>4. ASSUME NEW w \in Workers, TrabajoDe(w)
      PROVE  UNCHANGED <<reloj, guest, notificada, envio, edicion, respuesta>>
  BY <1>4 DEF TrabajoDe, Tomar, CaeWorker, PasoWorker, EnviarOk, EnviarRechazado,
              EnviarSinRespuesta, MarcarEnviada, MarcarFalla, CaducarAgotada,
              CaducarAgotadaFalla, Completar, Fallar
<1>5. ASSUME NEW i \in Invs, Atasco(i) \/ AtascoConVida(i) \/ \E e \in Eventos : Webhook(i, e)
      PROVE  UNCHANGED <<reloj, guest, correo, notificada, worker, envio, edicion, respuesta>>
  BY <1>5 DEF Atasco, AtascoConVida, Webhook
<1>6. ASSUME NEW r \in Responders, RespuestaDe(r)
      PROVE  UNCHANGED <<reloj, correo, worker, envio, edicion>>
  BY <1>6 DEF RespuestaDe, RecibirRespuesta, PasoRespuesta, LeerInvitacion, MarcarRespondida,
              ConfirmarRespuesta, EncolarAviso
<1>7. ASSUME NEW e \in Editors, NEW r \in Responders, Interbloqueo(e, r)
      PROVE  UNCHANGED <<reloj, guest, inv, correo, notificada, worker, envio>>
  BY <1>7 DEF Interbloqueo
<1>8. CaeApi => UNCHANGED <<reloj, guest, inv, correo, notificada, worker>>
  BY DEF CaeApi
<1> QED BY <1>1, <1>2, <1>3, <1>4, <1>5, <1>6, <1>7, <1>8
        DEF Next, PasoDe, EdicionDe, TrabajoDe, RespuestaDe

LEMMA ClockAdvances ==
  ASSUME TypeInv, [Next]_vars
  PROVE  reloj \in Nat /\ reloj' \in Nat /\ reloj <= reloj'
<1>1. reloj' = reloj \/ reloj' = reloj + 1
  BY Frames DEF vars, Tick
<1>2. reloj \in Nat
  BY Supuestos DEF TypeInv, TypeOK, ClockOK
<1> QED BY <1>1, <1>2

-----------------------------------------------------------------------------
(* Statuses *)

LEMMA StatusStep ==
  ASSUME TypeInv, [Next]_vars, NEW i \in Invs, Existe(i), inv'[i].status \in Estados,
         inv'[i].status # inv[i].status
  PROVE  Rango(inv[i].status) < Rango(inv'[i].status)
<1>a. InvOK /\ inv[i].status \in Estados /\ inv[i].status # "NUEVA"
  BY DEF TypeInv, TypeOK, Existe, Estados
<1>b. ASSUME NEW x \in Estados, NEW y \in Estados, x \in EstadosQuePuedenAvanzarA(y)
      PROVE  Rango(x) < Rango(y)
  BY <1>b DEF EstadosQuePuedenAvanzarA
<1>1. ASSUME NEW s \in Senders, CaducarAnteriores(s) PROVE FALSE
  BY <1>1, <1>a DEF CaducarAnteriores, InvOK, FilaInvitacion
<1>2. ASSUME NEW s \in Senders, NEW j \in Invs, CrearInvitacion(s, j) PROVE FALSE
  BY <1>2, <1>a DEF CrearInvitacion, InvOK
<1>3. ASSUME NEW e \in Editors, ConfirmarEdicion(e) PROVE FALSE
  BY <1>3, <1>a DEF ConfirmarEdicion, InvOK, FilaInvitacion
<1>4. ASSUME NEW g \in Guests, BorrarInvitado(g) PROVE FALSE
  BY <1>4, <1>a DEF BorrarInvitado, InvOK, FilaInvitacion, Estados
<1>5. ASSUME NEW w \in Workers, MarcarEnviada(w) PROVE Rango(inv[i].status) < Rango(inv'[i].status)
  <2>1. inv'[i].status = "SENT" /\ inv[i].status \in EstadosQuePuedenAvanzarA("SENT")
    BY <1>5, <1>a DEF MarcarEnviada, InvOK, FilaInvitacion
  <2> QED BY <2>1, <1>a, <1>b DEF Estados
<1>6. ASSUME NEW w \in Workers, CaducarAgotada(w) PROVE FALSE
  BY <1>6, <1>a DEF CaducarAgotada, InvOK, FilaInvitacion
<1>7. ASSUME NEW j \in Invs, NEW e \in Eventos, Webhook(j, e)
      PROVE  Rango(inv[i].status) < Rango(inv'[i].status)
  <2>1. inv'[i].status = e /\ inv[i].status \in EstadosQuePuedenAvanzarA(e)
    BY <1>7, <1>a DEF Webhook, AvanzaConMensaje, InvOK, FilaInvitacion
  <2> QED BY <2>1, <1>a, <1>b
<1>8. ASSUME NEW r \in Responders, ConfirmarRespuesta(r)
      PROVE  Rango(inv[i].status) < Rango(inv'[i].status)
  <2>1. inv'[i].status = "RESPONDED"
    BY <1>8, <1>a DEF ConfirmarRespuesta, InvOK, FilaInvitacion
  <2>2. inv[i].status \in {"QUEUED", "SENT", "DELIVERED", "BOUNCED", "COMPLAINED"}
    BY <2>1, <1>a DEF Estados
  <2> QED BY <2>1, <2>2 DEF Rango
<1> QED BY <1>1, <1>2, <1>3, <1>4, <1>5, <1>6, <1>7, <1>8, WritersOfInv

\* The status of an invitation only advances, and never leaves RESPONDED,
\* whatever the interleaving of workers, webhooks, answers and edits.
THEOREM StatusesAdvance == Spec => StatusOnlyAdvances
<1>1. TypeInv /\ [Next]_vars
      => [\A i \in Invs : Existe(i) /\ inv'[i].status \in Estados
            /\ inv'[i].status # inv[i].status => Rango(inv[i].status) < Rango(inv'[i].status)]_inv
  BY StatusStep
<1> QED BY Reachable, <1>1, PTL DEF Spec, StatusOnlyAdvances

-----------------------------------------------------------------------------
(* Links *)

\* Only its second statement takes a PATCH to the commit.
LEMMA WritersOfEdicion ==
  ASSUME TypeInv, [Next]_vars, NEW e \in Editors, edicion'[e].pc = "commit"
  PROVE  edicion'[e] = edicion[e] \/ CaducarEnTransaccion(e)
<1>a. EdicionOK
  BY DEF TypeInv, TypeOK
<1>1. ASSUME NEW f \in Editors, EdicionDe(f)
      PROVE  edicion'[e] = edicion[e] \/ CaducarEnTransaccion(e)
  <2> USE DEF SinEdicion
  <2>1. ASSUME NEW g \in Guests, NEW c \in Cambios, LeerParaEditar(f, g, c)
        PROVE  edicion'[e] = edicion[e]
    BY <2>1, <1>a DEF LeerParaEditar, EdicionOK
  <2>2. CASE EditarSinTransaccion(f)
    BY <2>2, <1>a DEF EditarSinTransaccion, EdicionOK
  <2>3. CASE EditarEnTransaccion(f)
    BY <2>3, <1>a DEF EditarEnTransaccion, EdicionOK, EstadoEdicion
  <2>4. CASE CaducarEnTransaccion(f)
    BY <2>4, <1>a DEF CaducarEnTransaccion, EdicionOK
  <2>5. CASE ConfirmarEdicion(f)
    BY <2>5, <1>a DEF ConfirmarEdicion, EdicionOK
  <2> QED BY <1>1, <2>1, <2>2, <2>3, <2>4, <2>5 DEF EdicionDe, PasoEdicion
<1>2. ASSUME NEW f \in Editors, NEW r \in Responders, Interbloqueo(f, r)
      PROVE  edicion'[e] = edicion[e]
  BY <1>2, <1>a DEF Interbloqueo, EdicionOK, SinEdicion
<1>3. ~CaeApi
  BY <1>a DEF CaeApi, SinEdicion
<1> QED BY <1>1, <1>2, <1>3, Frames DEF vars, Tick

\* Only caducarVigentesDe takes a send to the creation.
LEMMA WritersOfEnvio ==
  ASSUME TypeInv, [Next]_vars, NEW s \in Senders, envio'[s].pc = "crear"
  PROVE  envio'[s] = envio[s] \/ CaducarAnteriores(s)
<1>a. EnvioOK
  BY DEF TypeInv, TypeOK
<1>1. ASSUME NEW q \in Senders, PasoDe(q)
      PROVE  envio'[s] = envio[s] \/ CaducarAnteriores(s)
  <2> USE DEF SinEnvio, SiguienteDelLote
  <2>1. CASE EnviarTodos(q)
    BY <2>1, <1>a DEF EnviarTodos, EnvioOK
  <2>2. ASSUME NEW g \in Guests, EnviarUno(q, g) PROVE envio'[s] = envio[s]
    BY <2>2, <1>a DEF EnviarUno, EnvioOK
  <2>3. CASE CaducarAnteriores(q)
    <3>1. CASE q # s
      BY <2>3, <3>1, <1>a DEF CaducarAnteriores, EnvioOK
    <3>2. CASE q = s
      BY <2>3, <3>2
    <3> QED BY <3>1, <3>2
  <2>4. ASSUME NEW i \in Invs, CrearInvitacion(q, i) PROVE envio'[s] = envio[s]
    BY <2>4, <1>a DEF CrearInvitacion, EnvioOK, EstadoEnvio
  <2>5. ASSUME NEW g \in Guests, SiguienteDelLote(q, g) PROVE envio'[s] = envio[s]
    BY <2>5, <1>a DEF EnvioOK
  <2>6. envio[q].pc \in {"crear", "encolar"} => envio[q].g \in Guests
    BY <1>a DEF EnvioOK
  <2> QED BY <1>1, <2>1, <2>2, <2>3, <2>4, <2>5, <2>6
          DEF PasoDe, PasoEnvio, CrearRechazada, Encolar, EncolarFalla
<1>2. ~CaeApi
  BY <1>a DEF CaeApi, SinEnvio
<1> QED BY <1>1, <1>2, Frames DEF vars, Tick

\* The date a PATCH is about to write is past.
PastDates == \A e \in Editors : edicion[e].pc = "commit" => edicion[e].desde <= reloj

LEMMA StepPastDates == TypeInv /\ PastDates /\ [Next]_vars => PastDates'
<1> SUFFICES ASSUME TypeInv, PastDates, [Next]_vars, NEW e \in Editors,
                    edicion'[e].pc = "commit"
             PROVE  edicion'[e].desde <= reloj'
  BY DEF PastDates
<1>a. EdicionOK /\ reloj \in Nat /\ reloj' \in Nat /\ reloj <= reloj'
  BY ClockAdvances DEF TypeInv, TypeOK
<1>1. CASE edicion'[e] = edicion[e]
  <2>1. edicion[e].desde \in Nat
    BY <1>a DEF EdicionOK, EstadoEdicion
  <2> QED BY <1>1, <1>a, <2>1 DEF PastDates
<1>2. CASE CaducarEnTransaccion(e)
  <2>1. PICK t \in edicion[e].desde..reloj :
          edicion' = [edicion EXCEPT ![e].pc = "commit", ![e].desde = t,
                                     ![e].filas = VigentesDe(edicion[e].g, t),
                                     ![e].habia = Suyas(edicion[e].g)]
    BY <1>2 DEF CaducarEnTransaccion
  <2>2. edicion'[e].desde = t
    BY <2>1, <1>a DEF EdicionOK, EstadoEdicion
  <2>3. edicion[e].desde \in Nat
    BY <1>a DEF EdicionOK, EstadoEdicion
  <2> QED BY <2>2, <2>3, <1>a
<1> QED BY <1>1, <1>2, WritersOfEdicion

\* A link that is alive after a step was alive before it, with the same date,
\* guest and author, or the step creates it.
LEMMA LinkStep ==
  ASSUME TypeInv, AnswerHolds, PastDates, [Next]_vars, NEW i \in Invs, Viva(i)'
  PROVE  \/ /\ Viva(i)
            /\ inv'[i].expiresAt = inv[i].expiresAt
            /\ inv'[i].guest = inv[i].guest /\ inv'[i].autor = inv[i].autor
         \/ \E s \in Senders : CrearInvitacion(s, i)
<1> DEFINE Same == /\ Viva(i)
                   /\ inv'[i].expiresAt = inv[i].expiresAt
                   /\ inv'[i].guest = inv[i].guest /\ inv'[i].autor = inv[i].autor
<1>a. /\ InvOK /\ EdicionOK /\ inv[i] \in FilaInvitacion /\ inv[i].expiresAt \in Nat
      /\ reloj \in Nat /\ reloj' \in Nat /\ reloj <= reloj'
      /\ inv'[i].status \in Estados /\ inv'[i].expiresAt > reloj'
  BY ClockAdvances DEF TypeInv, TypeOK, InvOK, FilaInvitacion, Viva, Existe
<1>1. ASSUME inv'[i].expiresAt = inv[i].expiresAt, inv'[i].guest = inv[i].guest,
             inv'[i].autor = inv[i].autor, inv[i].status \in Estados
      PROVE  Same
  BY <1>1, <1>a DEF Viva, Existe
<1>2. CASE inv' = inv
  BY <1>1, <1>2, <1>a
<1>3. ASSUME NEW s \in Senders, CaducarAnteriores(s) PROVE Same
  <2>1. PICK g \in envio[s].lote, t \in envio[s].desde..reloj :
          inv' = [j \in Invs |-> IF j \in VigentesDe(g, t)
                                 THEN [inv[j] EXCEPT !.expiresAt = t] ELSE inv[j]]
    BY <1>3 DEF CaducarAnteriores
  <2>2. envio[s].desde \in Nat /\ reloj' = reloj
    BY <1>3 DEF CaducarAnteriores, TypeInv, TypeOK, EnvioOK, EstadoEnvio
  <2>3. i \notin VigentesDe(g, t)
    BY <1>a, <2>1, <2>2 DEF FilaInvitacion
  <2>4. inv'[i] = inv[i]
    BY <2>1, <2>3
  <2> QED BY <1>1, <1>a, <2>4
<1>4. ASSUME NEW s \in Senders, NEW j \in Invs, CrearInvitacion(s, j)
      PROVE  Same \/ CrearInvitacion(s, i)
  <2>1. CASE j = i
    BY <1>4, <2>1
  <2>2. CASE j # i
    <3>1. inv'[i] = inv[i]
      BY <1>4, <1>a, <2>2 DEF CrearInvitacion, InvOK
    <3> QED BY <1>1, <1>a, <3>1
  <2> QED BY <2>1, <2>2
<1>5. ASSUME NEW e \in Editors, ConfirmarEdicion(e) PROVE Same
  <2>1. edicion[e].desde <= reloj /\ edicion[e].desde \in Nat /\ reloj' = reloj
    BY <1>5, <1>a DEF ConfirmarEdicion, PastDates, EdicionOK, EstadoEdicion
  <2>2. i \notin edicion[e].filas
    BY <1>5, <1>a, <2>1 DEF ConfirmarEdicion, FilaInvitacion
  <2>3. inv'[i] = inv[i]
    BY <1>5, <2>2 DEF ConfirmarEdicion
  <2> QED BY <1>1, <1>a, <2>3
<1>6. ASSUME NEW g \in Guests, BorrarInvitado(g) PROVE Same
  <2>1. inv'[i] = inv[i]
    BY <1>6, <1>a DEF BorrarInvitado, FilaInvitacion, Estados
  <2> QED BY <1>1, <1>a, <2>1
<1>7. ASSUME NEW w \in Workers, MarcarEnviada(w) PROVE Same
  <2>1. /\ inv'[i].expiresAt = inv[i].expiresAt /\ inv'[i].guest = inv[i].guest
        /\ inv'[i].autor = inv[i].autor
    BY <1>7, <1>a DEF MarcarEnviada, InvOK, FilaInvitacion
  <2>2. inv[i].status \in Estados
    BY <1>7, <1>a DEF MarcarEnviada, InvOK, FilaInvitacion, EstadosQuePuedenAvanzarA
  <2> QED BY <1>1, <2>1, <2>2
<1>8. ASSUME NEW w \in Workers, CaducarAgotada(w) PROVE Same
  <2>1. inv'[i] = inv[i]
    BY <1>8, <1>a DEF CaducarAgotada, InvOK, FilaInvitacion
  <2> QED BY <1>1, <1>a, <2>1
<1>9. ASSUME NEW j \in Invs, NEW e \in Eventos, Webhook(j, e) PROVE Same
  <2>1. /\ inv'[i].expiresAt = inv[i].expiresAt /\ inv'[i].guest = inv[i].guest
        /\ inv'[i].autor = inv[i].autor /\ inv[i].status \in Estados
    BY <1>9, <1>a DEF Webhook, AvanzaConMensaje, InvOK, FilaInvitacion, EstadosQuePuedenAvanzarA
  <2> QED BY <1>1, <2>1
<1>10. ASSUME NEW r \in Responders, ConfirmarRespuesta(r) PROVE Same
  <2>1. /\ inv'[i].expiresAt = inv[i].expiresAt /\ inv'[i].guest = inv[i].guest
        /\ inv'[i].autor = inv[i].autor
    BY <1>10, <1>a DEF ConfirmarRespuesta, InvOK, FilaInvitacion
  <2>2. inv[i].status \in Estados
    BY <1>10, <1>a DEF ConfirmarRespuesta, AnswerHolds, Existe, InvOK, FilaInvitacion
  <2> QED BY <1>1, <2>1, <2>2
<1> QED BY <1>2, <1>3, <1>4, <1>5, <1>6, <1>7, <1>8, <1>9, <1>10, WritersOfInv

LEMMA ReachableDates == Spec => [](TypeInv /\ AnswerHolds /\ PastDates)
<1>1. Init => PastDates
  BY DEF Init, PastDates, SinEdicion
<1> QED BY Reachable, StepPastDates, <1>1, PTL DEF Spec

\* A link that stopped working never works again.
THEOREM LinksStayDead == Spec => LinkNeverRevives
<1>1. ASSUME TypeInv, AnswerHolds, PastDates, [Next]_vars, NEW i \in Invs, Existe(i), ~Viva(i)
      PROVE  ~Viva(i)'
  <2>1. InvOK /\ inv[i].status # "NUEVA"
    BY <1>1 DEF TypeInv, TypeOK, Existe, Estados
  <2>2. \A s \in Senders : ~CrearInvitacion(s, i)
    BY <2>1 DEF CrearInvitacion
  <2> QED BY <1>1, <2>2, LinkStep
<1>2. TypeInv /\ AnswerHolds /\ PastDates /\ [Next]_vars
      => [\A i \in Invs : Existe(i) /\ ~Viva(i) => ~Viva(i)']_vars
  BY <1>1
<1> QED BY ReachableDates, <1>2, PTL DEF Spec, LinkNeverRevives

\* A send that is about to create an invitation has no live link of its own
\* for that guest.
NothingLeftBehind ==
  \A s \in Senders, i \in Invs :
    envio[s].pc = "crear" /\ Viva(i) /\ inv[i].guest = envio[s].g => inv[i].autor # s

LEMMA StepNothingLeftBehind ==
  ASSUME TypeInv, AnswerHolds, PastDates, NothingLeftBehind, [Next]_vars
  PROVE  NothingLeftBehind'
<1> SUFFICES ASSUME NEW s \in Senders, NEW i \in Invs, envio'[s].pc = "crear", Viva(i)',
                    inv'[i].guest = envio'[s].g, inv'[i].autor = s
             PROVE  FALSE
  BY DEF NothingLeftBehind
<1>a. InvOK /\ EnvioOK
  BY DEF TypeInv, TypeOK
<1>1. ASSUME NEW q \in Senders, CrearInvitacion(q, i) PROVE FALSE
  <2>1. inv'[i].autor = q
    BY <1>1, <1>a DEF CrearInvitacion, InvOK
  <2>2. envio'[s].pc = "encolar"
    BY <1>1, <1>a, <2>1 DEF CrearInvitacion, EnvioOK, EstadoEnvio
  <2> QED BY <2>2
<1>2. Viva(i) /\ inv'[i].guest = inv[i].guest /\ inv'[i].autor = inv[i].autor
      /\ inv'[i].expiresAt = inv[i].expiresAt
  BY <1>1, LinkStep
<1>3. CASE envio'[s] = envio[s]
  BY <1>2, <1>3 DEF NothingLeftBehind
<1>4. CASE CaducarAnteriores(s)
  <2>1. PICK g \in envio[s].lote, t \in envio[s].desde..reloj :
          /\ inv' = [j \in Invs |-> IF j \in VigentesDe(g, t)
                                    THEN [inv[j] EXCEPT !.expiresAt = t] ELSE inv[j]]
          /\ envio' = [envio EXCEPT ![s].pc = "crear", ![s].g = g, ![s].desde = reloj]
    BY <1>4 DEF CaducarAnteriores
  <2>2. envio[s].desde \in Nat /\ reloj \in Nat /\ inv[i].expiresAt \in Nat
    BY <1>a, ClockAdvances DEF EnvioOK, EstadoEnvio, InvOK, FilaInvitacion
  <2>3. envio'[s].g = g
    BY <2>1, <1>a DEF EnvioOK, EstadoEnvio
  <2>4. Existe(i) /\ inv[i].expiresAt > reloj /\ inv[i].guest = g
    BY <1>2, <2>3 DEF Viva
  <2>7. inv[i].expiresAt > t
    BY <2>2, <2>4
  <2>5. i \in VigentesDe(g, t)
    BY <2>4, <2>7 DEF VigentesDe, Suyas
  <2>6. inv'[i].expiresAt = t
    BY <2>1, <2>5, <1>a DEF InvOK, FilaInvitacion
  <2> QED BY <2>6, <2>7, <2>2, <1>2
<1> QED BY <1>3, <1>4, WritersOfEnvio

LEMMA StepTwoLive ==
  ASSUME TypeInv, AnswerHolds, PastDates, NothingLeftBehind, TwoLiveLinksNeedTwoSenders,
         [Next]_vars
  PROVE  TwoLiveLinksNeedTwoSenders'
<1> SUFFICES ASSUME NEW i \in Invs, NEW j \in Invs, i # j, Viva(i)', Viva(j)',
                    inv'[i].guest = inv'[j].guest, inv'[i].autor = inv'[j].autor
             PROVE  FALSE
  BY DEF TwoLiveLinksNeedTwoSenders
<1>a. InvOK /\ EnvioOK
  BY DEF TypeInv, TypeOK
<1>1. ASSUME NEW s \in Senders, NEW x \in Invs, NEW y \in Invs, CrearInvitacion(s, x), x # y,
             Viva(y)', inv'[x].guest = inv'[y].guest, inv'[x].autor = inv'[y].autor
      PROVE  FALSE
  <2>1. inv'[y] = inv[y] /\ inv'[x].autor = s /\ inv'[x].guest = envio[s].g
    BY <1>1, <1>a DEF CrearInvitacion, InvOK
  <2>2. reloj' = reloj /\ envio[s].pc = "crear"
    BY <1>1 DEF CrearInvitacion
  <2>3. Viva(y)
    BY <1>1, <2>1, <2>2 DEF Viva, Existe
  <2> QED BY <1>1, <2>1, <2>2, <2>3 DEF NothingLeftBehind
<1>2. CASE \E s \in Senders : CrearInvitacion(s, i)
  BY <1>1, <1>2
<1>3. CASE \E s \in Senders : CrearInvitacion(s, j)
  BY <1>1, <1>3
<1>4. CASE ~(\E s \in Senders : CrearInvitacion(s, i) \/ CrearInvitacion(s, j))
  <2>1. Viva(i) /\ inv'[i].guest = inv[i].guest /\ inv'[i].autor = inv[i].autor
    BY <1>4, LinkStep
  <2>2. Viva(j) /\ inv'[j].guest = inv[j].guest /\ inv'[j].autor = inv[j].autor
    BY <1>4, LinkStep
  <2> QED BY <2>1, <2>2 DEF TwoLiveLinksNeedTwoSenders
<1> QED BY <1>2, <1>3, <1>4

\* Two live links of one guest come from two different send requests.
THEOREM TwoLinksTwoSenders == Spec => []TwoLiveLinksNeedTwoSenders
<1>1. Init => NothingLeftBehind /\ TwoLiveLinksNeedTwoSenders
  BY DEF Init, NothingLeftBehind, TwoLiveLinksNeedTwoSenders, SinEnvio, Viva, Existe, Estados
<1>2. /\ TypeInv /\ AnswerHolds /\ PastDates /\ NothingLeftBehind /\ TwoLiveLinksNeedTwoSenders
      /\ [Next]_vars
      => NothingLeftBehind' /\ TwoLiveLinksNeedTwoSenders'
  BY StepNothingLeftBehind, StepTwoLive
<1> QED BY ReachableDates, <1>1, <1>2, PTL DEF Spec

-----------------------------------------------------------------------------
(* Mails *)

\* The provider does not take back a mail.
LEMMA MailStays ==
  ASSUME TypeInv, [Next]_vars, NEW i \in Invs, correo[i] # None
  PROVE  correo'[i] # None
<1>a. MailOK
  BY DEF TypeInv, TypeOK
<1>1. ASSUME NEW w \in Workers, TrabajoDe(w) PROVE correo'[i] # None
  <2>1. ASSUME correo' = Saliente(w) PROVE correo'[i] # None
    BY <2>1, <1>a DEF Saliente, MailOK
  <2>2. correo' = correo \/ correo' = Saliente(w)
    BY <1>1 DEF TrabajoDe, Tomar, CaeWorker, PasoWorker, EnviarOk, EnviarRechazado,
                EnviarSinRespuesta, MarcarEnviada, MarcarFalla, CaducarAgotada,
                CaducarAgotadaFalla, Completar, Fallar
  <2> QED BY <2>1, <2>2
<1> QED BY <1>1, Frames DEF vars, Tick

\* How a worker gets to send and to mark, and how an answer begins.
LEMMA WritersOfWorker ==
  ASSUME TypeInv, [Next]_vars, NEW w \in Workers, worker'[w].pc \in {"enviar", "marcar"}
  PROVE  \/ worker'[w] = worker[w]
         \/ worker'[w].pc = "enviar" /\ worker'[w].email # None
         \/ /\ worker'[w].pc = "marcar" /\ EnviarOk(w) /\ worker'[w].i = worker[w].i
<1>a. WorkerOK
  BY DEF TypeInv, TypeOK
<1> DEFINE Goal == \/ worker'[w] = worker[w]
                   \/ worker'[w].pc = "enviar" /\ worker'[w].email # None
                   \/ worker'[w].pc = "marcar" /\ EnviarOk(w) /\ worker'[w].i = worker[w].i
<1>1. ASSUME NEW q \in Workers, TrabajoDe(q) PROVE Goal
  <2> USE DEF SinTrabajo, Soltar
  <2>1. ASSUME NEW i \in Invs, Tomar(q, i) PROVE Goal
    <3>1. CASE q # w
      BY <2>1, <3>1, <1>a DEF Tomar, WorkerOK
    <3>2. CASE q = w
      <4>1. PICK p \in {"enviar", "completar", "caducar", "fallar"},
                 m \in {guest[inv[i].guest].email, None} :
              /\ worker' = [worker EXCEPT ![w] = [worker[w] EXCEPT
                              !.pc = p, !.i = i, !.email = m, !.hechos = job[i].hechos]]
              /\ p = "enviar" \/ m # None => Viva(i) /\ inv[i].status = "QUEUED" /\ m # None
              /\ p = "fallar" => ~esUltimoIntento(job[i].hechos)
              /\ fallos' = fallos \/ Falla
        BY <2>1, <3>2, TomarShape
      <4>2. worker'[w].pc = p /\ worker'[w].email = m
        BY <4>1, <1>a DEF WorkerOK, EstadoWorker
      <4> QED BY <4>1, <4>2
    <3> QED BY <3>1, <3>2
  <2>2. CASE EnviarOk(q)
    <3>1. CASE q # w
      BY <2>2, <3>1, <1>a DEF EnviarOk, WorkerOK
    <3>2. CASE q = w
      <4>1. PICK c \in BOOLEAN :
              worker' = [worker EXCEPT ![w] = [worker[w] EXCEPT !.pc = "marcar", !.conId = c]]
        BY <2>2, <3>2 DEF EnviarOk
      <4>2. worker'[w] = [worker[w] EXCEPT !.pc = "marcar", !.conId = c]
        BY <4>1, <1>a DEF WorkerOK
      <4>3. worker'[w].pc = "marcar" /\ worker'[w].i = worker[w].i
        BY <4>2, <1>a DEF WorkerOK, EstadoWorker
      <4> QED BY <2>2, <3>2, <4>3
    <3> QED BY <3>1, <3>2
  <2>3. CASE EnviarRechazado(q) \/ EnviarSinRespuesta(q)
    BY <2>3, <1>a DEF EnviarRechazado, EnviarSinRespuesta, TrasFallarEnvio, TrasFallar, WorkerOK,
                    EstadoWorker
  <2>4. CASE MarcarEnviada(q) \/ MarcarFalla(q)
    BY <2>4, <1>a DEF MarcarEnviada, MarcarFalla, WorkerOK, EstadoWorker
  <2>5. CASE CaducarAgotada(q) \/ CaducarAgotadaFalla(q)
    BY <2>5, <1>a DEF CaducarAgotada, CaducarAgotadaFalla, WorkerOK, EstadoWorker
  <2>6. CASE Completar(q)
    BY <2>6, <1>a DEF Completar, WorkerOK
  <2>7. CASE Fallar(q)
    <3>1. CASE worker' = [worker EXCEPT ![q] = Soltar(q)]
      BY <3>1, <1>a DEF WorkerOK
    <3>2. CASE worker' = [worker EXCEPT ![q] = [@ EXCEPT !.pc = "respaldo"]]
      BY <3>2, <1>a DEF WorkerOK, EstadoWorker
    <3>3. CASE worker' = [worker EXCEPT ![q] = [SinTrabajo EXCEPT !.sinMarcar = worker[q].sinMarcar \ {worker[q].i}]]
      BY <3>3, <1>a DEF WorkerOK
    <3> QED BY <2>7, <3>1, <3>2, <3>3 DEF Fallar
  <2>8. CASE CaeWorker(q)
    BY <2>8, <1>a DEF CaeWorker, WorkerOK
  <2> QED BY <1>1, <2>1, <2>2, <2>3, <2>4, <2>5, <2>6, <2>7, <2>8 DEF TrabajoDe, PasoWorker
<1> QED BY <1>1, Frames DEF vars, Tick

LEMMA AnswersBegin ==
  ASSUME TypeInv, [Next]_vars, NEW r \in Responders, respuesta'[r].pc # "libre"
  PROVE  \/ respuesta[r].pc # "libre" /\ respuesta'[r].i = respuesta[r].i
         \/ correo[respuesta'[r].i] # None
<1>a. RespuestaOK
  BY DEF TypeInv, TypeOK
<1> DEFINE Goal == \/ respuesta[r].pc # "libre" /\ respuesta'[r].i = respuesta[r].i
                   \/ correo[respuesta'[r].i] # None
<1>1. ASSUME NEW q \in Responders, RespuestaDe(q) PROVE Goal
  <2> USE DEF SinRespuesta
  <2>1. ASSUME NEW i \in Invs, NEW b \in Respuestas, RecibirRespuesta(q, i, b) PROVE Goal
    <3>1. CASE q # r
      BY <2>1, <3>1, <1>a DEF RecibirRespuesta, RespuestaOK
    <3>2. CASE q = r
      BY <2>1, <3>2, <1>a DEF RecibirRespuesta, RespuestaOK
    <3> QED BY <3>1, <3>2
  <2>2. CASE LeerInvitacion(q)
    BY <2>2, <1>a DEF LeerInvitacion, RespuestaOK, EstadoRespuesta
  <2>3. CASE MarcarRespondida(q)
    BY <2>3, <1>a DEF MarcarRespondida, RespuestaOK, EstadoRespuesta
  <2>4. CASE ConfirmarRespuesta(q)
    <3>1. CASE respuesta' = [respuesta EXCEPT ![q].pc = "aviso"]
      BY <2>4, <3>1, <1>a DEF ConfirmarRespuesta, RespuestaOK, EstadoRespuesta
    <3>2. CASE respuesta' = [respuesta EXCEPT ![q] = SinRespuesta]
      BY <3>2, <1>a DEF RespuestaOK
    <3> QED BY <2>4, <3>1, <3>2 DEF ConfirmarRespuesta
  <2>5. CASE EncolarAviso(q)
    BY <2>5, <1>a DEF EncolarAviso, RespuestaOK
  <2> QED BY <1>1, <2>1, <2>2, <2>3, <2>4, <2>5 DEF RespuestaDe, PasoRespuesta
<1>2. ASSUME NEW g \in Guests, BorrarInvitado(g) PROVE Goal
  BY <1>2, <1>a DEF BorrarInvitado, RespuestaOK, SinRespuesta
<1>3. ASSUME NEW e \in Editors, NEW q \in Responders, Interbloqueo(e, q) PROVE Goal
  BY <1>3, <1>a DEF Interbloqueo, RespuestaOK, SinRespuesta
<1>4. ~CaeApi
  BY <1>a DEF CaeApi, SinRespuesta
<1> QED BY <1>1, <1>2, <1>3, <1>4, Frames DEF vars, Tick

\* Whoever holds an address to send has one, whoever marks or answers an
\* invitation has seen its mail leave.
MailBefore ==
  /\ \A w \in Workers : worker[w].pc = "enviar" => worker[w].email # None
  /\ \A w \in Workers : worker[w].pc = "marcar" => correo[worker[w].i] # None
  /\ \A r \in Responders : respuesta[r].pc # "libre" => correo[respuesta[r].i] # None

LEMMA StepMailBefore ==
  ASSUME TypeInv, AnswerHolds, MailBefore, [Next]_vars
  PROVE  MailBefore'
<1>a. WorkerOK /\ RespuestaOK /\ MailOK
  BY DEF TypeInv, TypeOK
<1>1. ASSUME NEW w \in Workers, worker'[w].pc = "enviar" PROVE worker'[w].email # None
  BY <1>1, WritersOfWorker DEF MailBefore
<1>2. ASSUME NEW w \in Workers, worker'[w].pc = "marcar" PROVE correo'[worker'[w].i] # None
  <2>1. CASE worker'[w] = worker[w]
    <3>1. worker[w].i \in Invs /\ correo[worker[w].i] # None
      BY <1>2, <1>a, <2>1 DEF WorkerOK, MailBefore
    <3> QED BY <2>1, <3>1, MailStays
  <2>2. CASE EnviarOk(w) /\ worker'[w].i = worker[w].i
    <3>1. worker[w].i \in Invs /\ worker[w].email # None
      BY <1>a, <2>2 DEF WorkerOK, MailBefore, EnviarOk
    <3> QED BY <1>a, <2>2, <3>1 DEF EnviarOk, Saliente, MailOK
  <2> QED BY <1>2, <2>1, <2>2, WritersOfWorker
<1>3. ASSUME NEW r \in Responders, respuesta'[r].pc # "libre"
      PROVE  correo'[respuesta'[r].i] # None
  <2>1. respuesta'[r].i \in Invs
    BY <1>3, StepTypes DEF TypeInv, TypeOK, RespuestaOK
  <2>2. correo[respuesta'[r].i] # None
    BY <1>3, AnswersBegin DEF MailBefore
  <2> QED BY <2>1, <2>2, MailStays
<1> QED BY <1>1, <1>2, <1>3 DEF MailBefore

LEMMA StepSentMeansMailed ==
  ASSUME TypeInv, AnswerHolds, MailBefore, SentMeansMailed, [Next]_vars
  PROVE  SentMeansMailed'
<1> SUFFICES ASSUME NEW i \in Invs, Existe(i)', inv'[i].status # "QUEUED"
             PROVE  correo[i] # None
  BY MailStays DEF SentMeansMailed
<1>a. InvOK /\ WorkerOK /\ RespuestaOK
  BY DEF TypeInv, TypeOK
<1>1. CASE inv'[i].status = inv[i].status
  BY <1>1 DEF SentMeansMailed, Existe
<1>2. CASE inv'[i].status # inv[i].status
  <2>1. ASSUME NEW s \in Senders, CaducarAnteriores(s) PROVE FALSE
    BY <1>2, <2>1, <1>a DEF CaducarAnteriores, InvOK, FilaInvitacion
  <2>2. ASSUME NEW s \in Senders, NEW j \in Invs, CrearInvitacion(s, j) PROVE FALSE
    BY <1>2, <2>2, <1>a DEF CrearInvitacion, InvOK
  <2>3. ASSUME NEW e \in Editors, ConfirmarEdicion(e) PROVE FALSE
    BY <1>2, <2>3, <1>a DEF ConfirmarEdicion, InvOK, FilaInvitacion
  <2>4. ASSUME NEW g \in Guests, BorrarInvitado(g) PROVE FALSE
    BY <1>2, <2>4, <1>a DEF BorrarInvitado, InvOK, FilaInvitacion, Existe, Estados
  <2>5. ASSUME NEW w \in Workers, MarcarEnviada(w) PROVE correo[i] # None
    <3>1. i = worker[w].i /\ worker[w].pc = "marcar"
      BY <1>2, <2>5, <1>a DEF MarcarEnviada, InvOK, FilaInvitacion
    <3> QED BY <3>1 DEF MailBefore
  <2>6. ASSUME NEW w \in Workers, CaducarAgotada(w) PROVE FALSE
    BY <1>2, <2>6, <1>a DEF CaducarAgotada, InvOK, FilaInvitacion
  <2>7. ASSUME NEW j \in Invs, NEW e \in Eventos, Webhook(j, e) PROVE correo[i] # None
    BY <1>2, <2>7, <1>a DEF Webhook, InvOK, FilaInvitacion
  <2>8. ASSUME NEW r \in Responders, ConfirmarRespuesta(r) PROVE correo[i] # None
    <3>1. i = respuesta[r].i /\ respuesta[r].pc = "tx2"
      BY <1>2, <2>8, <1>a DEF ConfirmarRespuesta, InvOK, FilaInvitacion
    <3> QED BY <3>1 DEF MailBefore
  <2> QED BY <1>2, <2>1, <2>2, <2>3, <2>4, <2>5, <2>6, <2>7, <2>8, WritersOfInv
<1> QED BY <1>1, <1>2

\* An invitation past QUEUED was mailed, whatever failed on the way.
THEOREM SentWasMailed == Spec => []SentMeansMailed
<1>1. Init => MailBefore /\ SentMeansMailed
  BY DEF Init, MailBefore, SentMeansMailed, SinTrabajo, SinRespuesta, Existe, Estados
<1>2. TypeInv /\ AnswerHolds /\ MailBefore /\ SentMeansMailed /\ [Next]_vars
      => MailBefore' /\ SentMeansMailed'
  BY StepMailBefore, StepSentMeansMailed
<1> QED BY Reachable, <1>1, <1>2, PTL DEF Spec

-----------------------------------------------------------------------------
(* Answers *)

\* What is on record of a guest's companions is only written by an answer.
LEMMA ConfirmedStays ==
  ASSUME TypeInv, [Next]_vars, NEW g \in Guests,
         guest[g].confirmed # None, notificada[g] # None
  PROVE  guest'[g].confirmed # None /\ notificada'[g] # None
<1>a. GuestOK /\ NoticeOK /\ RespuestaOK
  BY DEF TypeInv, TypeOK
<1> DEFINE Goal == guest'[g].confirmed # None /\ notificada'[g] # None
<1>b. ASSUME NEW h \in Guests, NEW c, guest' = [guest EXCEPT ![h] = Aplicar(guest[h], c)],
             notificada' = notificada
      PROVE  Goal
  BY <1>a, <1>b DEF Aplicar, GuestOK, FilaInvitado
<1>1. ASSUME NEW e \in Editors, EdicionDe(e), notificada' = notificada PROVE Goal
  <2>1. edicion[e].pc # "libre" => edicion[e].g \in Guests
    BY DEF TypeInv, TypeOK, EdicionOK
  <2>2. guest' = guest \/ (edicion[e].pc # "libre"
                           /\ guest' = [guest EXCEPT ![edicion[e].g] = Aplicar(@, edicion[e].c)])
    BY <1>1 DEF EdicionDe, PasoEdicion, LeerParaEditar, EditarSinTransaccion,
                EditarEnTransaccion, CaducarEnTransaccion, ConfirmarEdicion
  <2> QED BY <1>1, <1>b, <2>1, <2>2
<1>2. ASSUME NEW h \in Guests, BorrarInvitado(h), notificada' = notificada PROVE Goal
  BY <1>2, <1>a DEF BorrarInvitado, GuestOK, FilaInvitado
<1>3. ASSUME NEW r \in Responders, RespuestaDe(r) PROVE Goal
  <2>1. respuesta[r].r.comp \in Cupo /\ respuesta[r].r.rsvp \in {"CONFIRMED", "DECLINED"}
    BY <1>a DEF RespuestaOK, EstadoRespuesta, Cuerpo
  <2>2. CASE ConfirmarRespuesta(r)
    <3> DEFINE p == respuesta[r]
               h == inv[p.i].guest
               nueva == [guest[h] EXCEPT !.rsvp = p.r.rsvp, !.confirmed = p.r.comp]
    <3>1. \/ guest' = guest /\ notificada' = notificada
          \/ /\ guest' = [guest EXCEPT ![h] = nueva]
             /\ notificada' = [notificada EXCEPT ![h] = p.r.rsvp]
      BY <2>2 DEF ConfirmarRespuesta
    <3>2. p.r.comp # None /\ p.r.rsvp # None
      BY <2>1, Supuestos DEF Rsvp
    <3>3. g = h => nueva.confirmed = p.r.comp
      BY <1>a DEF GuestOK, FilaInvitado
    <3> HIDE DEF p, h, nueva
    <3> QED BY <3>1, <3>2, <3>3, <1>a DEF GuestOK, NoticeOK
  <2>3. CASE guest' = guest /\ notificada' = notificada
    BY <2>3
  <2> QED BY <1>3, <2>2, <2>3 DEF RespuestaDe, PasoRespuesta, RecibirRespuesta, LeerInvitacion,
                                  MarcarRespondida, EncolarAviso
<1> QED BY <1>1, <1>2, <1>3, Frames DEF vars, Tick

LEMMA StepRecorded ==
  ASSUME TypeInv, AnswerHolds, RespondedMeansRecorded, [Next]_vars
  PROVE  RespondedMeansRecorded'
<1> SUFFICES ASSUME NEW i \in Invs, inv'[i].status = "RESPONDED"
             PROVE  guest'[inv'[i].guest].confirmed # None /\ notificada'[inv'[i].guest] # None
  BY DEF RespondedMeansRecorded
<1>a. InvOK /\ GuestOK /\ NoticeOK /\ RespuestaOK
  BY DEF TypeInv, TypeOK
<1>b. ASSUME inv[i].status = "RESPONDED", inv'[i].guest = inv[i].guest
      PROVE  guest'[inv'[i].guest].confirmed # None /\ notificada'[inv'[i].guest] # None
  <2>1. inv[i].guest \in Guests
    BY <1>a, <1>b DEF InvOK
  <2> QED BY <1>b, <2>1, ConfirmedStays DEF RespondedMeansRecorded
<1> DEFINE Same == inv[i].status = "RESPONDED" /\ inv'[i].guest = inv[i].guest
<1>1. ASSUME NEW s \in Senders, CaducarAnteriores(s) PROVE Same
  BY <1>1, <1>a DEF CaducarAnteriores, InvOK, FilaInvitacion
<1>2. ASSUME NEW s \in Senders, NEW j \in Invs, CrearInvitacion(s, j) PROVE Same
  BY <1>2, <1>a DEF CrearInvitacion, InvOK
<1>3. ASSUME NEW e \in Editors, ConfirmarEdicion(e) PROVE Same
  BY <1>3, <1>a DEF ConfirmarEdicion, InvOK, FilaInvitacion
<1>4. ASSUME NEW g \in Guests, BorrarInvitado(g) PROVE Same
  BY <1>4, <1>a DEF BorrarInvitado, Suyas, InvOK, FilaInvitacion
<1>5. ASSUME NEW w \in Workers, MarcarEnviada(w) PROVE Same
  BY <1>5, <1>a DEF MarcarEnviada, InvOK, FilaInvitacion
<1>6. ASSUME NEW w \in Workers, CaducarAgotada(w) PROVE Same
  BY <1>6, <1>a DEF CaducarAgotada, InvOK, FilaInvitacion
<1>7. ASSUME NEW j \in Invs, NEW e \in Eventos, Webhook(j, e) PROVE Same
  BY <1>7, <1>a, Supuestos DEF Webhook, InvOK, FilaInvitacion
<1>8. ASSUME NEW r \in Responders, ConfirmarRespuesta(r)
      PROVE  \/ Same
             \/ guest'[inv'[i].guest].confirmed # None /\ notificada'[inv'[i].guest] # None
  <2> DEFINE p == respuesta[r]
             g == inv[p.i].guest
             nueva == [guest[g] EXCEPT !.rsvp = p.r.rsvp, !.confirmed = p.r.comp]
  <2>1. CASE inv' = inv
    BY <2>1
  <2>2. CASE /\ inv' = [inv EXCEPT ![p.i].status = "RESPONDED"]
             /\ guest' = [guest EXCEPT ![g] = nueva]
             /\ notificada' = [notificada EXCEPT ![g] = p.r.rsvp]
    <3>1. CASE i # p.i
      <4> HIDE DEF p, g, nueva
      <4>1. inv'[i] = inv[i]
        BY <2>2, <3>1, <1>a DEF InvOK
      <4> QED BY <4>1
    <3>2. CASE i = p.i
      <4>1. p.r.comp \in Cupo /\ p.r.rsvp \in {"CONFIRMED", "DECLINED"} /\ p.pc = "tx2"
        BY <1>8, <1>a DEF ConfirmarRespuesta, RespuestaOK, EstadoRespuesta, Cuerpo
      <4>2. inv'[i].guest = g /\ g \in Guests
        BY <2>2, <3>2, <4>1, <1>a DEF InvOK, FilaInvitacion, AnswerHolds, Existe, Estados
      <4>3. guest'[g] = nueva /\ guest[g] \in FilaInvitado /\ notificada'[g] = p.r.rsvp
        BY <2>2, <4>2, <1>a DEF GuestOK, NoticeOK
      <4>4. nueva.confirmed = p.r.comp
        BY <4>3 DEF FilaInvitado
      <4>5. p.r.comp # None /\ p.r.rsvp # None
        BY <4>1, Supuestos DEF Rsvp
      <4> QED BY <4>2, <4>3, <4>4, <4>5
    <3> QED BY <3>1, <3>2
  <2> QED BY <1>8, <2>1, <2>2 DEF ConfirmarRespuesta
<1>9. CASE inv' = inv
  BY <1>9, <1>b
<1> QED BY <1>b, <1>1, <1>2, <1>3, <1>4, <1>5, <1>6, <1>7, <1>8, <1>9, WritersOfInv

\* A RESPONDED invitation has the guest's companions on record and a
\* notification for the couple.
THEOREM RespondedIsRecorded == Spec => []RespondedMeansRecorded
<1>1. Init => RespondedMeansRecorded
  BY DEF Init, RespondedMeansRecorded
<1>2. TypeInv /\ AnswerHolds /\ RespondedMeansRecorded /\ [Next]_vars => RespondedMeansRecorded'
  BY StepRecorded
<1> QED BY Reachable, <1>1, <1>2, PTL DEF Spec


-----------------------------------------------------------------------------
(* Invitations implements InvitationLifecycle: its initial states map to    *)
(* initial states, and each of its steps to a step or a stutter.            *)

\* The state of InvitationLifecycle that Ciclo reads off a state of Invitations.
De == [i \in Invs |-> inv[i].guest]
Estado == [i \in Invs |-> inv[i].status]
Vivas == {i \in Invs : Viva(i)}
Mandadas == {i \in Invs : correo[i] # None}

LEMMA InitImplements == Init => Ciclo!CicloInit
<1> SUFFICES ASSUME Init PROVE Ciclo!CicloInit
  OBVIOUS
<1>1. De = [i \in Invs |-> None] /\ Estado = [i \in Invs |-> "NUEVA"]
  BY DEF Init, De, Estado
<1>2. Vivas = {}
  BY DEF Init, Vivas, Viva, Existe, Estados
<1>3. Mandadas = {}
  BY DEF Init, Mandadas
<1> QED BY <1>1, <1>2, <1>3 DEF Init, Ciclo!CicloInit, De, Estado, Vivas, Mandadas

LEMMA ExistsIsMapped == \A i \in Invs : Ciclo!HayInvitacion(i) <=> Existe(i)
<1>1. DOMAIN Ciclo!Posteriores = Estados
  BY DEF Ciclo!Posteriores, Estados
<1> QED BY <1>1 DEF Ciclo!HayInvitacion, Existe

-----------------------------------------------------------------------------
(* Steps that nobody outside sees, but for links that die *)

LEMMA DyingIsCaducar ==
  ASSUME De' = De, Estado' = Estado, Mandadas' = Mandadas, notificada' = notificada,
         Vivas' \subseteq Vivas
  PROVE  Ciclo!CicloNext
<1> DEFINE S == Vivas \ Vivas'
<1>1. S \in SUBSET Vivas /\ Vivas' = Vivas \ S
  OBVIOUS
<1>2. Ciclo!caducar(S)
  BY <1>1 DEF Ciclo!caducar, De, Estado, Vivas, Mandadas
<1> QED BY <1>1, <1>2 DEF Ciclo!CicloNext, Vivas

\* No row changes, and time may pass.
LEMMA QuietIsCaducar ==
  ASSUME TypeInv, [Next]_vars, inv' = inv, Mandadas' = Mandadas, notificada' = notificada
  PROVE  Ciclo!CicloNext
<1>1. De' = De /\ Estado' = Estado
  BY DEF De, Estado
<1>2. Vivas' \subseteq Vivas
  <2> SUFFICES ASSUME NEW i \in Invs, Viva(i)' PROVE Viva(i)
    BY DEF Vivas
  <2>1. inv[i].expiresAt \in Nat /\ reloj \in Nat /\ reloj' \in Nat /\ reloj <= reloj'
    BY ClockAdvances DEF TypeInv, TypeOK, InvOK, FilaInvitacion
  <2> QED BY <2>1 DEF Viva, Existe
<1> QED BY <1>1, <1>2, DyingIsCaducar

\* Rows change their date alone.
LEMMA ExpiryIsCaducar ==
  ASSUME TypeInv, AnswerHolds, PastDates, [Next]_vars,
         \A s \in Senders, i \in Invs : ~CrearInvitacion(s, i),
         De' = De, Estado' = Estado, Mandadas' = Mandadas, notificada' = notificada
  PROVE  Ciclo!CicloNext
<1>1. Vivas' \subseteq Vivas
  BY LinkStep DEF Vivas
<1> QED BY <1>1, DyingIsCaducar

-----------------------------------------------------------------------------
(* One statement of the code, one operation of the life cycle *)

LEMMA CreationIsCrear ==
  ASSUME TypeInv, NEW s \in Senders, NEW i \in Invs, CrearInvitacion(s, i)
  PROVE  Ciclo!CicloNext
<1>a. InvOK /\ EnvioOK /\ reloj \in Nat /\ Validez \in Nat \ {0}
  BY Supuestos DEF TypeInv, TypeOK, ClockOK
<1>b. PICK g \in Guests : g = envio[s].g
  BY <1>a DEF CrearInvitacion, EnvioOK
<1>1. inv[i].status = "NUEVA" /\ reloj' = reloj
  BY DEF CrearInvitacion
<1>2. /\ inv'[i].guest = g /\ inv'[i].status = "QUEUED"
      /\ \A j \in Invs \ {i} : inv'[j] = inv[j]
  BY <1>a, <1>b DEF CrearInvitacion, InvOK
<1>3. De' = [De EXCEPT ![i] = g] /\ Estado' = [Estado EXCEPT ![i] = "QUEUED"]
  BY <1>2 DEF De, Estado
<1>4. Vivas' \in {Vivas, Vivas \cup {i}}
  <2>1. i \notin Vivas
    BY <1>1 DEF Vivas, Viva, Existe, Estados
  <2>2. \A j \in Invs \ {i} : Viva(j)' <=> Viva(j)
    BY <1>1, <1>2 DEF Viva, Existe
  <2> QED BY <2>1, <2>2 DEF Vivas
<1>5. Mandadas' = Mandadas /\ notificada' = notificada
  BY DEF CrearInvitacion, deCola, Mandadas
<1>6. Ciclo!crear(i, g)
  BY <1>1, <1>3, <1>4, <1>5 DEF Ciclo!crear, De, Estado, Vivas, Mandadas
<1> QED BY <1>6 DEF Ciclo!CicloNext

LEMMA DeletionIsBorrarDe ==
  ASSUME TypeInv, NEW g \in Guests, BorrarInvitado(g)
  PROVE  Ciclo!CicloNext
<1> DEFINE suyas == Suyas(g)
<1>a. InvOK /\ reloj' = reloj
  BY DEF TypeInv, TypeOK, BorrarInvitado
<1>1. \A i \in Invs : /\ inv'[i].guest = inv[i].guest /\ inv'[i].expiresAt = inv[i].expiresAt
                     /\ inv'[i].status = IF i \in suyas THEN "BORRADA" ELSE inv[i].status
  BY <1>a DEF BorrarInvitado, InvOK, FilaInvitacion
<1>2. De' = De /\ Estado' = [i \in Invs |-> IF i \in suyas THEN "BORRADA" ELSE Estado[i]]
  BY <1>1 DEF De, Estado
<1>3. Vivas' = Vivas \ suyas
  BY <1>a, <1>1 DEF Vivas, Viva, Existe, Estados
<1>4. Mandadas' = Mandadas /\ notificada' = notificada
  BY DEF BorrarInvitado, deEnvios, Mandadas
<1>5. suyas = {i \in Invs : Ciclo!HayInvitacion(i) /\ De[i] = g}
  BY ExistsIsMapped DEF De, Suyas
<1>6. Ciclo!borrarDe(g)
  BY <1>2, <1>3, <1>4, <1>5 DEF Ciclo!borrarDe, De, Estado, Vivas, Mandadas
<1> QED BY <1>6 DEF Ciclo!CicloNext

\* A call to the provider sends the mail of its key, unless that left before.
LEMMA SendingIsMandar ==
  ASSUME TypeInv, MailBefore, [Next]_vars, NEW w \in Workers,
         EnviarOk(w) \/ EnviarSinRespuesta(w)
  PROVE  Ciclo!CicloNext
<1>b. PICK i \in Invs : i = worker[w].i
  BY DEF EnviarOk, EnviarSinRespuesta, TypeInv, TypeOK, WorkerOK
<1>a. worker[w].email # None /\ MailOK
  BY DEF EnviarOk, EnviarSinRespuesta, TypeInv, TypeOK, MailBefore
<1>1. correo' = Saliente(w) /\ inv' = inv /\ reloj' = reloj /\ notificada' = notificada
  BY DEF EnviarOk, EnviarSinRespuesta, deApi
<1>2. correo'[i] # None /\ \A j \in Invs \ {i} : correo'[j] = correo[j]
  BY <1>1, <1>a, <1>b DEF Saliente, MailOK
<1>3. Mandadas' = Mandadas \cup {i}
  BY <1>2 DEF Mandadas
<1>4. CASE i \in Mandadas
  BY <1>1, <1>3, <1>4, QuietIsCaducar
<1>5. CASE i \notin Mandadas
  <2>1. De' = De /\ Estado' = Estado /\ Vivas' = Vivas
    BY <1>1 DEF De, Estado, Vivas, Viva, Existe
  <2>2. Ciclo!Mandar(i)
    BY <1>1, <1>3, <1>5, <2>1 DEF Ciclo!Mandar, De, Estado, Vivas, Mandadas
  <2> QED BY <2>2 DEF Ciclo!CicloNext
<1> QED BY <1>4, <1>5

\* The WHERE of a write of a status lets it through from these alone.
LEMMA LaterStatuses ==
  ASSUME NEW e \in {"SENT", "DELIVERED", "BOUNCED", "COMPLAINED"},
         NEW x \in EstadosQuePuedenAvanzarA(e)
  PROVE  x \in Estados /\ e \in Estados /\ e \in Ciclo!Posteriores[x]
<1>1. x \in Estados /\ Rango(x) < Rango(e)
  BY DEF EstadosQuePuedenAvanzarA
<1>2. x \in {"QUEUED", "SENT", "DELIVERED", "BOUNCED", "COMPLAINED", "RESPONDED"}
  BY <1>1 DEF Estados
<1> QED BY <1>1, <1>2 DEF Rango, Estados, Ciclo!Posteriores

\* A row that keeps its guest and date and goes from one status to another.
LEMMA StatusIsMapped ==
  ASSUME InvOK, reloj' = reloj, NEW i \in Invs, NEW e \in Estados, Existe(i),
         inv'[i].status = e, inv'[i].guest = inv[i].guest, inv'[i].expiresAt = inv[i].expiresAt,
         \A j \in Invs \ {i} : inv'[j] = inv[j]
  PROVE  De' = De /\ Estado' = [Estado EXCEPT ![i] = e] /\ Vivas' = Vivas
<1>1. De' = De /\ Estado' = [Estado EXCEPT ![i] = e]
  BY DEF De, Estado
<1>2. \A j \in Invs : Viva(j)' <=> Viva(j)
  BY DEF Viva, Existe
<1> QED BY <1>1, <1>2 DEF Vivas

LEMMA AdvanceIsAvanzar ==
  ASSUME InvOK, reloj' = reloj, correo' = correo, notificada' = notificada, NEW i \in Invs,
         NEW e \in {"SENT", "DELIVERED", "BOUNCED", "COMPLAINED"}, correo[i] # None,
         inv[i].status \in EstadosQuePuedenAvanzarA(e),
         inv'[i].status = e, inv'[i].guest = inv[i].guest, inv'[i].expiresAt = inv[i].expiresAt,
         \A j \in Invs \ {i} : inv'[j] = inv[j]
  PROVE  Ciclo!CicloNext
<1>1. /\ Existe(i) /\ e \in Estados /\ e \in Ciclo!Posteriores[Estado[i]]
  BY LaterStatuses DEF Existe, Estado
<1>2. De' = De /\ Estado' = [Estado EXCEPT ![i] = e] /\ Vivas' = Vivas
  BY <1>1, StatusIsMapped
<1>3. Mandadas' = Mandadas /\ i \in Mandadas
  BY DEF Mandadas
<1>4. Ciclo!HayInvitacion(i)
  BY <1>1, ExistsIsMapped
<1>5. Ciclo!avanzar(i, e)
  BY <1>1, <1>2, <1>3, <1>4 DEF Ciclo!avanzar, De, Estado, Vivas, Mandadas
<1> QED BY <1>5 DEF Ciclo!CicloNext

LEMMA MarkIsAvanzar ==
  ASSUME TypeInv, MailBefore, [Next]_vars, NEW w \in Workers, MarcarEnviada(w)
  PROVE  Ciclo!CicloNext
<1> DEFINE i == worker[w].i
<1>a. InvOK /\ i \in Invs /\ correo[i] # None
  BY DEF MarcarEnviada, TypeInv, TypeOK, WorkerOK, MailBefore
<1>1. reloj' = reloj /\ correo' = correo /\ notificada' = notificada
  BY DEF MarcarEnviada, deApi
<1>2. CASE inv[i].status \in EstadosQuePuedenAvanzarA("SENT")
  <2>1. /\ inv'[i].status = "SENT" /\ inv'[i].guest = inv[i].guest
        /\ inv'[i].expiresAt = inv[i].expiresAt /\ \A j \in Invs \ {i} : inv'[j] = inv[j]
    BY <1>a, <1>2 DEF MarcarEnviada, InvOK, FilaInvitacion
  <2> QED BY <1>a, <1>1, <1>2, <2>1, AdvanceIsAvanzar
<1>3. CASE inv[i].status \notin EstadosQuePuedenAvanzarA("SENT")
  <2>1. inv' = inv /\ Mandadas' = Mandadas
    BY <1>1, <1>3 DEF MarcarEnviada, Mandadas
  <2> QED BY <1>1, <2>1, QuietIsCaducar
<1> QED BY <1>2, <1>3

LEMMA WebhookIsAvanzar ==
  ASSUME TypeInv, NEW i \in Invs, NEW e \in Eventos, Webhook(i, e)
  PROVE  Ciclo!CicloNext
<1>a. InvOK /\ e \in {"SENT", "DELIVERED", "BOUNCED", "COMPLAINED"}
  BY Supuestos DEF TypeInv, TypeOK
<1>1. /\ reloj' = reloj /\ correo' = correo /\ notificada' = notificada /\ correo[i] # None
      /\ inv[i].status \in EstadosQuePuedenAvanzarA(e)
  BY DEF Webhook, AvanzaConMensaje
<1>2. /\ inv'[i].status = e /\ inv'[i].guest = inv[i].guest
      /\ inv'[i].expiresAt = inv[i].expiresAt /\ \A j \in Invs \ {i} : inv'[j] = inv[j]
  BY <1>a DEF Webhook, InvOK, FilaInvitacion
<1> QED BY <1>a, <1>1, <1>2, AdvanceIsAvanzar

LEMMA AnswerIsResponder ==
  ASSUME TypeInv, AnswerHolds, MailBefore, [Next]_vars, NEW r \in Responders,
         ConfirmarRespuesta(r)
  PROVE  Ciclo!CicloNext
<1>b. PICK i \in Invs, rsvp \in {"CONFIRMED", "DECLINED"} :
        i = respuesta[r].i /\ rsvp = respuesta[r].r.rsvp
  BY DEF ConfirmarRespuesta, TypeInv, TypeOK, RespuestaOK, EstadoRespuesta, Cuerpo
<1> DEFINE g == inv[i].guest
           nueva == [guest[g] EXCEPT !.rsvp = rsvp, !.confirmed = respuesta[r].r.comp]
<1>a. InvOK /\ Existe(i) /\ correo[i] # None
  BY <1>b DEF ConfirmarRespuesta, TypeInv, TypeOK, AnswerHolds, MailBefore
<1>1. reloj' = reloj /\ correo' = correo
  BY DEF ConfirmarRespuesta, deCorreo
<1>2. CASE CupoCubre(nueva)
  <2>1. /\ inv' = [inv EXCEPT ![i].status = "RESPONDED"]
        /\ notificada' = [notificada EXCEPT ![g] = rsvp]
    BY <1>b, <1>2 DEF ConfirmarRespuesta
  <2> HIDE DEF nueva
  <2>2. /\ inv'[i].status = "RESPONDED" /\ inv'[i].guest = inv[i].guest
        /\ inv'[i].expiresAt = inv[i].expiresAt /\ \A j \in Invs \ {i} : inv'[j] = inv[j]
    BY <1>a, <2>1 DEF InvOK, FilaInvitacion
  <2>3. De' = De /\ Estado' = [Estado EXCEPT ![i] = "RESPONDED"] /\ Vivas' = Vivas
    BY <1>a, <1>1, <2>2, StatusIsMapped DEF Estados
  <2>4. Mandadas' = Mandadas /\ i \in Mandadas /\ De[i] = g
    BY <1>a, <1>1 DEF Mandadas, De
  <2>5. Ciclo!HayInvitacion(i)
    BY <1>a, ExistsIsMapped
  <2>6. Ciclo!responder(i, rsvp)
    BY <2>1, <2>3, <2>4, <2>5 DEF Ciclo!responder, De, Estado, Vivas, Mandadas
  <2> QED BY <2>6 DEF Ciclo!CicloNext
<1>3. CASE ~CupoCubre(nueva)
  <2>1. inv' = inv /\ notificada' = notificada /\ Mandadas' = Mandadas
    BY <1>b, <1>1, <1>3 DEF ConfirmarRespuesta, Mandadas
  <2> QED BY <2>1, QuietIsCaducar
<1> QED BY <1>2, <1>3

-----------------------------------------------------------------------------
(* The refinement *)

LEMMA ExpiryKeeps ==
  ASSUME TypeInv, [Next]_vars,
         \/ \E s \in Senders : CaducarAnteriores(s)
         \/ \E e \in Editors : ConfirmarEdicion(e)
         \/ \E w \in Workers : CaducarAgotada(w)
  PROVE  /\ De' = De /\ Estado' = Estado /\ Mandadas' = Mandadas /\ notificada' = notificada
         /\ \A s \in Senders, i \in Invs : ~CrearInvitacion(s, i)
<1>a. InvOK
  BY DEF TypeInv, TypeOK
<1>1. \A i \in Invs : inv'[i].guest = inv[i].guest /\ inv'[i].status = inv[i].status
  <2>1. ASSUME NEW s \in Senders, CaducarAnteriores(s), NEW i \in Invs
        PROVE  inv'[i].guest = inv[i].guest /\ inv'[i].status = inv[i].status
    BY <1>a, <2>1 DEF CaducarAnteriores, InvOK, FilaInvitacion
  <2>2. ASSUME NEW e \in Editors, ConfirmarEdicion(e), NEW i \in Invs
        PROVE  inv'[i].guest = inv[i].guest /\ inv'[i].status = inv[i].status
    BY <1>a, <2>2 DEF ConfirmarEdicion, InvOK, FilaInvitacion
  <2>3. ASSUME NEW w \in Workers, CaducarAgotada(w), NEW i \in Invs
        PROVE  inv'[i].guest = inv[i].guest /\ inv'[i].status = inv[i].status
    BY <1>a, <2>3 DEF CaducarAgotada, InvOK, FilaInvitacion
  <2> QED BY <2>1, <2>2, <2>3
<1>2. correo' = correo /\ notificada' = notificada
  BY DEF CaducarAnteriores, ConfirmarEdicion, CaducarAgotada, deCola, deEnvios, deApi
<1>3. ASSUME NEW s \in Senders, NEW i \in Invs PROVE ~CrearInvitacion(s, i)
  <2>1. CrearInvitacion(s, i) => inv[i].status = "NUEVA" /\ inv'[i].status = "QUEUED"
    BY <1>a DEF CrearInvitacion, InvOK
  <2> QED BY <1>1, <2>1
<1> QED BY <1>1, <1>2, <1>3 DEF De, Estado, Mandadas

\* A step that writes no row and sends no mail.
LEMMA OthersAreQuiet ==
  ASSUME [Next]_vars, inv' = inv,
         \A w \in Workers : ~EnviarOk(w) /\ ~EnviarSinRespuesta(w),
         \A r \in Responders : ~ConfirmarRespuesta(r)
  PROVE  correo' = correo /\ notificada' = notificada
<1> USE DEF deApi, deCorreo
<1>1. ASSUME NEW w \in Workers, TrabajoDe(w) PROVE correo' = correo
  BY <1>1 DEF TrabajoDe, Tomar, CaeWorker, PasoWorker, EnviarRechazado, MarcarEnviada,
              MarcarFalla, CaducarAgotada, CaducarAgotadaFalla, Completar, Fallar
<1>2. ASSUME NEW r \in Responders, RespuestaDe(r) PROVE notificada' = notificada
  BY <1>2 DEF RespuestaDe, RecibirRespuesta, PasoRespuesta, LeerInvitacion, MarcarRespondida,
              EncolarAviso
<1> QED BY <1>1, <1>2, Frames DEF vars, Tick

LEMMA StepImplements ==
  ASSUME TypeInv, AnswerHolds, PastDates, MailBefore, [Next]_vars
  PROVE  Ciclo!CicloNext
<1>1. CASE \E s \in Senders, i \in Invs : CrearInvitacion(s, i)
  BY <1>1, CreationIsCrear
<1>2. CASE \/ \E s \in Senders : CaducarAnteriores(s)
           \/ \E e \in Editors : ConfirmarEdicion(e)
           \/ \E w \in Workers : CaducarAgotada(w)
  BY <1>2, ExpiryKeeps, ExpiryIsCaducar
<1>3. CASE \E g \in Guests : BorrarInvitado(g)
  BY <1>3, DeletionIsBorrarDe
<1>4. CASE \E w \in Workers : MarcarEnviada(w)
  BY <1>4, MarkIsAvanzar
<1>5. CASE \E w \in Workers : EnviarOk(w) \/ EnviarSinRespuesta(w)
  BY <1>5, SendingIsMandar
<1>6. CASE \E i \in Invs, e \in Eventos : Webhook(i, e)
  BY <1>6, WebhookIsAvanzar
<1>7. CASE \E r \in Responders : ConfirmarRespuesta(r)
  BY <1>7, AnswerIsResponder
<1>8. CASE /\ inv' = inv
           /\ \A w \in Workers : ~EnviarOk(w) /\ ~EnviarSinRespuesta(w)
           /\ \A r \in Responders : ~ConfirmarRespuesta(r)
  <2>1. correo' = correo /\ notificada' = notificada
    BY <1>8, OthersAreQuiet
  <2>2. Mandadas' = Mandadas
    BY <2>1 DEF Mandadas
  <2> QED BY <1>8, <2>1, <2>2, QuietIsCaducar
<1> QED BY <1>1, <1>2, <1>3, <1>4, <1>5, <1>6, <1>7, <1>8, WritersOfInv

LEMMA ReachableMails == Spec => [](TypeInv /\ AnswerHolds /\ PastDates /\ MailBefore)
<1>1. Init => MailBefore
  BY DEF Init, MailBefore, SinTrabajo, SinRespuesta
<1> QED BY ReachableDates, StepMailBefore, <1>1, PTL DEF Spec

\* Requests, retries, crashes and webhooks, in any number and order, keep every
\* invitation to the life cycle it would have with one operation at a time.
THEOREM LifecycleImplemented == Spec => ImplementsLifecycle
<1>1. TypeInv /\ AnswerHolds /\ PastDates /\ MailBefore /\ [Next]_vars
      => [Ciclo!CicloNext]_(Ciclo!vidas)
  BY StepImplements
<1> QED BY <1>1, ReachableMails, InitImplements, PTL
        DEF Spec, ImplementsLifecycle, Ciclo!CicloSpec

-----------------------------------------------------------------------------
(* Notices *)

LEMMA RankIsNat == \A e \in Estados : Rango(e) \in 0..4
  BY DEF Estados, Rango

LEMMA HighRanks == Rango("RESPONDED") = 4 /\ Rango("BOUNCED") = 3 /\ Rango("COMPLAINED") = 3
  BY DEF Rango

\* What a step does to the status of a row that is or was there.
LEMMA StatusMoves ==
  ASSUME TypeInv, AnswerHolds, [Next]_vars, NEW i \in Invs, inv[i].status # "NUEVA"
  PROVE  \/ inv'[i].status = inv[i].status
         \/ Existe(i) /\ inv'[i].status \in Estados \cup {"BORRADA"}
<1> DEFINE Goal == \/ inv'[i].status = inv[i].status
                   \/ Existe(i) /\ inv'[i].status \in Estados \cup {"BORRADA"}
<1>a. InvOK
  BY DEF TypeInv, TypeOK
<1>1. CASE inv' = inv
  BY <1>1
<1>2. CASE \/ \E s \in Senders : CaducarAnteriores(s)
           \/ \E e \in Editors : ConfirmarEdicion(e)
           \/ \E w \in Workers : CaducarAgotada(w)
  BY <1>2, ExpiryKeeps DEF Estado
<1>3. ASSUME NEW s \in Senders, NEW j \in Invs, CrearInvitacion(s, j) PROVE Goal
  BY <1>3, <1>a DEF CrearInvitacion, InvOK
<1>4. ASSUME NEW g \in Guests, BorrarInvitado(g) PROVE Goal
  BY <1>4, <1>a DEF BorrarInvitado, Suyas, InvOK, FilaInvitacion
<1>5. ASSUME NEW w \in Workers, MarcarEnviada(w) PROVE Goal
  BY <1>5, <1>a DEF MarcarEnviada, InvOK, FilaInvitacion, EstadosQuePuedenAvanzarA, Existe, Estados
<1>6. ASSUME NEW j \in Invs, NEW e \in Eventos, Webhook(j, e) PROVE Goal
  BY <1>6, <1>a, Supuestos
  DEF Webhook, AvanzaConMensaje, InvOK, FilaInvitacion, EstadosQuePuedenAvanzarA, Existe, Estados
<1>7. ASSUME NEW r \in Responders, ConfirmarRespuesta(r) PROVE Goal
  BY <1>7, <1>a DEF ConfirmarRespuesta, InvOK, FilaInvitacion, AnswerHolds, Existe, Estados
<1> QED BY <1>1, <1>2, <1>3, <1>4, <1>5, <1>6, <1>7, WritersOfInv

LEMMA RankStep ==
  ASSUME TypeInv, AnswerHolds, [Next]_vars, NEW i \in Invs, inv[i].status # "NUEVA"
  PROVE  /\ inv'[i].status # "NUEVA"
         /\ Existe(i)' => Existe(i) /\ Rango(inv[i].status) <= Rango(inv'[i].status)
         /\ inv[i].status \in {"RESPONDED", "BORRADA"} => inv'[i].status \in {"RESPONDED", "BORRADA"}
<1>1. CASE inv'[i].status = inv[i].status
  <2>1. Existe(i)' => Existe(i) /\ Rango(inv[i].status) \in Nat
    BY <1>1, RankIsNat DEF Existe
  <2> QED BY <1>1, <2>1
<1>2. CASE Existe(i) /\ inv'[i].status \in Estados /\ inv'[i].status # inv[i].status
  <2>1. Rango(inv[i].status) < Rango(inv'[i].status)
    BY <1>2, StatusStep
  <2>2. Rango(inv[i].status) \in 0..4 /\ Rango(inv'[i].status) \in 0..4
    BY <1>2, RankIsNat DEF Existe
  <2>3. inv[i].status # "RESPONDED"
    BY <2>1, <2>2, HighRanks
  <2> QED BY <1>2, <2>1, <2>2, <2>3 DEF Existe, Estados
<1>3. CASE Existe(i) /\ inv'[i].status = "BORRADA"
  BY <1>3 DEF Existe, Estados
<1> QED BY <1>1, <1>2, <1>3, StatusMoves

LEMMA WritersOfAvisos ==
  ASSUME [Next]_vars
  PROVE  \/ avisos' = avisos
         \/ \E i \in Invs, e \in Eventos : Webhook(i, e) /\ avisos' = avisos \cup {<<i, e>>}
         \/ \E r \in Responders : EncolarAviso(r) /\ avisos' = avisos \cup {<<respuesta[r].i, "RESPONDED">>}
<1> USE DEF dePeticiones, deCola, deEnvios, deApi, deCorreo
<1>1. ASSUME NEW s \in Senders, PasoDe(s) PROVE avisos' = avisos
  BY <1>1 DEF PasoDe, EnviarTodos, EnviarUno, PasoEnvio, CaducarAnteriores, CrearInvitacion,
              CrearRechazada, Encolar, EncolarFalla
<1>2. ASSUME NEW e \in Editors, EdicionDe(e) PROVE avisos' = avisos
  BY <1>2 DEF EdicionDe, LeerParaEditar, PasoEdicion, EditarSinTransaccion, EditarEnTransaccion,
              CaducarEnTransaccion, ConfirmarEdicion
<1>3. ASSUME NEW w \in Workers, TrabajoDe(w) PROVE avisos' = avisos
  BY <1>3 DEF TrabajoDe, Tomar, CaeWorker, PasoWorker, EnviarOk, EnviarRechazado,
              EnviarSinRespuesta, MarcarEnviada, MarcarFalla, CaducarAgotada,
              CaducarAgotadaFalla, Completar, Fallar
<1>4. ASSUME NEW i \in Invs, Atasco(i) \/ AtascoConVida(i) PROVE avisos' = avisos
  BY <1>4 DEF Atasco, AtascoConVida
<1>5. ASSUME NEW i \in Invs, NEW e \in Eventos, Webhook(i, e)
      PROVE  avisos' = avisos \/ avisos' = avisos \cup {<<i, e>>}
  BY <1>5 DEF Webhook
<1>6. ASSUME NEW r \in Responders, RespuestaDe(r)
      PROVE  \/ avisos' = avisos
             \/ EncolarAviso(r) /\ avisos' = avisos \cup {<<respuesta[r].i, "RESPONDED">>}
  <2>1. CASE EncolarAviso(r)
    BY <2>1 DEF EncolarAviso
  <2>2. CASE \/ LeerInvitacion(r) \/ MarcarRespondida(r)
             \/ \E i \in Invs, b \in Respuestas : RecibirRespuesta(r, i, b)
    BY <2>2 DEF LeerInvitacion, MarcarRespondida, RecibirRespuesta
  <2>3. CASE ConfirmarRespuesta(r)
    BY <2>3 DEF ConfirmarRespuesta
  <2> QED BY <1>6, <2>1, <2>2, <2>3 DEF RespuestaDe, PasoRespuesta
<1>7. ASSUME \/ \E g \in Guests : BorrarInvitado(g)
             \/ \E e \in Editors, r \in Responders : Interbloqueo(e, r)
             \/ CaeApi \/ Tick \/ UNCHANGED vars
      PROVE  avisos' = avisos
  BY <1>7 DEF BorrarInvitado, Interbloqueo, CaeApi, Tick, vars
<1> QED BY <1>1, <1>2, <1>3, <1>4, <1>5, <1>6, <1>7 DEF Next, PasoDe, EdicionDe, TrabajoDe, RespuestaDe

\* Only the commit of an answer takes it to its notice.
LEMMA NoticesBegin ==
  ASSUME TypeInv, [Next]_vars, NEW r \in Responders, respuesta'[r].pc = "aviso"
  PROVE  \/ respuesta'[r] = respuesta[r]
         \/ ConfirmarRespuesta(r) /\ respuesta'[r].i = respuesta[r].i
            /\ inv' = [inv EXCEPT ![respuesta[r].i].status = "RESPONDED"]
<1>a. RespuestaOK
  BY DEF TypeInv, TypeOK
<1> DEFINE Goal == \/ respuesta'[r] = respuesta[r]
                   \/ ConfirmarRespuesta(r) /\ respuesta'[r].i = respuesta[r].i
                      /\ inv' = [inv EXCEPT ![respuesta[r].i].status = "RESPONDED"]
<1>1. ASSUME NEW q \in Responders, RespuestaDe(q) PROVE Goal
  <2> USE DEF SinRespuesta
  <2>1. ASSUME NEW i \in Invs, NEW b \in Respuestas, RecibirRespuesta(q, i, b) PROVE Goal
    BY <2>1, <1>a DEF RecibirRespuesta, RespuestaOK
  <2>2. CASE LeerInvitacion(q)
    BY <2>2, <1>a DEF LeerInvitacion, RespuestaOK, EstadoRespuesta
  <2>3. CASE MarcarRespondida(q)
    BY <2>3, <1>a DEF MarcarRespondida, RespuestaOK, EstadoRespuesta
  <2>4. CASE ConfirmarRespuesta(q)
    <3>1. CASE respuesta' = [respuesta EXCEPT ![q].pc = "aviso"]
                 /\ inv' = [inv EXCEPT ![respuesta[q].i].status = "RESPONDED"]
      BY <2>4, <3>1, <1>a DEF RespuestaOK, EstadoRespuesta
    <3>2. CASE respuesta' = [respuesta EXCEPT ![q] = SinRespuesta]
      BY <3>2, <1>a DEF RespuestaOK
    <3> QED BY <2>4, <3>1, <3>2 DEF ConfirmarRespuesta
  <2>5. CASE EncolarAviso(q)
    BY <2>5, <1>a DEF EncolarAviso, RespuestaOK
  <2> QED BY <1>1, <2>1, <2>2, <2>3, <2>4, <2>5 DEF RespuestaDe, PasoRespuesta
<1>2. ASSUME NEW g \in Guests, BorrarInvitado(g) PROVE Goal
  BY <1>2, <1>a DEF BorrarInvitado, RespuestaOK, SinRespuesta
<1>3. ASSUME NEW e \in Editors, NEW q \in Responders, Interbloqueo(e, q) PROVE Goal
  BY <1>3, <1>a DEF Interbloqueo, RespuestaOK, SinRespuesta
<1>4. ~CaeApi
  BY <1>a DEF CaeApi, SinRespuesta
<1> QED BY <1>1, <1>2, <1>3, <1>4, Frames DEF vars, Tick

\* A notice speaks of a row that was drawn, and of an answer once committed.
NoticeBefore ==
  /\ \A i \in Invs, e \in Estados : <<i, e>> \in avisos => inv[i].status # "NUEVA"
  /\ \A r \in Responders : respuesta[r].pc = "aviso" => inv[respuesta[r].i].status \in {"RESPONDED", "BORRADA"}

LEMMA StepNoticeBefore ==
  ASSUME TypeInv, AnswerHolds, NoticeBefore, [Next]_vars
  PROVE  NoticeBefore'
<1>a. InvOK /\ RespuestaOK
  BY DEF TypeInv, TypeOK
<1>1. ASSUME NEW i \in Invs, NEW e \in Estados, <<i, e>> \in avisos' PROVE inv'[i].status # "NUEVA"
  <2>1. inv[i].status # "NUEVA"
    <3>1. CASE <<i, e>> \in avisos
      BY <3>1 DEF NoticeBefore
    <3>2. ASSUME NEW j \in Invs, NEW f \in Eventos, Webhook(j, f), avisos' = avisos \cup {<<j, f>>},
                 <<i, e>> \notin avisos
          PROVE  inv[i].status # "NUEVA"
      <4>1. i = j
        BY <1>1, <3>2
      <4> QED BY <3>2, <4>1 DEF Webhook, AvanzaConMensaje, EstadosQuePuedenAvanzarA, Estados
    <3>3. ASSUME NEW r \in Responders, EncolarAviso(r), <<i, e>> \notin avisos,
                 avisos' = avisos \cup {<<respuesta[r].i, "RESPONDED">>}
          PROVE  inv[i].status # "NUEVA"
      <4>1. i = respuesta[r].i
        BY <1>1, <3>3
      <4> QED BY <3>3, <4>1 DEF EncolarAviso, NoticeBefore
    <3> QED BY <1>1, <3>1, <3>2, <3>3, WritersOfAvisos
  <2> QED BY <2>1, RankStep
<1>2. ASSUME NEW r \in Responders, respuesta'[r].pc = "aviso"
      PROVE  inv'[respuesta'[r].i].status \in {"RESPONDED", "BORRADA"}
  <2>1. CASE respuesta'[r] = respuesta[r]
    <3>1. respuesta[r].i \in Invs /\ inv[respuesta[r].i].status \in {"RESPONDED", "BORRADA"}
      BY <1>2, <1>a, <2>1 DEF RespuestaOK, NoticeBefore
    <3> QED BY <2>1, <3>1, RankStep
  <2>2. CASE /\ ConfirmarRespuesta(r) /\ respuesta'[r].i = respuesta[r].i
             /\ inv' = [inv EXCEPT ![respuesta[r].i].status = "RESPONDED"]
    <3>1. respuesta[r].i \in Invs
      BY <1>a, <2>2 DEF RespuestaOK, ConfirmarRespuesta
    <3> QED BY <1>a, <2>2, <3>1 DEF InvOK, FilaInvitacion
  <2> QED BY <1>2, <2>1, <2>2, NoticesBegin
<1> QED BY <1>1, <1>2 DEF NoticeBefore

LEMMA StepNotice ==
  ASSUME TypeInv, AnswerHolds, NoticeBefore, NoticeMeansAdvanced, [Next]_vars
  PROVE  NoticeMeansAdvanced'
<1>a. InvOK /\ RespuestaOK
  BY DEF TypeInv, TypeOK
<1>1. ASSUME NEW i \in Invs, NEW e \in Estados, <<i, e>> \in avisos', Existe(i)'
      PROVE  Rango(e) <= Rango(inv'[i].status)
  <2>1. CASE <<i, e>> \in avisos
    <3>1. Existe(i) /\ Rango(inv[i].status) <= Rango(inv'[i].status)
      BY <1>1, <2>1, RankStep DEF NoticeBefore
    <3>2. Rango(e) <= Rango(inv[i].status)
      BY <2>1, <3>1 DEF NoticeMeansAdvanced
    <3>3. Rango(e) \in Nat /\ Rango(inv[i].status) \in Nat /\ Rango(inv'[i].status) \in Nat
      BY <1>1, <3>1, RankIsNat DEF Existe
    <3> QED BY <3>1, <3>2, <3>3
  <2>2. ASSUME NEW j \in Invs, NEW f \in Eventos, Webhook(j, f), avisos' = avisos \cup {<<j, f>>},
               <<i, e>> \notin avisos
        PROVE  Rango(e) <= Rango(inv'[i].status)
    <3>1. i = j /\ e = f
      BY <1>1, <2>2
    <3>2. inv'[i].status = e
      BY <1>a, <2>2, <3>1 DEF Webhook, InvOK, FilaInvitacion
    <3> QED BY <3>2, RankIsNat
  <2>3. ASSUME NEW r \in Responders, EncolarAviso(r), <<i, e>> \notin avisos,
               avisos' = avisos \cup {<<respuesta[r].i, "RESPONDED">>}
        PROVE  Rango(e) <= Rango(inv'[i].status)
    <3>1. i = respuesta[r].i /\ e = "RESPONDED"
      BY <1>1, <2>3
    <3>2. inv'[i].status = "RESPONDED"
      BY <1>1, <2>3, <3>1 DEF EncolarAviso, NoticeBefore, Existe, Estados
    <3> QED BY <3>1, <3>2, RankIsNat
  <2> QED BY <1>1, <2>1, <2>2, <2>3, WritersOfAvisos
<1>2. ASSUME NEW i \in Invs PROVE ~({<<i, "BOUNCED">>, <<i, "COMPLAINED">>} \subseteq avisos')
  <2>1. ~({<<i, "BOUNCED">>, <<i, "COMPLAINED">>} \subseteq avisos)
    BY DEF NoticeMeansAdvanced
  <2>2. ASSUME NEW j \in Invs, NEW f \in Eventos, Webhook(j, f), avisos' = avisos \cup {<<j, f>>},
               {<<i, "BOUNCED">>, <<i, "COMPLAINED">>} \subseteq avisos'
        PROVE  FALSE
    <3>1. PICK e \in {"BOUNCED", "COMPLAINED"} : <<i, e>> \in avisos /\ i = j /\ f \in {"BOUNCED", "COMPLAINED"}
      BY <2>1, <2>2
    <3>2. Existe(i) /\ Rango(inv[i].status) < Rango(f)
      BY <2>2, <3>1 DEF Webhook, AvanzaConMensaje, EstadosQuePuedenAvanzarA, Existe
    <3>3. Rango(e) <= Rango(inv[i].status)
      BY <3>1, <3>2 DEF NoticeMeansAdvanced, Estados
    <3>4. Rango(e) = 3 /\ Rango(f) = 3 /\ Rango(inv[i].status) \in Nat
      BY <3>1, <3>2, RankIsNat, HighRanks DEF Existe
    <3> QED BY <3>2, <3>3, <3>4
  <2>3. ASSUME NEW r \in Responders, EncolarAviso(r),
               avisos' = avisos \cup {<<respuesta[r].i, "RESPONDED">>}
        PROVE  ~({<<i, "BOUNCED">>, <<i, "COMPLAINED">>} \subseteq avisos')
    BY <2>1, <2>3
  <2> QED BY <2>1, <2>2, <2>3, WritersOfAvisos
<1> QED BY <1>1, <1>2 DEF NoticeMeansAdvanced

\* The couple is never told of a status that the invitation did not reach,
\* nor both of a bounce and of a complaint, whatever webhooks and answers race.
THEOREM NoticesAreTrue == Spec => []NoticeMeansAdvanced
<1>1. Init => NoticeBefore /\ NoticeMeansAdvanced
  BY DEF Init, NoticeBefore, NoticeMeansAdvanced, SinRespuesta
<1>2. TypeInv /\ AnswerHolds /\ NoticeBefore /\ NoticeMeansAdvanced /\ [Next]_vars
      => NoticeBefore' /\ NoticeMeansAdvanced'
  BY StepNoticeBefore, StepNotice
<1> QED BY Reachable, <1>1, <1>2, PTL DEF Spec

-----------------------------------------------------------------------------
(* Changes of email *)

\* The links of a guest that a PATCH found and is not about to expire are dead,
\* and a dead link is for good: its id is not free to be drawn again.
OthersAreDead ==
  \A e \in Editors, i \in Invs :
    edicion[e].pc = "commit" /\ i \in edicion[e].habia
    => inv[i].status # "NUEVA" /\ (i \in edicion[e].filas \/ ~Viva(i))

LEMMA StepOthersAreDead ==
  ASSUME TypeInv, AnswerHolds, PastDates, OthersAreDead, [Next]_vars
  PROVE  OthersAreDead'
<1> SUFFICES ASSUME NEW e \in Editors, NEW i \in Invs, edicion'[e].pc = "commit",
                    i \in edicion'[e].habia
             PROVE  inv'[i].status # "NUEVA" /\ (i \in edicion'[e].filas \/ ~Viva(i)')
  BY DEF OthersAreDead
<1>a. InvOK /\ EdicionOK /\ edicion[e].desde \in Nat
  BY DEF TypeInv, TypeOK, EdicionOK, EstadoEdicion
<1>1. CASE edicion'[e] = edicion[e]
  <2>1. inv[i].status # "NUEVA" /\ (i \in edicion[e].filas \/ ~Viva(i))
    BY <1>1 DEF OthersAreDead
  <2>2. \A s \in Senders : ~CrearInvitacion(s, i)
    BY <2>1 DEF CrearInvitacion
  <2>3. Viva(i)' => Viva(i)
    BY <2>2, LinkStep
  <2> QED BY <1>1, <2>1, <2>3, RankStep
<1>2. CASE CaducarEnTransaccion(e)
  <2>1. PICK t \in edicion[e].desde..reloj :
          edicion' = [edicion EXCEPT ![e].pc = "commit", ![e].desde = t,
                                     ![e].filas = VigentesDe(edicion[e].g, t),
                                     ![e].habia = Suyas(edicion[e].g)]
    BY <1>2 DEF CaducarEnTransaccion
  <2>2. /\ edicion'[e].filas = VigentesDe(edicion[e].g, t)
        /\ edicion'[e].habia = Suyas(edicion[e].g)
    BY <2>1, <1>a DEF EdicionOK, EstadoEdicion
  <2>3. inv' = inv /\ reloj' = reloj
    BY <1>2 DEF CaducarEnTransaccion
  <2>4. i \in Suyas(edicion[e].g) /\ inv[i].status \in Estados
    BY <2>2 DEF Suyas, Existe
  <2>5. ASSUME Viva(i)' PROVE i \in VigentesDe(edicion[e].g, t)
    <3>1. inv[i].expiresAt > reloj /\ inv[i].expiresAt \in Nat
      BY <2>3, <2>5, <1>a DEF Viva, InvOK, FilaInvitacion
    <3>2. inv[i].expiresAt > t
      BY <3>1, <1>a, ClockAdvances
    <3> QED BY <2>4, <3>2 DEF VigentesDe
  <2> QED BY <2>2, <2>3, <2>4, <2>5 DEF Estados
<1> QED BY <1>1, <1>2, WritersOfEdicion

\* A PATCH that leaves the commit with a guest changed has committed.
LEMMA OnlyCommitsWrite ==
  ASSUME TypeInv, [Next]_vars, NEW e \in Editors, edicion[e].pc = "commit",
         edicion'[e].pc = "libre", guest' # guest
  PROVE  ConfirmarEdicion(e)
<1>a. EdicionOK
  BY DEF TypeInv, TypeOK
<1>1. ASSUME NEW f \in Editors, EdicionDe(f) PROVE ConfirmarEdicion(e)
  <2>1. ASSUME NEW g \in Guests, NEW c \in Cambios, LeerParaEditar(f, g, c) PROVE FALSE
    BY <2>1, <1>a DEF LeerParaEditar, EdicionOK
  <2>2. CASE EditarSinTransaccion(f)
    BY <2>2, <1>a DEF EditarSinTransaccion, EdicionOK
  <2>3. CASE EditarEnTransaccion(f)
    BY <2>3, <1>a DEF EditarEnTransaccion, EdicionOK
  <2>4. CASE CaducarEnTransaccion(f)
    BY <2>4, <1>a DEF CaducarEnTransaccion, EdicionOK
  <2>5. CASE ConfirmarEdicion(f)
    BY <2>5, <1>a DEF ConfirmarEdicion, EdicionOK
  <2> QED BY <1>1, <2>1, <2>2, <2>3, <2>4, <2>5 DEF EdicionDe, PasoEdicion
<1> QED BY <1>1, Frames DEF vars, Tick

\* After a change of email every link that was there when its transaction
\* expired the guest's links is dead.
THEOREM EmailChangesKillLinks == Spec => ChangeOfEmailKillsOlderLinks
<1>1. ASSUME TypeInv, AnswerHolds, PastDates, OthersAreDead, [Next]_vars,
             NEW e \in Editors, edicion[e].pc = "commit", edicion'[e].pc = "libre",
             guest'[edicion[e].g].email # guest[edicion[e].g].email,
             NEW i \in edicion[e].habia, Viva(i)'
      PROVE  FALSE
  <2>1. ConfirmarEdicion(e)
    BY <1>1, OnlyCommitsWrite
  <2>2. /\ InvOK /\ EdicionOK /\ reloj' = reloj /\ reloj \in Nat /\ edicion[e].desde \in Nat
        /\ i \in Invs
    BY <1>1, <2>1, ClockAdvances DEF ConfirmarEdicion, TypeInv, TypeOK, EdicionOK, EstadoEdicion
  <2>3. i \notin edicion[e].filas
    <3>1. i \in edicion[e].filas => inv'[i].expiresAt = edicion[e].desde
      BY <2>1, <2>2 DEF ConfirmarEdicion, InvOK, FilaInvitacion
    <3>2. inv'[i].expiresAt > reloj /\ edicion[e].desde <= reloj
      BY <1>1, <2>2 DEF Viva, PastDates
    <3> QED BY <3>1, <3>2, <2>2
  <2>4. inv'[i] = inv[i]
    BY <2>1, <2>2, <2>3 DEF ConfirmarEdicion
  <2>5. Viva(i)
    BY <1>1, <2>2, <2>4 DEF Viva, Existe
  <2> QED BY <1>1, <2>2, <2>3, <2>5 DEF OthersAreDead
<1>2. TypeInv /\ AnswerHolds /\ PastDates /\ OthersAreDead /\ [Next]_vars
      => [\A e \in Editors :
            /\ edicion[e].pc = "commit" /\ edicion'[e].pc = "libre"
            /\ guest'[edicion[e].g].email # guest[edicion[e].g].email
            => \A i \in edicion[e].habia : ~Viva(i)']_vars
  BY <1>1
<1>3. Init => OthersAreDead
  BY DEF Init, OthersAreDead, SinEdicion
<1>4. TypeInv /\ AnswerHolds /\ PastDates /\ OthersAreDead /\ [Next]_vars => OthersAreDead'
  BY StepOthersAreDead
<1> QED BY ReachableDates, <1>2, <1>3, <1>4, PTL DEF Spec, ChangeOfEmailKillsOlderLinks

-----------------------------------------------------------------------------
(* Jobs: who owns them, and what their stalls cost *)

LEMMA FaultsGrow ==
  ASSUME TypeInv, [Next]_vars
  PROVE  fallos \in Nat /\ fallos' \in Nat /\ (fallos' = fallos \/ fallos' = fallos + 1)
<1>1. fallos \in Nat
  BY Supuestos DEF TypeInv, TypeOK, ClockOK
<1>2. fallos' = fallos \/ Falla
  <2>1. ASSUME NEW s \in Senders, PasoDe(s) PROVE fallos' = fallos \/ Falla
    BY <2>1 DEF PasoDe, EnviarTodos, EnviarUno, PasoEnvio, CaducarAnteriores, CrearInvitacion,
                CrearRechazada, Encolar, EncolarFalla
  <2>2. ASSUME NEW e \in Editors, EdicionDe(e) PROVE fallos' = fallos
    BY <2>2 DEF EdicionDe, LeerParaEditar, PasoEdicion, EditarSinTransaccion, EditarEnTransaccion,
                CaducarEnTransaccion, ConfirmarEdicion
  <2>3. ASSUME NEW w \in Workers, TrabajoDe(w) PROVE fallos' = fallos \/ Falla
    BY <2>3 DEF TrabajoDe, Tomar, CaeWorker, PasoWorker, EnviarOk, EnviarRechazado,
                EnviarSinRespuesta, MarcarEnviada, MarcarFalla, CaducarAgotada,
                CaducarAgotadaFalla, Completar, Fallar
  <2>4. ASSUME NEW i \in Invs, Atasco(i) \/ AtascoConVida(i) \/ \E e \in Eventos : Webhook(i, e)
        PROVE  fallos' = fallos \/ Falla
    BY <2>4 DEF Atasco, AtascoConVida, Webhook
  <2>5. ASSUME NEW r \in Responders, RespuestaDe(r) PROVE fallos' = fallos \/ Falla
    BY <2>5 DEF RespuestaDe, RecibirRespuesta, PasoRespuesta, LeerInvitacion, MarcarRespondida,
                ConfirmarRespuesta, EncolarAviso
  <2>6. ASSUME \/ \E g \in Guests : BorrarInvitado(g)
               \/ \E e \in Editors, r \in Responders : Interbloqueo(e, r)
               \/ CaeApi \/ Tick \/ UNCHANGED vars
        PROVE  fallos' = fallos \/ Falla
    BY <2>6 DEF BorrarInvitado, Interbloqueo, CaeApi, Tick, vars
  <2> QED BY <2>1, <2>2, <2>3, <2>4, <2>5, <2>6 DEF Next, PasoDe, EdicionDe, TrabajoDe, RespuestaDe
<1> QED BY <1>1, <1>2 DEF Falla

LEMMA WritersOfJob ==
  ASSUME [Next]_vars
  PROVE  \/ job' = job
         \/ \E s \in Senders : Encolar(s)
         \/ \E w \in Workers : Completar(w) \/ Fallar(w) \/ \E i \in Invs : Tomar(w, i)
         \/ \E i \in Invs : Atasco(i) \/ AtascoConVida(i)
<1> USE DEF dePeticiones, deCola, deEnvios, deApi, deCorreo
<1>1. ASSUME NEW s \in Senders, PasoDe(s) PROVE job' = job \/ Encolar(s)
  BY <1>1 DEF PasoDe, EnviarTodos, EnviarUno, PasoEnvio, CaducarAnteriores, CrearInvitacion,
              CrearRechazada, EncolarFalla
<1>2. ASSUME NEW e \in Editors, EdicionDe(e) PROVE job' = job
  BY <1>2 DEF EdicionDe, LeerParaEditar, PasoEdicion, EditarSinTransaccion, EditarEnTransaccion,
              CaducarEnTransaccion, ConfirmarEdicion
<1>3. ASSUME NEW w \in Workers, TrabajoDe(w)
      PROVE  job' = job \/ Completar(w) \/ Fallar(w) \/ \E i \in Invs : Tomar(w, i)
  BY <1>3 DEF TrabajoDe, CaeWorker, PasoWorker, EnviarOk, EnviarRechazado,
              EnviarSinRespuesta, MarcarEnviada, MarcarFalla, CaducarAgotada,
              CaducarAgotadaFalla
<1>4. ASSUME NEW r \in Responders, RespuestaDe(r) PROVE job' = job
  BY <1>4 DEF RespuestaDe, RecibirRespuesta, PasoRespuesta, LeerInvitacion, MarcarRespondida,
              ConfirmarRespuesta, EncolarAviso
<1>5. ASSUME \/ \E i \in Invs, e \in Eventos : Webhook(i, e)
             \/ \E g \in Guests : BorrarInvitado(g)
             \/ \E e \in Editors, r \in Responders : Interbloqueo(e, r)
             \/ CaeApi \/ Tick \/ UNCHANGED vars
      PROVE  job' = job
  BY <1>5 DEF Webhook, BorrarInvitado, Interbloqueo, CaeApi, Tick, vars
<1> QED BY <1>1, <1>2, <1>3, <1>4, <1>5 DEF Next, PasoDe, EdicionDe, TrabajoDe, RespuestaDe

\* An idle worker holds no job; the owner of a job works with the attempts the
\* job has; every stall of a job cost a fault, and so did the death of the
\* owner of an active one; what a worker remembers as unmarked was mailed.
Duenos ==
  /\ \A w \in Workers : worker[w].pc = "libre" => worker[w].i = None
  /\ \A w \in Workers, i \in Invs : job[i].dueno = w /\ worker[w].i = i
       => worker[w].hechos = job[i].hechos /\ worker[w].pc # "respaldo"
Atascos ==
  \A i \in Invs : /\ job[i].atascos <= fallos
                  /\ job[i].estado = "active" /\ ~Atendido(i) => job[i].atascos + 1 <= fallos
SinMarcarSalio == \A w \in Workers : \A i \in worker[w].sinMarcar : correo[i] # None
QueueInv == Duenos /\ Atascos /\ SinMarcarSalio

\* A worker goes on with its job.
LEMMA MiddleMove ==
  ASSUME TypeInv, QueueInv, [Next]_vars, NEW w \in Workers, NEW e \in EstadoWorker,
         worker' = [worker EXCEPT ![w] = e], e.i = worker[w].i, e.hechos = worker[w].hechos,
         e.pc \notin {"libre", "respaldo"}, \A i \in e.sinMarcar : correo'[i] # None, job' = job
  PROVE  QueueInv'
<1>a. /\ WorkerOK /\ fallos \in Nat /\ fallos' \in Nat /\ fallos <= fallos'
      /\ \A i \in Invs : job[i].atascos \in Nat
  <2>1. \A i \in Invs : job[i].atascos \in Nat
    BY Supuestos DEF TypeInv, TypeOK, JobOK, FilaJob
  <2> QED BY <2>1, FaultsGrow DEF TypeInv, TypeOK
<1>1. worker'[w] = e /\ \A v \in Workers : v # w => worker'[v] = worker[v]
  BY <1>a DEF WorkerOK
<1>2. \A v \in Workers : worker'[v].i = worker[v].i /\ worker'[v].hechos = worker[v].hechos
  BY <1>1
<1>3. Duenos'
  BY <1>1, <1>2 DEF Duenos, QueueInv
<1>4. Atascos'
  <2>1. \A i \in Invs : Atendido(i)' <=> Atendido(i)
    BY <1>2 DEF Atendido
  <2> QED BY <1>a, <2>1 DEF Atascos, QueueInv
<1>5. SinMarcarSalio'
  <2>1. \A v \in Workers : \A i \in worker[v].sinMarcar : i \in Invs /\ correo[i] # None
    BY <1>a DEF WorkerOK, EstadoWorker, QueueInv, SinMarcarSalio
  <2>2. \A v \in Workers : \A i \in worker[v].sinMarcar : correo'[i] # None
    BY <2>1, MailStays
  <2> QED BY <1>1, <2>2 DEF SinMarcarSalio
<1> QED BY <1>3, <1>4, <1>5 DEF QueueInv

\* A worker leaves its job, and the queue takes it back, unless it was its no
\* more or the worker died.
LEMMA ReleaseMove ==
  ASSUME TypeInv, QueueInv, [Next]_vars, NEW w \in Workers, NEW e \in EstadoWorker,
         worker' = [worker EXCEPT ![w] = e], e.pc = "libre", e.i = None,
         e.sinMarcar \subseteq worker[w].sinMarcar, correo' = correo,
         \A i \in Invs : \/ job'[i] = job[i] /\ (job[i].dueno = w /\ worker[w].i = i => fallos' = fallos + 1)
                         \/ job'[i].estado # "active" /\ job'[i].dueno = None /\ job'[i].atascos = job[i].atascos
  PROVE  QueueInv'
<1>a. /\ WorkerOK /\ fallos \in Nat /\ fallos' \in Nat /\ fallos <= fallos'
      /\ \A i \in Invs : job[i].atascos \in Nat
  <2>1. \A i \in Invs : job[i].atascos \in Nat
    BY Supuestos DEF TypeInv, TypeOK, JobOK, FilaJob
  <2> QED BY <2>1, FaultsGrow DEF TypeInv, TypeOK
<1>b. None \notin Workers /\ None \notin Invs
  BY Supuestos
<1>1. worker'[w] = e /\ \A v \in Workers : v # w => worker'[v] = worker[v]
  BY <1>a DEF WorkerOK
<1>2. Duenos'
  <2>1. \A v \in Workers : worker'[v].pc = "libre" => worker'[v].i = None
    BY <1>1 DEF Duenos, QueueInv
  <2>2. ASSUME NEW v \in Workers, NEW i \in Invs, job'[i].dueno = v, worker'[v].i = i
        PROVE  worker'[v].hechos = job'[i].hechos /\ worker'[v].pc # "respaldo"
    <3>1. v # w /\ worker'[v] = worker[v] /\ job'[i] = job[i]
      BY <1>1, <1>b, <2>2
    <3> QED BY <2>2, <3>1 DEF Duenos, QueueInv
  <2> QED BY <2>1, <2>2 DEF Duenos
<1>3. ASSUME NEW i \in Invs
      PROVE  /\ job'[i].atascos <= fallos'
             /\ job'[i].estado = "active" /\ ~Atendido(i)' => job'[i].atascos + 1 <= fallos'
  <2>1. job'[i].atascos = job[i].atascos /\ job[i].atascos <= fallos
    BY DEF QueueInv, Atascos
  <2>2. CASE job'[i].estado = "active" /\ ~Atendido(i)'
    <3>1. job'[i] = job[i]
      BY <2>2
    <3>2. CASE ~Atendido(i)
      BY <1>a, <2>2, <3>1, <3>2 DEF QueueInv, Atascos
    <3>3. CASE Atendido(i)
      <4>1. PICK v \in Workers : job[i].dueno = v /\ worker[v].i = i
        BY <3>3 DEF Atendido
      <4>2. v = w
        BY <1>1, <2>2, <3>1, <4>1 DEF Atendido
      <4>3. fallos' = fallos + 1
        BY <2>2, <4>1, <4>2
      <4> QED BY <1>a, <2>1, <4>3
    <3> QED BY <3>2, <3>3
  <2> QED BY <1>a, <2>1, <2>2
<1>4. SinMarcarSalio'
  BY <1>1 DEF SinMarcarSalio, QueueInv
<1> QED BY <1>2, <1>3, <1>4 DEF QueueInv, Atascos

\* The worker stays where it is and its job is the queue's again.
LEMMA JobsMove ==
  ASSUME TypeInv, QueueInv, [Next]_vars, worker' = worker, correo' = correo, NEW i \in Invs,
         \A j \in Invs : j # i => job'[j] = job[j],
         job'[i].dueno = None, job'[i].estado # "active", job'[i].atascos <= fallos'
  PROVE  QueueInv'
<1>a. /\ fallos \in Nat /\ fallos' \in Nat /\ fallos <= fallos'
      /\ \A j \in Invs : job[j].atascos \in Nat
  <2>1. \A j \in Invs : job[j].atascos \in Nat
    BY Supuestos DEF TypeInv, TypeOK, JobOK, FilaJob
  <2> QED BY <2>1, FaultsGrow DEF TypeInv, TypeOK
<1>b. None \notin Workers
  BY Supuestos
<1>1. Duenos'
  BY <1>b DEF Duenos, QueueInv
<1>2. ASSUME NEW j \in Invs
      PROVE  /\ job'[j].atascos <= fallos'
             /\ job'[j].estado = "active" /\ ~Atendido(j)' => job'[j].atascos + 1 <= fallos'
  <2>1. CASE j = i
    BY <2>1
  <2>2. CASE j # i
    <3>1. job'[j] = job[j] /\ (Atendido(j)' <=> Atendido(j))
      BY <2>2 DEF Atendido
    <3> QED BY <1>a, <3>1 DEF QueueInv, Atascos
  <2> QED BY <2>1, <2>2
<1>3. SinMarcarSalio'
  BY DEF SinMarcarSalio, QueueInv
<1> QED BY <1>1, <1>2, <1>3 DEF QueueInv, Atascos

LEMMA TomarHolds ==
  ASSUME TypeInv, QueueInv, NEW w \in Workers, NEW i \in Invs, Tomar(w, i)
  PROVE  QueueInv'
<1>a. WorkerOK /\ JobOK /\ None \notin Invs
  BY Supuestos DEF TypeInv, TypeOK
<1>1. /\ job'[i].estado = "active" /\ job'[i].dueno = w /\ job'[i].hechos = job[i].hechos
      /\ job'[i].atascos = job[i].atascos /\ \A j \in Invs : j # i => job'[j] = job[j]
  BY <1>a DEF Tomar, JobOK, FilaJob
<1>2. PICK p \in {"enviar", "completar", "caducar", "fallar"},
           m \in {guest[inv[i].guest].email, None} :
        /\ worker' = [worker EXCEPT ![w] = [worker[w] EXCEPT
                        !.pc = p, !.i = i, !.email = m, !.hechos = job[i].hechos]]
        /\ p = "enviar" \/ m # None => Viva(i) /\ inv[i].status = "QUEUED" /\ m # None
        /\ p = "fallar" => ~esUltimoIntento(job[i].hechos)
        /\ fallos' = fallos \/ Falla
  BY TomarShape
<1>3. /\ worker'[w].pc = p /\ worker'[w].i = i /\ worker'[w].hechos = job[i].hechos
      /\ worker'[w].sinMarcar = worker[w].sinMarcar
      /\ \A v \in Workers : v # w => worker'[v] = worker[v]
  BY <1>2, <1>a DEF WorkerOK, EstadoWorker
<1>4. worker[w].i = None /\ correo' = correo /\ fallos \in Nat /\ fallos' \in Nat /\ fallos <= fallos'
  BY <1>2, Supuestos DEF Tomar, QueueInv, Duenos, Falla, TypeInv, TypeOK, ClockOK
<1>5. Duenos'
  BY <1>1, <1>3 DEF Duenos, QueueInv
<1>6. ASSUME NEW j \in Invs
      PROVE  /\ job'[j].atascos <= fallos'
             /\ job'[j].estado = "active" /\ ~Atendido(j)' => job'[j].atascos + 1 <= fallos'
  <2>0. job[j].atascos \in Nat /\ job[j].atascos <= fallos
    BY <1>a, Supuestos DEF JobOK, FilaJob, QueueInv, Atascos
  <2>1. CASE j = i
    <3>1. Atendido(j)'
      BY <1>1, <1>3, <2>1 DEF Atendido
    <3> QED BY <1>1, <1>4, <2>0, <2>1, <3>1
  <2>2. CASE j # i
    <3>1. job'[j] = job[j]
      BY <1>1, <2>2
    <3>2. Atendido(j)' <=> Atendido(j)
      BY <1>a, <1>3, <1>4, <2>2, <3>1 DEF Atendido
    <3> QED BY <1>4, <2>0, <3>1, <3>2 DEF QueueInv, Atascos
  <2> QED BY <2>1, <2>2
<1>7. SinMarcarSalio'
  BY <1>3, <1>4 DEF SinMarcarSalio, QueueInv
<1> QED BY <1>5, <1>6, <1>7 DEF QueueInv, Atascos

LEMMA WorkersKeepQueue ==
  ASSUME TypeInv, MailBefore, QueueInv, [Next]_vars, NEW w \in Workers, TrabajoDe(w)
  PROVE  QueueInv'
<1>a. WorkerOK /\ JobOK /\ MailOK /\ worker[w] \in EstadoWorker
  BY DEF TypeInv, TypeOK, WorkerOK
<1>b. \A i \in worker[w].sinMarcar : i \in Invs /\ correo[i] # None
  BY <1>a DEF WorkerOK, EstadoWorker, QueueInv, SinMarcarSalio
<1>c. \A i \in worker[w].sinMarcar : correo'[i] # None
  BY <1>b, MailStays
<1>1. ASSUME NEW i \in Invs, Tomar(w, i) PROVE QueueInv'
  BY <1>1, TomarHolds
<1>2. CASE EnviarOk(w)
  <2>1. PICK c \in BOOLEAN :
          worker' = [worker EXCEPT ![w] = [worker[w] EXCEPT !.pc = "marcar", !.conId = c]]
    BY <1>2 DEF EnviarOk
  <2>2. PICK e : e = [worker[w] EXCEPT !.pc = "marcar", !.conId = c]
    OBVIOUS
  <2>3. /\ e \in EstadoWorker /\ e.i = worker[w].i /\ e.hechos = worker[w].hechos
        /\ e.pc = "marcar" /\ e.sinMarcar = worker[w].sinMarcar
    BY <2>2, <1>a DEF EstadoWorker
  <2> QED BY <1>2, <1>c, <2>1, <2>2, <2>3, MiddleMove DEF EnviarOk
<1>3. ASSUME NEW p \in {"caducar", "fallar", "completar"}, job' = job,
             worker' = [worker EXCEPT ![w] = [worker[w] EXCEPT !.pc = p]]
      PROVE  QueueInv'
  <2>2. PICK e : e = [worker[w] EXCEPT !.pc = p]
    OBVIOUS
  <2>3. /\ e \in EstadoWorker /\ e.i = worker[w].i /\ e.hechos = worker[w].hechos
        /\ e.pc = p /\ e.sinMarcar = worker[w].sinMarcar
    BY <2>2, <1>a, <1>3 DEF EstadoWorker
  <2> QED BY <1>3, <1>c, <2>2, <2>3, MiddleMove
<1>4. CASE EnviarRechazado(w) \/ EnviarSinRespuesta(w)
  <2>1. job' = job /\ worker' = TrasFallarEnvio(w)
    BY <1>4 DEF EnviarRechazado, EnviarSinRespuesta
  <2>2. CASE esUltimoIntento(worker[w].hechos)
    <3>1. worker' = [worker EXCEPT ![w] = [worker[w] EXCEPT !.pc = "caducar"]]
      BY <2>1, <2>2 DEF TrasFallarEnvio, TrasFallar
    <3> QED BY <2>1, <3>1, <1>3
  <2>3. CASE ~(esUltimoIntento(worker[w].hechos))
    <3>1. worker' = [worker EXCEPT ![w] = [worker[w] EXCEPT !.pc = "fallar"]]
      BY <2>1, <2>3 DEF TrasFallarEnvio, TrasFallar
    <3> QED BY <2>1, <3>1, <1>3
  <2> QED BY <2>2, <2>3
<1>5. CASE MarcarEnviada(w)
  BY <1>5, <1>3 DEF MarcarEnviada
<1>6. CASE MarcarFalla(w)
  <2>1. PICK e : e = [worker[w] EXCEPT !.pc = "fallar", !.sinMarcar = @ \cup {worker[w].i}]
    OBVIOUS
  <2>2. worker[w].i \in Invs /\ correo[worker[w].i] # None
    BY <1>6, <1>a DEF MarcarFalla, WorkerOK, MailBefore
  <2>3. /\ e \in EstadoWorker /\ e.i = worker[w].i /\ e.hechos = worker[w].hechos
        /\ e.pc = "fallar" /\ e.sinMarcar = worker[w].sinMarcar \cup {worker[w].i}
    BY <2>1, <2>2, <1>a DEF EstadoWorker
  <2>4. correo' = correo /\ job' = job /\ worker' = [worker EXCEPT ![w] = e]
    BY <1>6, <2>1 DEF MarcarFalla
  <2> QED BY <1>c, <2>2, <2>3, <2>4, MiddleMove
<1>7. ASSUME NEW S \in SUBSET worker[w].sinMarcar, correo' = correo,
             worker' = [worker EXCEPT ![w] = [SinTrabajo EXCEPT !.sinMarcar = S]],
             \A i \in Invs : \/ job'[i] = job[i] /\ (job[i].dueno = w /\ worker[w].i = i => fallos' = fallos + 1)
                             \/ job'[i].estado # "active" /\ job'[i].dueno = None /\ job'[i].atascos = job[i].atascos
      PROVE  QueueInv'
  <2>1. PICK e : e = [SinTrabajo EXCEPT !.sinMarcar = S]
    OBVIOUS
  <2>2. S \subseteq Invs
    BY <1>a DEF EstadoWorker
  <2>3. e \in EstadoWorker /\ e.pc = "libre" /\ e.i = None /\ e.sinMarcar = S
    <3>1. e = [pc |-> "libre", i |-> None, email |-> None, conId |-> FALSE, hechos |-> 0, sinMarcar |-> S]
      BY <2>1 DEF SinTrabajo
    <3>2. 0 \in 0..MaxIntentos
      BY Supuestos
    <3> QED BY <2>2, <3>1, <3>2 DEF EstadoWorker
  <2> QED BY <1>7, <2>1, <2>3, ReleaseMove
<1>8. CASE CaducarAgotada(w) \/ CaducarAgotadaFalla(w)
  <2>1. job' = job /\ correo' = correo
    BY <1>8 DEF CaducarAgotada, CaducarAgotadaFalla
  <2>2. CASE worker[w].pc = "caducar"
    <3>1. worker' = [worker EXCEPT ![w] = [worker[w] EXCEPT !.pc = "fallar"]]
      BY <1>8, <2>2 DEF CaducarAgotada, CaducarAgotadaFalla
    <3> QED BY <2>1, <3>1, <1>3
  <2>3. CASE worker[w].pc = "respaldo"
    <3>1. worker' = [worker EXCEPT ![w] = [SinTrabajo EXCEPT !.sinMarcar = worker[w].sinMarcar]]
      BY <1>8, <2>3 DEF CaducarAgotada, CaducarAgotadaFalla, Soltar
    <3>2. \A i \in Invs : ~(job[i].dueno = w /\ worker[w].i = i)
      BY <2>3 DEF QueueInv, Duenos
    <3> QED BY <2>1, <3>1, <3>2, <1>7
  <2> QED BY <1>8, <2>2, <2>3 DEF CaducarAgotada, CaducarAgotadaFalla
<1>9. CASE Completar(w)
  <2>1. worker' = [worker EXCEPT ![w] = [SinTrabajo EXCEPT !.sinMarcar = worker[w].sinMarcar]]
        /\ correo' = correo /\ worker[w].i \in Invs
    BY <1>9, <1>a DEF Completar, Soltar, WorkerOK
  <2>2. CASE job[worker[w].i].dueno = w
    <3>1. job' = [job EXCEPT ![worker[w].i] = [job[worker[w].i] EXCEPT !.estado = "none", !.dueno = None]]
      BY <1>9, <2>2 DEF Completar
    <3>2. ASSUME NEW i \in Invs
          PROVE  \/ job'[i] = job[i] /\ (job[i].dueno = w /\ worker[w].i = i => fallos' = fallos + 1)
                 \/ job'[i].estado # "active" /\ job'[i].dueno = None /\ job'[i].atascos = job[i].atascos
      BY <1>a, <2>1, <3>1 DEF JobOK, FilaJob
    <3> QED BY <2>1, <3>2, <1>7
  <2>3. CASE job[worker[w].i].dueno # w
    BY <1>9, <2>1, <2>3, <1>7 DEF Completar
  <2> QED BY <2>2, <2>3
<1>10. CASE CaeWorker(w)
  <2>1. worker' = [worker EXCEPT ![w] = [SinTrabajo EXCEPT !.sinMarcar = {}]]
        /\ correo' = correo /\ job' = job /\ fallos' = fallos + 1
    BY <1>10 DEF CaeWorker, SinTrabajo, Falla
  <2>2. {} \in SUBSET worker[w].sinMarcar
    OBVIOUS
  <2>3. PICK S \in SUBSET worker[w].sinMarcar : S = {}
    BY <2>2
  <2> QED BY <2>1, <2>3, <1>7
<1>11. CASE Fallar(w)
  <2>a. worker[w].i \in Invs /\ correo' = correo
    BY <1>11, <1>a DEF Fallar, WorkerOK
  <2>1. CASE job[worker[w].i].dueno # w
    BY <1>11, <2>a, <2>1, <1>7 DEF Fallar, Soltar
  <2>2. CASE job[worker[w].i].dueno = w
    <3>1. PICK f \in {"failed", "waiting"} :
            job' = [job EXCEPT ![worker[w].i] = [job[worker[w].i] EXCEPT
              !.hechos = HechosTras(worker[w].i), !.dueno = None, !.estado = f]]
      BY <1>11, <2>2 DEF Fallar
    <3>2. /\ job'[worker[w].i].dueno = None /\ job'[worker[w].i].estado # "active"
          /\ job'[worker[w].i].atascos = job[worker[w].i].atascos
          /\ \A i \in Invs : i # worker[w].i => job'[i] = job[i]
      BY <1>a, <2>a, <3>1 DEF JobOK, FilaJob
    <3>3. CASE worker' = [worker EXCEPT ![w] = [SinTrabajo EXCEPT !.sinMarcar = worker[w].sinMarcar \ {worker[w].i}]]
      BY <2>a, <3>2, <3>3, <1>7
    <3>4. CASE worker' = [worker EXCEPT ![w] = [worker[w] EXCEPT !.pc = "respaldo"]]
      <4>a. PICK e : e = [worker[w] EXCEPT !.pc = "respaldo"]
        OBVIOUS
      <4>b. e.i = worker[w].i /\ e.pc = "respaldo" /\ e.sinMarcar = worker[w].sinMarcar
        BY <4>a, <1>a DEF EstadoWorker
      <4>1. worker'[w] = e /\ \A v \in Workers : v # w => worker'[v] = worker[v]
        BY <1>a, <3>4, <4>a DEF WorkerOK
      <4>2. None \notin Workers
        BY Supuestos
      <4>3. Duenos'
        <5>1. \A v \in Workers : worker'[v].pc = "libre" => worker'[v].i = None
          BY <4>1, <4>b DEF QueueInv, Duenos
        <5>2. ASSUME NEW v \in Workers, NEW i \in Invs, job'[i].dueno = v, worker'[v].i = i
              PROVE  worker'[v].hechos = job'[i].hechos /\ worker'[v].pc # "respaldo"
          <6>1. i # worker[w].i
            BY <5>2, <3>2, <4>2
          <6>2. v # w
            BY <5>2, <6>1, <4>1, <4>b
          <6> QED BY <5>2, <6>1, <6>2, <3>2, <4>1 DEF QueueInv, Duenos
        <5> QED BY <5>1, <5>2 DEF Duenos
      <4>4. ASSUME NEW i \in Invs
            PROVE  /\ job'[i].atascos <= fallos'
                   /\ job'[i].estado = "active" /\ ~Atendido(i)' => job'[i].atascos + 1 <= fallos'
        <5>1. fallos' = fallos
          BY <1>11 DEF Fallar
        <5>2. CASE i = worker[w].i
          BY <5>1, <5>2, <3>2 DEF QueueInv, Atascos
        <5>3. CASE i # worker[w].i
          <6>1. job'[i] = job[i] /\ (Atendido(i)' <=> Atendido(i))
            BY <5>3, <3>2, <4>1, <4>b DEF Atendido
          <6> QED BY <5>1, <6>1 DEF QueueInv, Atascos
        <5> QED BY <5>2, <5>3
      <4>5. SinMarcarSalio'
        BY <2>a, <4>1, <4>b DEF QueueInv, SinMarcarSalio
      <4> QED BY <4>3, <4>4, <4>5 DEF QueueInv, Atascos
    <3> QED BY <1>11, <2>2, <3>3, <3>4 DEF Fallar
  <2> QED BY <2>1, <2>2
<1> QED BY <1>1, <1>2, <1>4, <1>5, <1>6, <1>8, <1>9, <1>10, <1>11 DEF TrabajoDe, PasoWorker

LEMMA StepQueue == TypeInv /\ MailBefore /\ QueueInv /\ [Next]_vars => QueueInv'
<1> SUFFICES ASSUME TypeInv, MailBefore, QueueInv, [Next]_vars PROVE QueueInv'
  OBVIOUS
<1>a. WorkerOK /\ JobOK /\ EnvioOK
  BY DEF TypeInv, TypeOK
<1>b. fallos \in Nat /\ fallos' \in Nat /\ fallos <= fallos'
  BY FaultsGrow
<1>1. ASSUME NEW w \in Workers, TrabajoDe(w) PROVE QueueInv'
  BY <1>1, WorkersKeepQueue
<1>2. CASE worker' = worker /\ correo' = correo /\ job' = job
  <2>1. \A i \in Invs : job[i].atascos \in Nat
    BY Supuestos, <1>a DEF JobOK, FilaJob
  <2>2. Duenos' /\ SinMarcarSalio'
    BY <1>2 DEF QueueInv, Duenos, SinMarcarSalio
  <2>3. \A i \in Invs : Atendido(i)' <=> Atendido(i)
    BY <1>2 DEF Atendido
  <2>4. Atascos'
    BY <1>2, <1>b, <2>1, <2>3 DEF QueueInv, Atascos
  <2> QED BY <2>2, <2>4 DEF QueueInv
<1>3. ASSUME NEW s \in Senders, Encolar(s) PROVE QueueInv'
  <2>1. envio[s].i \in Invs /\ worker' = worker /\ correo' = correo
        /\ job' = [job EXCEPT ![envio[s].i] = [SinJob EXCEPT !.estado = "waiting"]]
    BY <1>3, <1>a DEF Encolar, EnvioOK, deCola
  <2>2. /\ job'[envio[s].i].dueno = None /\ job'[envio[s].i].estado = "waiting"
        /\ job'[envio[s].i].atascos = 0 /\ \A j \in Invs : j # envio[s].i => job'[j] = job[j]
    BY <2>1, <1>a DEF JobOK, SinJob
  <2> QED BY <1>b, <2>1, <2>2, JobsMove
<1>4. ASSUME NEW i \in Invs, Atasco(i) \/ AtascoConVida(i) PROVE QueueInv'
  <2>1. worker' = worker /\ correo' = correo /\ TrasAtasco(i) /\ job[i].estado = "active"
    BY <1>4 DEF Atasco, AtascoConVida
  <2>2. /\ job'[i].dueno = None /\ job'[i].estado # "active"
        /\ job'[i].atascos \in {job[i].atascos, job[i].atascos + 1}
        /\ \A j \in Invs : j # i => job'[j] = job[j]
    BY <2>1, <1>a DEF TrasAtasco, JobOK, FilaJob
  <2>3. job[i].atascos \in Nat /\ job[i].atascos <= fallos
    BY Supuestos, <1>a DEF JobOK, FilaJob, QueueInv, Atascos
  <2>4. job[i].atascos + 1 <= fallos'
    <3>1. CASE Atasco(i)
      BY <1>b, <2>3, <3>1 DEF Atasco, QueueInv, Atascos
    <3>2. CASE AtascoConVida(i)
      BY <1>b, <2>3, <3>2 DEF AtascoConVida, Falla
    <3> QED BY <1>4, <3>1, <3>2
  <2>5. job'[i].atascos <= fallos'
    BY <1>b, <2>2, <2>3, <2>4
  <2> QED BY <2>1, <2>2, <2>5, JobsMove
<1>5. CASE job' = job /\ ~\E w \in Workers : TrabajoDe(w)
  <2>1. worker' = worker /\ correo' = correo
    BY <1>5, Frames DEF vars, Tick
  <2> QED BY <1>2, <1>5, <2>1
<1> QED BY <1>1, <1>3, <1>4, <1>5, WritersOfJob DEF TrabajoDe, PasoWorker

-----------------------------------------------------------------------------
(* What a step does to a worker, and to the rows that are not there yet *)

\* How a worker gets hold of a job, and to the end of a failed attempt.
LEMMA WorkerMoves ==
  ASSUME TypeInv, [Next]_vars, NEW w \in Workers
  PROVE  \/ worker'[w] = worker[w]
         \/ worker'[w].i = None /\ worker'[w].pc = "libre"
         \/ \E i \in Invs : Tomar(w, i) /\ worker'[w].i = i /\ worker'[w].hechos = job[i].hechos
                           /\ \/ worker'[w].pc \in {"enviar", "completar", "caducar"}
                              \/ worker'[w].pc = "fallar" /\ ~esUltimoIntento(job[i].hechos)
         \/ /\ worker'[w].i = worker[w].i /\ worker'[w].hechos = worker[w].hechos
            /\ \/ worker'[w].pc \in {"marcar", "completar", "caducar"}
               \/ worker'[w].pc = "fallar" /\ ~(esUltimoIntento(worker[w].hechos))
               \/ worker'[w].pc = "fallar"
                  /\ (MarcarFalla(w) \/ CaducarAgotada(w) \/ CaducarAgotadaFalla(w))
               \/ worker'[w].pc = "respaldo" /\ Fallar(w) /\ job[worker[w].i].dueno = w
                  /\ HechosTras(worker[w].i) >= MaxIntentos
<1>a. WorkerOK /\ worker[w] \in EstadoWorker /\ JobOK
  BY DEF TypeInv, TypeOK, WorkerOK
<1> DEFINE Igualado == worker'[w].i = worker[w].i /\ worker'[w].hechos = worker[w].hechos
           Suelto == worker'[w].i = None /\ worker'[w].pc = "libre"
<1>1. ASSUME NEW p \in {"caducar", "fallar", "completar", "respaldo"},
             worker' = [worker EXCEPT ![w] = [worker[w] EXCEPT !.pc = p]]
      PROVE  Igualado /\ worker'[w].pc = p
  BY <1>1, <1>a DEF WorkerOK, EstadoWorker
<1>2. ASSUME NEW S, worker' = [worker EXCEPT ![w] = [SinTrabajo EXCEPT !.sinMarcar = S]]
      PROVE  Suelto
  BY <1>2, <1>a DEF WorkerOK, SinTrabajo
<1>3. CASE TrabajoDe(w)
  <2>1. ASSUME NEW i \in Invs, Tomar(w, i)
        PROVE  /\ worker'[w].i = i /\ worker'[w].hechos = job[i].hechos
               /\ \/ worker'[w].pc \in {"enviar", "completar", "caducar"}
                  \/ worker'[w].pc = "fallar" /\ ~esUltimoIntento(job[i].hechos)
    <3>1. PICK p \in {"enviar", "completar", "caducar", "fallar"},
               m \in {guest[inv[i].guest].email, None} :
            /\ worker' = [worker EXCEPT ![w] = [worker[w] EXCEPT
                            !.pc = p, !.i = i, !.email = m, !.hechos = job[i].hechos]]
            /\ p = "enviar" \/ m # None => Viva(i) /\ inv[i].status = "QUEUED" /\ m # None
            /\ p = "fallar" => ~esUltimoIntento(job[i].hechos)
            /\ fallos' = fallos \/ Falla
      BY <2>1, TomarShape
    <3>2. worker'[w].pc = p /\ worker'[w].i = i /\ worker'[w].hechos = job[i].hechos
      BY <3>1, <1>a DEF WorkerOK, EstadoWorker
    <3> QED BY <3>1, <3>2
  <2>2. CASE EnviarOk(w)
    <3>1. PICK c \in BOOLEAN :
            worker' = [worker EXCEPT ![w] = [worker[w] EXCEPT !.pc = "marcar", !.conId = c]]
      BY <2>2 DEF EnviarOk
    <3>2. Igualado /\ worker'[w].pc = "marcar"
      BY <3>1, <1>a DEF WorkerOK, EstadoWorker
    <3> QED BY <3>2
  <2>3. CASE EnviarRechazado(w) \/ EnviarSinRespuesta(w)
    <3>1. worker' = TrasFallarEnvio(w)
      BY <2>3 DEF EnviarRechazado, EnviarSinRespuesta
    <3>2. CASE esUltimoIntento(worker[w].hechos)
      <4>1. worker' = [worker EXCEPT ![w] = [worker[w] EXCEPT !.pc = "caducar"]]
        BY <3>1, <3>2 DEF TrasFallarEnvio, TrasFallar
      <4> QED BY <4>1, <1>1
    <3>3. CASE ~(esUltimoIntento(worker[w].hechos))
      <4>1. worker' = [worker EXCEPT ![w] = [worker[w] EXCEPT !.pc = "fallar"]]
        BY <3>1, <3>3 DEF TrasFallarEnvio, TrasFallar
      <4> QED BY <4>1, <3>3, <1>1
    <3> QED BY <3>2, <3>3
  <2>4. CASE MarcarEnviada(w)
    <3>1. worker' = [worker EXCEPT ![w] = [worker[w] EXCEPT !.pc = "completar"]]
      BY <2>4 DEF MarcarEnviada
    <3> QED BY <3>1, <1>1
  <2>5. CASE MarcarFalla(w)
    <3>1. Igualado /\ worker'[w].pc = "fallar"
      BY <2>5, <1>a DEF MarcarFalla, WorkerOK, EstadoWorker
    <3> QED BY <2>5, <3>1
  <2>6. CASE CaducarAgotada(w) \/ CaducarAgotadaFalla(w)
    <3>1. CASE worker' = [worker EXCEPT ![w] = [worker[w] EXCEPT !.pc = "fallar"]]
      BY <2>6, <3>1, <1>1
    <3>2. CASE worker' = [worker EXCEPT ![w] = Soltar(w)]
      BY <3>2, <1>2 DEF Soltar
    <3> QED BY <2>6, <3>1, <3>2 DEF CaducarAgotada, CaducarAgotadaFalla
  <2>7. CASE Completar(w)
    <3>1. Suelto
      BY <2>7, <1>2 DEF Completar, Soltar
    <3> QED BY <3>1
  <2>8. CASE Fallar(w)
    <3>1. CASE /\ worker' = [worker EXCEPT ![w] = [worker[w] EXCEPT !.pc = "respaldo"]]
               /\ job[worker[w].i].dueno = w /\ HechosTras(worker[w].i) >= MaxIntentos
      BY <2>8, <3>1, <1>1
    <3>2. CASE worker' = [worker EXCEPT ![w] = [SinTrabajo EXCEPT !.sinMarcar = worker[w].sinMarcar \ {worker[w].i}]]
      BY <3>2, <1>2
    <3>3. CASE worker' = [worker EXCEPT ![w] = Soltar(w)]
      BY <3>3, <1>2 DEF Soltar
    <3> QED BY <2>8, <3>1, <3>2, <3>3 DEF Fallar
  <2>9. CASE CaeWorker(w)
    <3>1. Suelto
      BY <2>9, <1>a DEF CaeWorker, SinTrabajo, WorkerOK
    <3> QED BY <3>1
  <2> QED BY <1>3, <2>1, <2>2, <2>3, <2>4, <2>5, <2>6, <2>7, <2>8, <2>9 DEF TrabajoDe, PasoWorker
<1>4. ASSUME NEW v \in Workers, v # w, TrabajoDe(v) PROVE worker'[w] = worker[w]
  BY <1>4, <1>a
  DEF TrabajoDe, Tomar, CaeWorker, PasoWorker, EnviarOk, EnviarRechazado, EnviarSinRespuesta,
      TrasFallarEnvio, MarcarEnviada, MarcarFalla, CaducarAgotada, CaducarAgotadaFalla,
      Completar, Fallar, WorkerOK
<1>5. CASE worker' = worker
  BY <1>5
<1> QED BY <1>3, <1>4, <1>5, Frames DEF vars, Tick

\* Only the creation of its invitation takes a send to the queue.
LEMMA QueueingBegins ==
  ASSUME TypeInv, [Next]_vars, NEW s \in Senders, envio'[s].pc = "encolar"
  PROVE  \/ envio'[s] = envio[s]
         \/ \E i \in Invs : CrearInvitacion(s, i) /\ envio'[s].i = i
<1>a. EnvioOK
  BY DEF TypeInv, TypeOK
<1> DEFINE Goal == \/ envio'[s] = envio[s]
                   \/ \E i \in Invs : CrearInvitacion(s, i) /\ envio'[s].i = i
<1>1. ASSUME NEW q \in Senders, PasoDe(q) PROVE Goal
  <2> USE DEF SinEnvio, SiguienteDelLote
  <2>1. CASE EnviarTodos(q)
    BY <2>1, <1>a DEF EnviarTodos, EnvioOK
  <2>2. ASSUME NEW g \in Guests, EnviarUno(q, g) PROVE Goal
    BY <2>2, <1>a DEF EnviarUno, EnvioOK
  <2>3. CASE CaducarAnteriores(q)
    BY <2>3, <1>a DEF CaducarAnteriores, EnvioOK, EstadoEnvio
  <2>4. ASSUME NEW i \in Invs, CrearInvitacion(q, i) PROVE Goal
    BY <2>4, <1>a DEF CrearInvitacion, EnvioOK, EstadoEnvio
  <2>5. ASSUME NEW g \in Guests, SiguienteDelLote(q, g) PROVE Goal
    BY <2>5, <1>a DEF EnvioOK
  <2>6. envio[q].pc \in {"crear", "encolar"} => envio[q].g \in Guests
    BY <1>a DEF EnvioOK
  <2> QED BY <1>1, <2>1, <2>2, <2>3, <2>4, <2>5, <2>6
          DEF PasoDe, PasoEnvio, CrearRechazada, Encolar, EncolarFalla
<1>2. ~CaeApi
  BY <1>a DEF CaeApi, SinEnvio
<1> QED BY <1>1, <1>2, Frames DEF vars, Tick

\* A row that was not drawn has neither job nor worker, and none on the way.
FreshInv ==
  /\ \A i \in Invs : inv[i].status = "NUEVA"
       => job[i].estado = "none" /\ \A w \in Workers : worker[w].i # i
  /\ \A s \in Senders : envio[s].pc = "encolar" => inv[envio[s].i].status # "NUEVA"

LEMMA StepFresh == TypeInv /\ AnswerHolds /\ FreshInv /\ [Next]_vars => FreshInv'
<1> SUFFICES ASSUME TypeInv, AnswerHolds, FreshInv, [Next]_vars PROVE FreshInv'
  OBVIOUS
<1>a. WorkerOK /\ JobOK /\ EnvioOK /\ InvOK /\ None \notin Invs
  BY Supuestos DEF TypeInv, TypeOK
<1>1. ASSUME NEW i \in Invs, inv'[i].status = "NUEVA"
      PROVE  job'[i].estado = "none" /\ \A w \in Workers : worker'[w].i # i
  <2>1. /\ inv[i].status = "NUEVA" /\ job[i].estado = "none"
        /\ \A w \in Workers : worker[w].i # i
    BY <1>1, RankStep DEF FreshInv
  <2>2. ASSUME NEW w \in Workers PROVE worker'[w].i # i
    <3>1. \A j \in Invs : Tomar(w, j) => j # i
      BY <2>1 DEF Tomar
    <3>2. worker[w].i # i /\ i # None
      BY <1>a, <2>1
    <3> QED BY <3>1, <3>2, WorkerMoves
  <2>3. job'[i] = job[i]
    <3>1. ASSUME NEW s \in Senders, Encolar(s) PROVE job'[i] = job[i]
      <4>1. envio[s].i \in Invs /\ envio[s].i # i
        BY <1>a, <2>1, <3>1 DEF Encolar, EnvioOK, FreshInv
      <4> QED BY <1>a, <3>1, <4>1 DEF Encolar, JobOK
    <3>2. ASSUME NEW w \in Workers, Completar(w) \/ Fallar(w) PROVE job'[i] = job[i]
      <4>1. worker[w].i # i
        BY <2>1
      <4> QED BY <1>a, <3>2, <4>1 DEF Completar, Fallar, JobOK
    <3>3. ASSUME NEW w \in Workers, NEW j \in Invs, Tomar(w, j) PROVE job'[i] = job[i]
      <4>1. j # i
        BY <2>1, <3>3 DEF Tomar
      <4> QED BY <1>a, <3>3, <4>1 DEF Tomar, JobOK
    <3>4. ASSUME NEW j \in Invs, Atasco(j) \/ AtascoConVida(j) PROVE job'[i] = job[i]
      <4>1. j # i
        BY <2>1, <3>4 DEF Atasco, AtascoConVida
      <4> QED BY <1>a, <3>4, <4>1 DEF Atasco, AtascoConVida, TrasAtasco, JobOK
    <3> QED BY <3>1, <3>2, <3>3, <3>4, WritersOfJob
  <2> QED BY <2>1, <2>2, <2>3
<1>2. ASSUME NEW s \in Senders, envio'[s].pc = "encolar"
      PROVE  inv'[envio'[s].i].status # "NUEVA"
  <2>1. CASE envio'[s] = envio[s]
    <3>1. envio[s].i \in Invs /\ inv[envio[s].i].status # "NUEVA"
      BY <1>2, <1>a, <2>1 DEF EnvioOK, FreshInv
    <3> QED BY <2>1, <3>1, RankStep
  <2>2. ASSUME NEW i \in Invs, CrearInvitacion(s, i), envio'[s].i = i
        PROVE  inv'[envio'[s].i].status # "NUEVA"
    BY <1>a, <2>2 DEF CrearInvitacion, InvOK
  <2> QED BY <1>2, <2>1, <2>2, QueueingBegins
<1> QED BY <1>1, <1>2 DEF FreshInv

-----------------------------------------------------------------------------
(* Failed jobs *)

Muerta(i) == ~Viva(i) \/ correo[i] # None

LEMMA DeadStays ==
  ASSUME TypeInv, AnswerHolds, PastDates, [Next]_vars, NEW i \in Invs,
         inv[i].status # "NUEVA", Muerta(i)
  PROVE  Muerta(i)'
<1>1. CASE correo[i] # None
  BY <1>1, MailStays DEF Muerta
<1>2. CASE ~Viva(i)
  BY <1>2, LinkStep DEF Muerta, CrearInvitacion
<1> QED BY <1>1, <1>2 DEF Muerta

LEMMA ExpiryKills ==
  ASSUME TypeInv, NEW w \in Workers, CaducarAgotada(w), NEW i \in Invs, worker[w].i = i
  PROVE  Muerta(i)'
<1>a. InvOK /\ reloj \in Nat /\ reloj' = reloj
  BY Supuestos DEF TypeInv, TypeOK, ClockOK, CaducarAgotada
<1>1. CASE Existe(i)
  <2>1. inv'[i].expiresAt = reloj
    BY <1>a, <1>1 DEF CaducarAgotada, InvOK, FilaInvitacion
  <2> QED BY <1>a, <2>1 DEF Muerta, Viva
<1>2. CASE ~Existe(i)
  BY <1>2 DEF CaducarAgotada, Muerta, Viva, Existe
<1> QED BY <1>1, <1>2

\* While nothing has failed, a worker that ran out of attempts has expired the
\* link, or its mail had left.
SpentMeansDead ==
  \A w \in Workers, i \in Invs :
    /\ fallos = 0 /\ worker[w].i = i
    /\ \/ worker[w].pc = "respaldo"
       \/ worker[w].pc = "fallar" /\ esUltimoIntento(worker[w].hechos)
    => Muerta(i)

LEMMA StepSpent ==
  TypeInv /\ AnswerHolds /\ PastDates /\ QueueInv /\ FreshInv /\ SpentMeansDead /\ [Next]_vars
  => SpentMeansDead'
<1> SUFFICES ASSUME TypeInv, AnswerHolds, PastDates, QueueInv, FreshInv, SpentMeansDead, [Next]_vars,
                    NEW w \in Workers, NEW i \in Invs, fallos' = 0, worker'[w].i = i,
                    \/ worker'[w].pc = "respaldo"
                    \/ worker'[w].pc = "fallar" /\ esUltimoIntento(worker'[w].hechos)
             PROVE  Muerta(i)'
  BY DEF SpentMeansDead
<1>a. WorkerOK /\ JobOK /\ fallos = 0 /\ ~Falla
  BY FaultsGrow DEF TypeInv, TypeOK, Falla
<1>1. ASSUME worker[w].i = i, Muerta(i) PROVE Muerta(i)'
  BY <1>1, DeadStays DEF FreshInv
<1>2. CASE worker'[w] = worker[w]
  BY <1>a, <1>1, <1>2 DEF SpentMeansDead
<1>3. CASE CaducarAgotada(w) /\ worker[w].i = i
  BY <1>3, ExpiryKills
<1>4. CASE /\ worker'[w].pc = "respaldo" /\ Fallar(w) /\ job[worker[w].i].dueno = w
           /\ HechosTras(worker[w].i) >= MaxIntentos /\ worker[w].i = i
  <2>1. worker[w].pc = "fallar"
    BY <1>4 DEF Fallar
  <2>2. worker[w].hechos = job[i].hechos
    BY <1>4 DEF QueueInv, Duenos
  <2>3. Muerta(i)
    BY <1>a, <1>4, <2>1, <2>2 DEF HechosTras, esUltimoIntento, SpentMeansDead
  <2> QED BY <1>4, <2>3, <1>1
<1>5. ~MarcarFalla(w) /\ ~CaducarAgotadaFalla(w)
  BY <1>a DEF MarcarFalla, CaducarAgotadaFalla
<1> QED BY <1>2, <1>3, <1>4, <1>5, WorkerMoves

LEMMA LeavesBackup ==
  ASSUME TypeInv, [Next]_vars, NEW w \in Workers, worker[w].pc = "respaldo", worker'[w] # worker[w]
  PROVE  CaducarAgotada(w) \/ Falla
<1>a. WorkerOK
  BY DEF TypeInv, TypeOK
<1>1. ASSUME NEW v \in Workers, v # w, TrabajoDe(v) PROVE FALSE
  BY <1>1, <1>a
  DEF TrabajoDe, Tomar, CaeWorker, PasoWorker, EnviarOk, EnviarRechazado, EnviarSinRespuesta,
      TrasFallarEnvio, MarcarEnviada, MarcarFalla, CaducarAgotada, CaducarAgotadaFalla,
      Completar, Fallar, WorkerOK
<1>2. CASE TrabajoDe(w)
  BY <1>2
  DEF TrabajoDe, Tomar, CaeWorker, PasoWorker, EnviarOk, EnviarRechazado, EnviarSinRespuesta,
      MarcarEnviada, MarcarFalla, CaducarAgotadaFalla, Completar, Fallar
<1> QED BY <1>1, <1>2, Frames DEF vars, Tick

\* What makes a job fail while at most one thing has: its last attempt, in the
\* hands of a worker that goes on to the backup or knows that the mail left.
LEMMA JobsFail ==
  ASSUME MaxAtascos # 0, TypeInv, QueueInv, [Next]_vars, NEW i \in Invs,
         job[i].estado # "failed", job'[i].estado = "failed", fallos' <= 1
  PROVE  \/ correo[i] # None
         \/ \E w \in Workers : worker'[w].pc = "respaldo" /\ worker'[w].i = i
<1>a. WorkerOK /\ JobOK /\ EnvioOK
  BY DEF TypeInv, TypeOK
<1>b. fallos \in Nat /\ fallos' \in Nat /\ fallos <= fallos'
  BY FaultsGrow
<1>1. ASSUME NEW s \in Senders, Encolar(s) PROVE FALSE
  <2>1. envio[s].i \in Invs
    BY <1>1, <1>a DEF Encolar, EnvioOK
  <2>2. job'[envio[s].i].estado = "waiting" /\ \A j \in Invs : j # envio[s].i => job'[j] = job[j]
    BY <1>1, <1>a, <2>1 DEF Encolar, JobOK, SinJob
  <2> QED BY <2>2
<1>2. ASSUME NEW w \in Workers, Completar(w) PROVE FALSE
  BY <1>2, <1>a DEF Completar, JobOK, FilaJob
<1>3. ASSUME NEW w \in Workers, NEW j \in Invs, Tomar(w, j) PROVE FALSE
  BY <1>3, <1>a DEF Tomar, JobOK, FilaJob
<1>4. ASSUME NEW j \in Invs, Atasco(j) \/ AtascoConVida(j) PROVE FALSE
  <2>1. i = j /\ TrasAtasco(i) /\ job[i].estado = "active"
    BY <1>4, <1>a DEF Atasco, AtascoConVida, TrasAtasco, JobOK
  <2>2. job[i].atascos \in Nat /\ MaxAtascos \in Nat
    BY Supuestos, <1>a DEF JobOK, FilaJob
  <2>3. ~(job[i].atascos < MaxAtascos)
    BY <1>a, <2>1 DEF TrasAtasco, JobOK, FilaJob
  <2>4. job[i].atascos = 0
    <3>1. CASE Atasco(i)
      BY <1>b, <2>2, <3>1 DEF Atasco, QueueInv, Atascos
    <3>2. CASE AtascoConVida(i)
      BY <1>b, <2>2, <3>2 DEF AtascoConVida, Falla, QueueInv, Atascos
    <3> QED BY <1>4, <2>1, <3>1, <3>2
  <2> QED BY <2>2, <2>3, <2>4
<1>5. ASSUME NEW w \in Workers, Fallar(w)
      PROVE  \/ correo[i] # None
             \/ worker'[w].pc = "respaldo" /\ worker'[w].i = i
  <2>1. worker[w].i = i /\ job[i].dueno = w
    BY <1>5, <1>a DEF Fallar, JobOK
  <2>2. HechosTras(i) >= MaxIntentos
    BY <1>5, <1>a, <2>1 DEF Fallar, JobOK, FilaJob
  <2>3. CASE i \in worker[w].sinMarcar
    BY <2>3 DEF QueueInv, SinMarcarSalio
  <2>4. CASE i \notin worker[w].sinMarcar
    <3>1. worker' = [worker EXCEPT ![w] = [worker[w] EXCEPT !.pc = "respaldo"]]
      BY <1>5, <2>1, <2>2, <2>4 DEF Fallar
    <3> QED BY <1>a, <2>1, <3>1 DEF WorkerOK, EstadoWorker
  <2> QED BY <2>3, <2>4
<1> QED BY <1>1, <1>2, <1>3, <1>4, <1>5, WritersOfJob

LEMMA StepDead ==
  ASSUME MaxAtascos # 0, TypeInv, AnswerHolds, PastDates, QueueInv, FreshInv,
         SpentMeansDead, FailedJobLinkIsDead, [Next]_vars
  PROVE  FailedJobLinkIsDead'
<1> SUFFICES ASSUME NEW i \in Invs, job'[i].estado = "failed", fallos' <= 1,
                    \A w \in Workers : ~(worker'[w].pc = "respaldo" /\ worker'[w].i = i)
             PROVE  Muerta(i)'
  BY DEF FailedJobLinkIsDead, Muerta, Viva, Existe
<1>b. fallos \in Nat /\ fallos' \in Nat /\ fallos <= fallos' /\ (Falla => fallos' = fallos + 1)
  BY FaultsGrow DEF Falla
<1>1. inv[i].status # "NUEVA" \/ inv'[i].status # "NUEVA"
  BY StepFresh DEF FreshInv
<1>2. CASE job[i].estado = "failed"
  <2>1. inv[i].status # "NUEVA"
    BY <1>2 DEF FreshInv
  <2>2. CASE \A w \in Workers : ~(worker[w].pc = "respaldo" /\ worker[w].i = i)
    BY <1>2, <1>b, <2>1, <2>2, DeadStays DEF FailedJobLinkIsDead, Muerta
  <2>3. ASSUME NEW w \in Workers, worker[w].pc = "respaldo", worker[w].i = i PROVE Muerta(i)'
    <3>1. worker'[w] # worker[w]
      BY <2>3
    <3>2. CASE CaducarAgotada(w)
      BY <2>3, <3>2, ExpiryKills
    <3>3. CASE Falla
      <4>1. fallos = 0
        BY <1>b, <3>3
      <4> QED BY <2>1, <2>3, <4>1, DeadStays DEF SpentMeansDead
    <3> QED BY <2>3, <3>1, <3>2, <3>3, LeavesBackup
  <2> QED BY <2>2, <2>3
<1>3. CASE job[i].estado # "failed"
  BY <1>3, JobsFail, MailStays DEF Muerta
<1> QED BY <1>2, <1>3

\* A job that failed leaves no link alive in Redis, unless its mail left: no
\* interleaving of workers, retries, stalls and requests breaks it while the
\* infrastructure fails at most once.  BullMQ, as the worker configures it,
\* forgives a job its first stall.
THEOREM FailedJobsLinkIsDead ==
  ASSUME MaxAtascos # 0
  PROVE  Spec => []FailedJobLinkIsDead
<1> DEFINE I == TypeInv /\ AnswerHolds /\ PastDates /\ MailBefore
           J == QueueInv /\ FreshInv /\ SpentMeansDead /\ FailedJobLinkIsDead
<1>1. Init => J
  <2> SUFFICES ASSUME Init PROVE J
    OBVIOUS
  <2>1. QueueInv
    BY Supuestos DEF Init, QueueInv, Duenos, Atascos, SinMarcarSalio, SinTrabajo, SinJob
  <2>2. FreshInv
    BY Supuestos DEF Init, FreshInv, SinTrabajo, SinJob, SinEnvio
  <2>3. SpentMeansDead /\ FailedJobLinkIsDead
    BY DEF Init, SpentMeansDead, FailedJobLinkIsDead, SinTrabajo, SinJob
  <2> QED BY <2>1, <2>2, <2>3
<1>2. I /\ J /\ [Next]_vars => J'
  BY StepQueue, StepFresh, StepSpent, StepDead
<1>3. J => FailedJobLinkIsDead
  OBVIOUS
<1>4. Spec => []I
  BY ReachableMails
<1> HIDE DEF I, J
<1> QED BY <1>1, <1>2, <1>3, <1>4, PTL DEF Spec
=============================================================================
