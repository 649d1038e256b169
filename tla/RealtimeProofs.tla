--------------------------- MODULE RealtimeProofs ---------------------------
(* What TLAPS proves of Realtime, for every value of its constants.        *)
EXTENDS Realtime, TLAPS

-----------------------------------------------------------------------------
(* The inductive invariant *)

Campos == {"on", "u", "exp", "salas", "fichas", "recargadoEn", "rol", "join", "recibidos",
           "planificador"}

\* What a socket has heard, is in or is about to enter; and what opens the room
\* to it, now or with the role it has read, is seen by the socket at once.
SocketOK(e) ==
  /\ DOMAIN e = Campos /\ e.u \in Personas
  /\ "event" \in e.salas \/ "guest.rsvp.updated" \in e.recibidos \/ e.join = "event"
       => e.planificador
  /\ "notification.created" \in e.recibidos => e.u \in haSido
  /\ Planifica(permiso[e.u]) \/ e.rol = "ADMIN" => e.planificador

\* Whom the worker is about to tell, and what there is before the answer.
AvisoOK ==
  /\ aviso.por \subseteq haSido
  /\ \A u \in Personas : EsMiembro(u) => u \in haSido
  /\ aviso.pc = "nada" => /\ aviso.por = {}
                          /\ \A u \in Personas : notificacion[u] = SinFila
                          /\ \A s \in Sockets : "notification.created" \notin enchufe[s].recibidos

RInv ==
  /\ DOMAIN enchufe = Sockets /\ DOMAIN aviso = {"pc", "tomas", "por"}
  /\ permiso \in [Personas -> Permisos]
  /\ notificacion \in [Personas -> Int] /\ instante \in Nat
  /\ \A s \in Sockets : SocketOK(enchufe[s])
  /\ AvisoOK

-----------------------------------------------------------------------------
(* The invariant holds *)

LEMMA RealtimeInitInv == RealtimeInit => RInv
<1> SUFFICES ASSUME RealtimeInit PROVE RInv
  OBVIOUS
<1>1. /\ permiso \in [Personas -> Permisos]
      /\ \A u \in Personas : ~EsMiembro(u) /\ ~Planifica(permiso[u])
  BY DEF RealtimeInit, Permisos, SinMembresia, EsMiembro, Planifica
<1>2. \A s \in Sockets : SocketOK(enchufe[s]) /\ enchufe[s].recibidos = {}
  <2> TAKE s \in Sockets
  <2>1. enchufe[s] = Fuera BY DEF RealtimeInit
  <2>2. DOMAIN Fuera = Campos /\ Fuera.salas = {} /\ Fuera.recibidos = {} /\ Fuera.join = "no"
      /\ Fuera.rol = "USER"
    BY DEF Fuera, Campos
  <2>3. Fuera.u \in Personas
    BY SupuestosRealtime DEF Fuera
  <2> QED BY <1>1, <2>1, <2>2, <2>3 DEF SocketOK
<1>3. DOMAIN enchufe = Sockets /\ DOMAIN aviso = {"pc", "tomas", "por"}
      /\ notificacion \in [Personas -> Int] /\ instante \in Nat
  BY DEF RealtimeInit, SinFila
<1>4. AvisoOK
  BY <1>1, <1>2 DEF RealtimeInit, AvisoOK
<1> QED BY <1>1, <1>2, <1>3, <1>4 DEF RInv

\* An action that touches one socket, leaves what it heard and does not put it
\* in the room, or not to a stranger.
LEMMA OneSocket ==
  ASSUME RInv, NEW s \in Sockets, NEW e,
         enchufe' = [enchufe EXCEPT ![s] = e], SocketOK(e),
         e.recibidos \subseteq enchufe[s].recibidos,
         UNCHANGED deSockets
  PROVE  RInv'
<1>1. \A t \in Sockets : enchufe'[t] = IF t = s THEN e ELSE enchufe[t]
  BY DEF RInv
<1>2. \A t \in Sockets : SocketOK(enchufe'[t])
  BY <1>1 DEF RInv
<1>3. \A t \in Sockets : SocketOK(enchufe[t])'
  BY <1>2 DEF SocketOK, EsMiembro, deSockets
<1>4. AvisoOK'
  BY <1>1 DEF RInv, AvisoOK, EsMiembro, deSockets
<1> QED BY <1>3, <1>4 DEF RInv, deSockets

LEMMA ConectarInv ==
  ASSUME RInv, NEW s \in Sockets, NEW u \in Personas, Conectar(s, u) PROVE RInv'
<1> DEFINE e == [on |-> TRUE, u |-> u, exp |-> instante + VidaToken, salas |-> {"user"},
                 fichas |-> JOINS_POR_MINUTO, recargadoEn |-> instante, rol |-> "USER",
                 join |-> "no", recibidos |-> {}, planificador |-> Planifica(permiso[u])]
<1>1. enchufe' = [enchufe EXCEPT ![s] = e] /\ UNCHANGED deSockets
  BY DEF Conectar
<1>3. SocketOK(e) /\ e.recibidos = {}
  BY DEF SocketOK, Campos
<1> HIDE DEF e
<1> QED BY <1>1, <1>3, OneSocket

LEMMA unirseInv ==
  ASSUME RInv, NEW s \in Sockets, unirse(s) PROVE RInv'
<1> DEFINE e == enchufe[s]
           f == tomarFicha(e)
           j == IF fichasDe(e) >= 1 /\ instante < e.exp THEN "resolve" ELSE "no"
           p == permiso[e.u].rol
           g == [f EXCEPT !.rol = p, !.join = j]
<1>1. enchufe' = [enchufe EXCEPT ![s] = g] /\ UNCHANGED deSockets
  BY DEF unirse
<1>2. DOMAIN f = DOMAIN e /\ \A c \in DOMAIN e \ {"fichas", "recargadoEn"} : f[c] = e[c]
  BY DEF tomarFicha
<1>3. SocketOK(e) BY DEF RInv
<1>4. j # "event" /\ (p = "ADMIN" => e.planificador)
  BY <1>3 DEF SocketOK, Planifica
<1> HIDE DEF f, j, p
<1>5. /\ DOMAIN g = DOMAIN f /\ g.join = j /\ g.rol = p
      /\ \A c \in DOMAIN f \ {"rol", "join"} : g[c] = f[c]
  BY <1>2, <1>3 DEF SocketOK, Campos
<1> HIDE DEF g
<1>6. SocketOK(g) /\ g.recibidos = e.recibidos
  BY <1>2, <1>3, <1>4, <1>5 DEF SocketOK, Campos
<1> QED BY <1>1, <1>6, OneSocket

LEMMA ResolverAccesoInv ==
  ASSUME RInv, NEW s \in Sockets, ResolverAcceso(s) PROVE RInv'
<1> DEFINE e == enchufe[s]
           j == salaPara(accesoDe(e))
           g == [e EXCEPT !.join = j]
<1>1. enchufe' = [enchufe EXCEPT ![s] = g] /\ UNCHANGED deSockets
  BY DEF ResolverAcceso, RInv
<1>2. SocketOK(e) BY DEF RInv
<1>3. j = "event" => Planifica(permiso[e.u]) \/ e.rol = "ADMIN"
  BY DEF salaPara, accesoDe, resolve, buscarMembresiaActiva, Planifica
<1> HIDE DEF j
<1>4. DOMAIN g = DOMAIN e /\ g.join = j /\ \A c \in DOMAIN e \ {"join"} : g[c] = e[c]
  BY <1>2 DEF SocketOK, Campos
<1> HIDE DEF g
<1>5. SocketOK(g) /\ g.recibidos = e.recibidos
  BY <1>2, <1>3, <1>4 DEF SocketOK, Campos
<1> QED BY <1>1, <1>5, OneSocket

LEMMA EntrarSalaInv ==
  ASSUME RInv, NEW s \in Sockets, EntrarSala(s) PROVE RInv'
<1> DEFINE e == enchufe[s]
           S == e.salas \cup IF e.on THEN {e.join} ELSE {}
           f == [e EXCEPT !.join = "no"]
           g == [f EXCEPT !.salas = S]
<1>2. SocketOK(e) BY DEF RInv
<1>1. enchufe' = [enchufe EXCEPT ![s] = g] /\ UNCHANGED deSockets
  BY <1>2 DEF EntrarSala, RInv, SocketOK, Campos
<1>3. "event" \in S => e.planificador
  BY <1>2 DEF SocketOK
<1>4. DOMAIN f = DOMAIN e /\ f.join = "no" /\ \A c \in DOMAIN e \ {"join"} : f[c] = e[c]
  BY <1>2 DEF SocketOK, Campos
<1> HIDE DEF S, f
<1>5. DOMAIN g = DOMAIN e /\ g.salas = S /\ \A c \in DOMAIN e \ {"salas"} : g[c] = f[c]
  BY <1>2, <1>4 DEF SocketOK, Campos
<1> HIDE DEF g
<1>6. SocketOK(g) /\ g.recibidos = e.recibidos
  BY <1>2, <1>3, <1>4, <1>5 DEF SocketOK, Campos
<1> QED BY <1>1, <1>6, OneSocket

LEMMA salirInv ==
  ASSUME RInv, NEW s \in Sockets, salir(s) PROVE RInv'
<1> DEFINE e == enchufe[s]
           S == e.salas \ {"event", "event:vendors"}
           g == [e EXCEPT !.salas = S]
<1>1. enchufe' = [enchufe EXCEPT ![s] = g] /\ UNCHANGED deSockets
  BY DEF salir, RInv
<1>2. SocketOK(e) BY DEF RInv
<1>3. "event" \notin S OBVIOUS
<1> HIDE DEF S
<1>4. DOMAIN g = DOMAIN e /\ g.salas = S /\ \A c \in DOMAIN e \ {"salas"} : g[c] = e[c]
  BY <1>2 DEF SocketOK, Campos
<1> HIDE DEF g
<1>5. SocketOK(g) /\ g.recibidos = e.recibidos
  BY <1>2, <1>3, <1>4 DEF SocketOK, Campos
<1> QED BY <1>1, <1>5, OneSocket

LEMMA DesconectarInv ==
  ASSUME RInv, NEW s \in Sockets, Desconectar(s) PROVE RInv'
<1> DEFINE e == enchufe[s]
           f == [e EXCEPT !.on = FALSE]
           g == [f EXCEPT !.salas = {}]
<1>2. SocketOK(e) BY DEF RInv
<1>1. enchufe' = [enchufe EXCEPT ![s] = g] /\ UNCHANGED deSockets
  BY <1>2 DEF Desconectar, RInv, SocketOK, Campos
<1>4. DOMAIN f = DOMAIN e /\ \A c \in DOMAIN e \ {"on"} : f[c] = e[c]
  BY <1>2 DEF SocketOK, Campos
<1> HIDE DEF f
<1>5. DOMAIN g = DOMAIN e /\ g.salas = {} /\ \A c \in DOMAIN e \ {"salas"} : g[c] = f[c]
  BY <1>2, <1>4 DEF SocketOK, Campos
<1> HIDE DEF g
<1>6. SocketOK(g) /\ g.recibidos = e.recibidos
  BY <1>2, <1>4, <1>5 DEF SocketOK, Campos
<1> QED BY <1>1, <1>6, OneSocket

\* Nobody's socket changes, nor the membership.
LEMMA NoSocket ==
  ASSUME RInv, enchufe' = enchufe, permiso' = permiso, haSido' = haSido
  PROVE  \A s \in Sockets : SocketOK(enchufe[s])'
BY DEF RInv, SocketOK, EsMiembro

LEMMA crearParaMiembrosInv ==
  ASSUME RInv, crearParaMiembros PROVE RInv'
<1>1. \A s \in Sockets : SocketOK(enchufe[s])'
  BY DEF RInv, SocketOK, AvisoOK, EsMiembro, crearParaMiembros
<1>2. aviso'.pc = "confirmado" /\ aviso'.por = {} /\ DOMAIN aviso' = DOMAIN aviso
  BY DEF RInv, AvisoOK, crearParaMiembros
<1>3. AvisoOK'
  BY <1>2 DEF AvisoOK, EsMiembro, crearParaMiembros
<1> QED BY <1>1, <1>2, <1>3 DEF RInv, crearParaMiembros, SinFila, NoLeida

\* The steps of the worker that say nothing.
LEMMA WorkerInv ==
  ASSUME RInv, EncolarAvisoRsvp \/ destinatarios \/ CompletarAviso \/ RepetirAviso
  PROVE  RInv'
<1>1. \A s \in Sockets : SocketOK(enchufe[s])'
  BY NoSocket DEF EncolarAvisoRsvp, destinatarios, CompletarAviso, RepetirAviso
<1>2. /\ aviso'.pc # "nada" /\ DOMAIN aviso' = DOMAIN aviso
      /\ aviso'.por \in {aviso.por, {}, {u \in Personas : EsMiembro(u)}}
  BY DEF RInv, EncolarAvisoRsvp, destinatarios, CompletarAviso, RepetirAviso
<1>3. UNCHANGED <<permiso, haSido, instante, notificacion, enchufe>>
  BY DEF EncolarAvisoRsvp, destinatarios, CompletarAviso, RepetirAviso
<1>4. AvisoOK'
  <2>1. \A u \in Personas : EsMiembro(u)' => u \in haSido'
    BY <1>3 DEF RInv, AvisoOK, EsMiembro
  <2>2. aviso'.por \subseteq haSido'
    BY <1>2, <1>3 DEF RInv, AvisoOK
  <2> QED BY <2>1, <2>2, <1>2 DEF AvisoOK
<1> QED BY <1>1, <1>2, <1>3, <1>4 DEF RInv

\* A notice reaches sockets that may hear it.
LEMMA EmitirInv ==
  ASSUME RInv, NEW S \in SUBSET Sockets, NEW tipo \in Tipos,
         aviso.pc # "nada", aviso'.pc # "nada", DOMAIN aviso' = DOMAIN aviso,
         aviso'.por \subseteq aviso.por,
         \A s \in S : IF tipo = "guest.rsvp.updated" THEN enchufe[s].planificador
                      ELSE enchufe[s].u \in haSido,
         enchufe' = [s \in Sockets |-> IF s \in S THEN [enchufe[s] EXCEPT !.recibidos = @ \cup {tipo}]
                                       ELSE enchufe[s]],
         UNCHANGED <<instante, permiso, notificacion, haSido>>
  PROVE  RInv'
<1>1. \A s \in Sockets : SocketOK(enchufe'[s])
  <2> TAKE s \in Sockets
  <2> DEFINE e == enchufe[s]
             R == e.recibidos \cup {tipo}
             g == [e EXCEPT !.recibidos = R]
  <2>1. SocketOK(e) BY DEF RInv
  <2>2. CASE s \notin S
    BY <2>1, <2>2
  <2>3. CASE s \in S
    <3>1. enchufe'[s] = g BY <2>3
    <3>2. /\ "guest.rsvp.updated" \in R => e.planificador
          /\ "notification.created" \in R => e.u \in haSido
      BY <2>1, <2>3 DEF SocketOK, Tipos
    <3> HIDE DEF R
    <3>3. DOMAIN g = DOMAIN e /\ g.recibidos = R /\ \A c \in DOMAIN e \ {"recibidos"} : g[c] = e[c]
      BY <2>1 DEF SocketOK, Campos
    <3> HIDE DEF g
    <3>4. SocketOK(g)
      BY <2>1, <3>2, <3>3 DEF SocketOK, Campos
    <3> QED BY <3>1, <3>4
  <2> QED BY <2>2, <2>3
<1>2. \A s \in Sockets : SocketOK(enchufe[s])'
  BY <1>1 DEF SocketOK, EsMiembro
<1>3. AvisoOK'
  BY DEF RInv, AvisoOK, EsMiembro
<1> QED BY <1>2, <1>3 DEF RInv

\* Redis lost the PUBLISH.
LEMMA PerdidaInv ==
  ASSUME RInv, aviso.pc # "nada", aviso'.pc # "nada", DOMAIN aviso' = DOMAIN aviso,
         aviso'.por \subseteq aviso.por,
         UNCHANGED <<instante, permiso, notificacion, haSido, enchufe>>
  PROVE  RInv'
<1>1. \A s \in Sockets : SocketOK(enchufe[s])'
  BY NoSocket
<1>2. AvisoOK'
  BY DEF RInv, AvisoOK, EsMiembro
<1> QED BY <1>1, <1>2 DEF RInv

LEMMA EmitirAEventoInv ==
  ASSUME RInv, EmitirAEvento PROVE RInv'
<1>1. /\ aviso.pc # "nada" /\ aviso'.pc # "nada" /\ DOMAIN aviso' = DOMAIN aviso
      /\ aviso'.por = aviso.por /\ UNCHANGED <<instante, permiso, notificacion, haSido>>
  BY DEF EmitirAEvento, RInv
<1> DEFINE S == {s \in Sockets : enchufe[s].on /\ "event" \in enchufe[s].salas}
<1>2. CASE UNCHANGED enchufe
  BY <1>1, <1>2, PerdidaInv
<1>3. CASE enchufe' = [s \in Sockets |-> IF enchufe[s].on /\ "event" \in enchufe[s].salas
                        THEN [enchufe[s] EXCEPT !.recibidos = @ \cup {"guest.rsvp.updated"}]
                        ELSE enchufe[s]]
  <2>1. enchufe' = [s \in Sockets |-> IF s \in S
                      THEN [enchufe[s] EXCEPT !.recibidos = @ \cup {"guest.rsvp.updated"}]
                      ELSE enchufe[s]]
    BY <1>3
  <2>2. \A s \in S : enchufe[s].planificador
    BY DEF RInv, SocketOK
  <2>3. S \in SUBSET Sockets /\ "guest.rsvp.updated" \in Tipos
    BY DEF Tipos
  <2> HIDE DEF S
  <2> QED BY <1>1, <2>1, <2>2, <2>3, EmitirInv
<1> QED BY <1>2, <1>3 DEF EmitirAEvento, Emitir

LEMMA EmitirAUsuarioInv ==
  ASSUME RInv, NEW u \in Personas, EmitirAUsuario(u) PROVE RInv'
<1>1. /\ aviso.pc # "nada" /\ aviso'.pc # "nada" /\ DOMAIN aviso' = DOMAIN aviso
      /\ aviso'.por \subseteq aviso.por /\ UNCHANGED <<instante, permiso, notificacion, haSido>>
  BY DEF EmitirAUsuario, RInv
<1>2. u \in haSido
  BY DEF EmitirAUsuario, RInv, AvisoOK
<1> DEFINE S == {s \in Sockets : enchufe[s].on /\ "user" \in enchufe[s].salas /\ enchufe[s].u = u}
<1>3. CASE UNCHANGED enchufe
  BY <1>1, <1>3, PerdidaInv
<1>4. CASE enchufe' = [s \in Sockets |->
                        IF enchufe[s].on /\ "user" \in enchufe[s].salas /\ enchufe[s].u = u
                        THEN [enchufe[s] EXCEPT !.recibidos = @ \cup {"notification.created"}]
                        ELSE enchufe[s]]
  <2>1. enchufe' = [s \in Sockets |-> IF s \in S
                      THEN [enchufe[s] EXCEPT !.recibidos = @ \cup {"notification.created"}]
                      ELSE enchufe[s]]
    BY <1>4
  <2>2. \A s \in S : enchufe[s].u \in haSido
    BY <1>2
  <2>3. S \in SUBSET Sockets /\ "notification.created" \in Tipos
    BY DEF Tipos
  <2> HIDE DEF S
  <2> QED BY <1>1, <2>1, <2>2, <2>3, EmitirInv
<1> QED BY <1>3, <1>4 DEF EmitirAUsuario, Emitir

LEMMA CambiarPermisoInv ==
  ASSUME RInv, NEW u \in Personas, NEW p \in Permisos, CambiarPermiso(u, p) PROVE RInv'
<1> DEFINE activa == p.m.status = "ACTIVE"
           planea == Planifica(p)
<1>1. /\ permiso' = [permiso EXCEPT ![u] = p] /\ permiso' \in [Personas -> Permisos]
      /\ haSido' = IF activa THEN haSido \cup {u} ELSE haSido
      /\ UNCHANGED <<instante, notificacion, aviso>>
  BY DEF CambiarPermiso, RInv
<1>2. \A v \in Personas : EsMiembro(v)' = IF v = u THEN activa ELSE EsMiembro(v)
  BY <1>1 DEF EsMiembro, RInv
<1>p. \A v \in Personas : Planifica(permiso'[v]) <=> IF v = u THEN planea ELSE Planifica(permiso[v])
  BY <1>1 DEF RInv
<1>3. \A s \in Sockets : SocketOK(enchufe[s])' /\ enchufe'[s].recibidos = enchufe[s].recibidos
  <2> TAKE s \in Sockets
  <2> DEFINE e == enchufe[s]
             b == e.planificador \/ (e.u = u /\ planea)
             g == [e EXCEPT !.planificador = b]
  <2>1. SocketOK(e) BY DEF RInv
  <2>2. enchufe'[s] = g BY <2>1 DEF CambiarPermiso, SocketOK, Campos
  <2>3. b = (e.planificador \/ (e.u = u /\ planea)) OBVIOUS
  <2> HIDE DEF b, activa, planea
  <2>4. DOMAIN g = DOMAIN e /\ g.planificador = b /\ \A c \in DOMAIN e \ {"planificador"} : g[c] = e[c]
    BY <2>1 DEF SocketOK, Campos
  <2> HIDE DEF g
  <2>5. g.u = e.u /\ g.salas = e.salas /\ g.recibidos = e.recibidos /\ g.join = e.join
        /\ g.rol = e.rol /\ DOMAIN g = Campos
    BY <2>1, <2>4 DEF SocketOK, Campos
  <2>6. e.planificador => g.planificador
    BY <2>3, <2>4
  <2>9. g.u \in Personas
    BY <2>1, <2>5 DEF SocketOK
  <2>7. Planifica(permiso'[g.u]) \/ g.rol = "ADMIN" => g.planificador
    BY <1>p, <2>1, <2>3, <2>4, <2>5, <2>9 DEF SocketOK
  <2>8. haSido \subseteq haSido'
    BY <1>1
  <2>10. SocketOK(enchufe[s])'
    BY <2>1, <2>2, <2>5, <2>6, <2>7, <2>8, <2>9 DEF SocketOK
  <2> QED BY <2>2, <2>5, <2>10
<1>4. AvisoOK'
  BY <1>1, <1>2, <1>3 DEF RInv, AvisoOK
<1>5. DOMAIN enchufe' = Sockets
  BY DEF CambiarPermiso
<1> QED BY <1>1, <1>3, <1>4, <1>5 DEF RInv

\* A reading, and the clock.
LEMMA marcarLeidaInv ==
  ASSUME RInv, (\E u \in Personas : marcarLeida(u)) \/ Pasa PROVE RInv'
<1>1. \A s \in Sockets : SocketOK(enchufe[s])'
  BY NoSocket DEF marcarLeida, Pasa
<1>2. /\ UNCHANGED <<permiso, aviso, enchufe, haSido>> /\ instante' \in Nat
      /\ notificacion' \in [Personas -> Int]
      /\ \A u \in Personas : notificacion[u] = SinFila => notificacion'[u] = SinFila
  BY DEF marcarLeida, Pasa, RInv
<1> QED BY <1>1, <1>2 DEF RInv, AvisoOK, EsMiembro

LEMMA RealtimeNextInv == RInv /\ [RealtimeNext]_realtimeVars => RInv'
<1> SUFFICES ASSUME RInv, [RealtimeNext]_realtimeVars PROVE RInv'
  OBVIOUS
<1>1. CASE UNCHANGED realtimeVars
  BY <1>1 DEF RInv, SocketOK, AvisoOK, EsMiembro, realtimeVars
<1>2. CASE \E s \in Sockets : \/ unirse(s) \/ ResolverAcceso(s) \/ EntrarSala(s) \/ salir(s)
                              \/ Desconectar(s) \/ \E u \in Personas : Conectar(s, u)
  BY <1>2, unirseInv, ResolverAccesoInv, EntrarSalaInv, salirInv, DesconectarInv, ConectarInv
<1>3. CASE crearParaMiembros \/ EncolarAvisoRsvp \/ destinatarios \/ CompletarAviso \/ RepetirAviso
  BY <1>3, crearParaMiembrosInv, WorkerInv
<1>4. CASE EmitirAEvento \/ \E u \in Personas : EmitirAUsuario(u)
  BY <1>4, EmitirAEventoInv, EmitirAUsuarioInv
<1>5. CASE Pasa \/ \E u \in Personas : marcarLeida(u)
  BY <1>5, marcarLeidaInv
<1>6. CASE \E u \in Personas : \E p \in Permisos : CambiarPermiso(u, p)
  BY <1>6, CambiarPermisoInv
<1> QED BY <1>1, <1>2, <1>3, <1>4, <1>5, <1>6 DEF RealtimeNext

LEMMA RealtimeInv == RealtimeSpec => []RInv
BY RealtimeInitInv, RealtimeNextInv, PTL DEF RealtimeSpec

-----------------------------------------------------------------------------
(* Theorems *)

\* What is told of guests reaches only who was a planner of the event or an
\* ADMIN while connected, for any number of users and sockets and whatever
\* changes between the reads of a "join" or of the worker and what they do
\* with them.
THEOREM OnlyPlannersHear == RealtimeSpec => []NoticesReachOnlyPlanners
<1>1. RInv => NoticesReachOnlyPlanners
  BY DEF RInv, SocketOK, NoticesReachOnlyPlanners
<1> QED BY <1>1, RealtimeInv, PTL

\* A notification that is there stays, and keeps its first readAt.
THEOREM ReadingStays == RealtimeSpec => ReadingIsKept
<1>1. RInv /\ [RealtimeNext]_realtimeVars =>
        [\A u \in Personas :
           /\ notificacion[u] \notin {SinFila, NoLeida} => notificacion'[u] = notificacion[u]
           /\ notificacion[u] # SinFila => notificacion'[u] # SinFila]_realtimeVars
  <2> SUFFICES ASSUME RInv, RealtimeNext, NEW u \in Personas
               PROVE  /\ notificacion[u] \notin {SinFila, NoLeida} => notificacion'[u] = notificacion[u]
                      /\ notificacion[u] # SinFila => notificacion'[u] # SinFila
    OBVIOUS
  <2>1. CASE crearParaMiembros
    BY <2>1 DEF crearParaMiembros, RInv, AvisoOK
  <2>2. CASE \E v \in Personas : marcarLeida(v)
    BY <2>2 DEF marcarLeida, RInv, SinFila, NoLeida
  <2>3. CASE UNCHANGED notificacion
    BY <2>3
  <2>4. RealtimeNext => \/ crearParaMiembros \/ UNCHANGED notificacion
                        \/ \E v \in Personas : marcarLeida(v)
    BY DEF RealtimeNext, Conectar, unirse, ResolverAcceso, EntrarSala, salir, Desconectar,
           EncolarAvisoRsvp, EmitirAEvento, destinatarios, CompletarAviso, RepetirAviso,
           EmitirAUsuario, CambiarPermiso, Pasa, deSockets
  <2> QED BY <2>1, <2>2, <2>3, <2>4
<1> QED BY <1>1, RealtimeInv, PTL DEF RealtimeSpec, ReadingIsKept

-----------------------------------------------------------------------------
(* Types *)

\* What a socket holds, t being the time.
SocketTyped(e, t) ==
  /\ e.salas \subseteq Salas /\ e.recibidos \subseteq Tipos
  /\ e.fichas \in 0..JOINS_POR_MINUTO /\ e.recargadoEn \in 0..t

RealtimeTypes ==
  /\ instante \in 0..MaxInstante
  /\ aviso.por \subseteq Personas /\ aviso.tomas \in 0..MaxTomas
  /\ \A s \in Sockets : SocketTyped(enchufe[s], instante)

LEMMA InitTyped == RealtimeInit => RealtimeTypes
BY SupuestosRealtime DEF RealtimeInit, RealtimeTypes, SocketTyped, Fuera

\* A bucket never holds more than its capacity, nor less than nothing.
LEMMA BucketHolds ==
  ASSUME instante \in Nat, NEW e, SocketTyped(e, instante)
  PROVE  /\ fichasDe(e) \in 0..JOINS_POR_MINUTO
         /\ fichasDe(e) >= 1 => fichasDe(e) - 1 \in 0..JOINS_POR_MINUTO
<1>1. PICK pasado \in Nat : pasado = instante - e.recargadoEn
  BY DEF SocketTyped
<1>2. PICK gana \in Nat : gana = pasado * Recarga
  BY SupuestosRealtime
<1>3. fichasDe(e) = Menor(JOINS_POR_MINUTO, e.fichas + gana)
  BY <1>1, <1>2 DEF fichasDe
<1>4. e.fichas \in Nat /\ JOINS_POR_MINUTO \in Nat
  BY SupuestosRealtime DEF SocketTyped
<1>5. fichasDe(e) \in Nat /\ fichasDe(e) <= JOINS_POR_MINUTO
  BY <1>3, <1>4 DEF Menor
<1> QED BY <1>4, <1>5

\* An action of one socket.
LEMMA OneSocketTyped ==
  ASSUME RInv, RealtimeTypes, NEW s \in Sockets, NEW e,
         enchufe' = [enchufe EXCEPT ![s] = e], SocketTyped(e, instante), UNCHANGED deSockets
  PROVE  RealtimeTypes'
<1>1. \A t \in Sockets : enchufe'[t] = IF t = s THEN e ELSE enchufe[t]
  BY DEF RInv
<1>2. \A t \in Sockets : SocketTyped(enchufe'[t], instante)
  BY <1>1 DEF RealtimeTypes
<1>3. \A t \in Sockets : SocketTyped(enchufe[t], instante)'
  BY <1>2 DEF SocketTyped, deSockets
<1> QED BY <1>3 DEF RealtimeTypes, deSockets

LEMMA JoinTyped ==
  ASSUME RInv, RealtimeTypes, NEW s \in Sockets, unirse(s) PROVE RealtimeTypes'
<1> DEFINE e == enchufe[s]
           n == IF fichasDe(e) < 1 THEN fichasDe(e) ELSE fichasDe(e) - 1
           j == IF fichasDe(e) >= 1 /\ instante < e.exp THEN "resolve" ELSE "no"
           p == permiso[e.u].rol
<1>1. SocketOK(e) /\ SocketTyped(e, instante) /\ instante \in Nat
  BY DEF RInv, RealtimeTypes
<1>2. n \in 0..JOINS_POR_MINUTO
  BY <1>1, BucketHolds
<1>3. enchufe' = [enchufe EXCEPT ![s] = [tomarFicha(e) EXCEPT !.rol = p, !.join = j]] /\ UNCHANGED deSockets
  BY DEF unirse
<1>4. tomarFicha(e) = [e EXCEPT !.fichas = n, !.recargadoEn = instante]
  BY DEF tomarFicha
<1> HIDE DEF n, j, p
<1>5. PICK g : g = [[e EXCEPT !.fichas = n, !.recargadoEn = instante] EXCEPT !.rol = p, !.join = j]
  OBVIOUS
<1>6. g.salas = e.salas /\ g.recibidos = e.recibidos /\ g.fichas = n /\ g.recargadoEn = instante
  BY <1>1, <1>5 DEF SocketOK, Campos
<1>7. SocketTyped(g, instante)
  BY <1>1, <1>2, <1>6 DEF SocketTyped
<1> QED BY <1>3, <1>4, <1>5, <1>7, OneSocketTyped

LEMMA OtherSocketsTyped ==
  ASSUME RInv, RealtimeTypes, NEW s \in Sockets,
         \/ ResolverAcceso(s) \/ EntrarSala(s) \/ salir(s) \/ Desconectar(s)
         \/ \E u \in Personas : Conectar(s, u)
  PROVE  RealtimeTypes'
<1> DEFINE e == enchufe[s]
<1>1. SocketOK(e) /\ SocketTyped(e, instante) /\ instante \in Nat
  BY DEF RInv, RealtimeTypes
<1>2. CASE ResolverAcceso(s)
  <2>1. PICK g : g = [e EXCEPT !.join = salaPara(accesoDe(e))]
    OBVIOUS
  <2>2. enchufe' = [enchufe EXCEPT ![s] = g] /\ UNCHANGED deSockets
    BY <1>2, <2>1 DEF ResolverAcceso, RInv
  <2>3. SocketTyped(g, instante)
    BY <1>1, <2>1 DEF SocketTyped, SocketOK, Campos
  <2> QED BY <2>2, <2>3, OneSocketTyped
<1>3. CASE EntrarSala(s)
  <2>1. PICK S \in SUBSET Salas : S = e.salas \cup IF e.on THEN {e.join} ELSE {}
    BY <1>1, <1>3 DEF EntrarSala, SocketTyped
  <2>2. PICK g : g = [[e EXCEPT !.join = "no"] EXCEPT !.salas = S]
    OBVIOUS
  <2>3. enchufe' = [enchufe EXCEPT ![s] = g] /\ UNCHANGED deSockets
    BY <1>1, <1>3, <2>1, <2>2 DEF EntrarSala, RInv, SocketOK, Campos
  <2>4. SocketTyped(g, instante)
    BY <1>1, <2>1, <2>2 DEF SocketTyped, SocketOK, Campos
  <2> QED BY <2>3, <2>4, OneSocketTyped
<1>4. CASE salir(s)
  <2>1. PICK S \in SUBSET Salas : S = e.salas \ {"event", "event:vendors"}
    BY <1>1 DEF SocketTyped
  <2>2. PICK g : g = [e EXCEPT !.salas = S]
    OBVIOUS
  <2>3. enchufe' = [enchufe EXCEPT ![s] = g] /\ UNCHANGED deSockets
    BY <1>4, <2>1, <2>2 DEF salir, RInv
  <2>4. SocketTyped(g, instante)
    BY <1>1, <2>1, <2>2 DEF SocketTyped, SocketOK, Campos
  <2> QED BY <2>3, <2>4, OneSocketTyped
<1>5. CASE Desconectar(s)
  <2>1. PICK g : g = [[e EXCEPT !.on = FALSE] EXCEPT !.salas = {}]
    OBVIOUS
  <2>2. enchufe' = [enchufe EXCEPT ![s] = g] /\ UNCHANGED deSockets
    BY <1>1, <1>5, <2>1 DEF Desconectar, RInv, SocketOK, Campos
  <2>3. SocketTyped(g, instante)
    BY <1>1, <2>1 DEF SocketTyped, SocketOK, Campos
  <2> QED BY <2>2, <2>3, OneSocketTyped
<1>6. CASE \E u \in Personas : Conectar(s, u)
  <2>1. PICK u \in Personas : Conectar(s, u)
    BY <1>6
  <2>2. PICK g : g = [on |-> TRUE, u |-> u, exp |-> instante + VidaToken, salas |-> {"user"},
                      fichas |-> JOINS_POR_MINUTO, recargadoEn |-> instante, rol |-> "USER",
                      join |-> "no", recibidos |-> {}, planificador |-> Planifica(permiso[u])]
    OBVIOUS
  <2>3. enchufe' = [enchufe EXCEPT ![s] = g] /\ UNCHANGED deSockets
    BY <2>1, <2>2 DEF Conectar
  <2>4. SocketTyped(g, instante)
    BY <1>1, <2>2, SupuestosRealtime DEF SocketTyped, Salas
  <2> QED BY <2>3, <2>4, OneSocketTyped
<1> QED BY <1>2, <1>3, <1>4, <1>5, <1>6

\* A PUBLISH reaches sockets, or a change of membership does.
LEMMA AllSocketsTyped ==
  ASSUME RInv, RealtimeTypes, UNCHANGED instante,
         NEW R \in SUBSET Tipos,
         \A s \in Sockets : /\ enchufe'[s].salas = enchufe[s].salas
                            /\ enchufe'[s].fichas = enchufe[s].fichas
                            /\ enchufe'[s].recargadoEn = enchufe[s].recargadoEn
                            /\ enchufe'[s].recibidos \subseteq enchufe[s].recibidos \cup R
  PROVE  \A s \in Sockets : SocketTyped(enchufe[s], instante)'
<1>1. \A s \in Sockets : SocketTyped(enchufe[s], instante)
  BY DEF RealtimeTypes
<1> QED BY <1>1 DEF SocketTyped

LEMMA EmissionsTyped ==
  ASSUME RInv, RealtimeTypes, EmitirAEvento \/ \E u \in Personas : EmitirAUsuario(u)
  PROVE  RealtimeTypes'
<1>1. \A s \in Sockets : SocketOK(enchufe[s])
  BY DEF RInv
<1>2. PICK tipo \in Tipos, S \in SUBSET Sockets :
        \/ UNCHANGED enchufe
        \/ enchufe' = [s \in Sockets |-> IF s \in S
                                         THEN [enchufe[s] EXCEPT !.recibidos = @ \cup {tipo}]
                                         ELSE enchufe[s]]
  <2>1. CASE EmitirAEvento
    <3> DEFINE S == {s \in Sockets : enchufe[s].on /\ "event" \in enchufe[s].salas}
               tipo == "guest.rsvp.updated"
    <3>1. \/ UNCHANGED enchufe
          \/ enchufe' = [s \in Sockets |-> IF s \in S
                                           THEN [enchufe[s] EXCEPT !.recibidos = @ \cup {tipo}]
                                           ELSE enchufe[s]]
      BY <2>1 DEF EmitirAEvento, Emitir
    <3>2. tipo \in Tipos /\ S \in SUBSET Sockets
      BY DEF Tipos
    <3> HIDE DEF S, tipo
    <3> QED BY <3>1, <3>2
  <2>2. CASE \E u \in Personas : EmitirAUsuario(u)
    <3>1. PICK u \in Personas : EmitirAUsuario(u)
      BY <2>2
    <3> DEFINE S == {s \in Sockets : enchufe[s].on /\ "user" \in enchufe[s].salas
                                     /\ enchufe[s].u = u}
               tipo == "notification.created"
    <3>2. \/ UNCHANGED enchufe
          \/ enchufe' = [s \in Sockets |-> IF s \in S
                                           THEN [enchufe[s] EXCEPT !.recibidos = @ \cup {tipo}]
                                           ELSE enchufe[s]]
      BY <3>1 DEF EmitirAUsuario, Emitir
    <3>3. tipo \in Tipos /\ S \in SUBSET Sockets
      BY DEF Tipos
    <3> HIDE DEF S, tipo
    <3> QED BY <3>2, <3>3
  <2> QED BY <2>1, <2>2
<1>3. \A s \in Sockets : /\ enchufe'[s].salas = enchufe[s].salas
                         /\ enchufe'[s].fichas = enchufe[s].fichas
                         /\ enchufe'[s].recargadoEn = enchufe[s].recargadoEn
                         /\ enchufe'[s].recibidos \subseteq enchufe[s].recibidos \cup {tipo}
  <2> TAKE s \in Sockets
  <2>1. \/ enchufe'[s] = enchufe[s]
        \/ enchufe'[s] = [enchufe[s] EXCEPT !.recibidos = @ \cup {tipo}]
    BY <1>2
  <2> QED BY <1>1, <2>1 DEF SocketOK, Campos
<1>4. UNCHANGED instante /\ aviso'.por \subseteq aviso.por /\ aviso'.tomas \in 0..MaxTomas
  <2>1. aviso.tomas \in 0..MaxTomas /\ MaxTomas \in Nat
    BY SupuestosRealtime DEF RealtimeTypes
  <2>2. CASE EmitirAEvento
    <3>1. aviso.tomas < MaxTomas /\ aviso'.tomas = aviso.tomas + 1 /\ aviso'.por = aviso.por
      BY <2>2 DEF EmitirAEvento, RInv
    <3> QED BY <2>1, <2>2, <3>1 DEF EmitirAEvento
  <2>3. CASE \E u \in Personas : EmitirAUsuario(u)
    BY <2>1, <2>3 DEF EmitirAUsuario, RInv
  <2> QED BY <2>2, <2>3
<1>5. {tipo} \in SUBSET Tipos
  BY <1>2
<1>6. \A s \in Sockets : SocketTyped(enchufe[s], instante)'
  BY <1>3, <1>4, <1>5, AllSocketsTyped
<1> QED BY <1>4, <1>6 DEF RealtimeTypes

LEMMA RestTyped ==
  ASSUME RInv, RealtimeTypes,
         \/ crearParaMiembros \/ EncolarAvisoRsvp \/ destinatarios \/ CompletarAviso
         \/ RepetirAviso \/ Pasa \/ \E u \in Personas : marcarLeida(u)
  PROVE  RealtimeTypes'
<1>1. UNCHANGED enchufe
  BY DEF crearParaMiembros, EncolarAvisoRsvp, destinatarios, CompletarAviso, RepetirAviso, Pasa,
         marcarLeida
<1>2. instante' \in 0..MaxInstante /\ instante <= instante'
  BY SupuestosRealtime
     DEF crearParaMiembros, EncolarAvisoRsvp, destinatarios, CompletarAviso, RepetirAviso, Pasa,
         marcarLeida, RealtimeTypes
<1>3. aviso'.tomas = aviso.tomas /\ aviso'.por \in {aviso.por, {}, {u \in Personas : EsMiembro(u)}}
  BY DEF crearParaMiembros, EncolarAvisoRsvp, destinatarios, CompletarAviso, RepetirAviso, Pasa,
         marcarLeida, RInv
<1>4. \A s \in Sockets : SocketTyped(enchufe[s], instante)'
  <2> SUFFICES ASSUME NEW s \in Sockets PROVE SocketTyped(enchufe[s], instante)'
    OBVIOUS
  <2>1. SocketTyped(enchufe[s], instante)
    BY DEF RealtimeTypes
  <2> QED BY <1>1, <1>2, <2>1, SupuestosRealtime DEF SocketTyped, RealtimeTypes
<1> QED BY <1>2, <1>3, <1>4 DEF RealtimeTypes

LEMMA ChangesTyped ==
  ASSUME RInv, RealtimeTypes, NEW u \in Personas, NEW p \in Permisos, CambiarPermiso(u, p)
  PROVE  RealtimeTypes'
<1>1. \A s \in Sockets : /\ enchufe'[s].salas = enchufe[s].salas
                         /\ enchufe'[s].fichas = enchufe[s].fichas
                         /\ enchufe'[s].recargadoEn = enchufe[s].recargadoEn
                         /\ enchufe'[s].recibidos \subseteq enchufe[s].recibidos \cup {}
  <2> TAKE s \in Sockets
  <2>1. PICK b : b = (enchufe[s].planificador \/ (enchufe[s].u = u /\ Planifica(p)))
    OBVIOUS
  <2>2. SocketOK(enchufe[s])
    BY DEF RInv
  <2>3. enchufe'[s] = [enchufe[s] EXCEPT !.planificador = b]
    BY <2>1, <2>2 DEF CambiarPermiso, SocketOK, Campos
  <2> QED BY <2>2, <2>3 DEF SocketOK, Campos
<1>2. UNCHANGED <<instante, aviso>>
  BY DEF CambiarPermiso
<1>3. {} \in SUBSET Tipos
  OBVIOUS
<1>4. \A s \in Sockets : SocketTyped(enchufe[s], instante)'
  BY <1>1, <1>2, <1>3, AllSocketsTyped
<1> QED BY <1>2, <1>4 DEF RealtimeTypes

LEMMA StepTyped == RInv /\ RealtimeTypes /\ [RealtimeNext]_realtimeVars => RealtimeTypes'
<1> SUFFICES ASSUME RInv, RealtimeTypes, [RealtimeNext]_realtimeVars PROVE RealtimeTypes'
  OBVIOUS
<1>1. CASE UNCHANGED realtimeVars
  BY <1>1 DEF RealtimeTypes, SocketTyped, realtimeVars
<1>2. CASE RealtimeNext
  BY <1>2, JoinTyped, OtherSocketsTyped, EmissionsTyped, RestTyped, ChangesTyped DEF RealtimeNext
<1> QED BY <1>1, <1>2

\* Rooms, notices and the bucket of each socket keep their range: a bucket
\* refilled by the clock never goes over its capacity, nor below zero.
THEOREM RealtimeTyped == RealtimeSpec => []RealtimeTypeOK
<1>1. RealtimeInit => RealtimeTypes
  BY InitTyped
<1>2. RInv /\ RInv' /\ RealtimeTypes /\ [RealtimeNext]_realtimeVars => RealtimeTypes'
  BY StepTyped
<1>3. RInv /\ RealtimeTypes => RealtimeTypeOK
  BY DEF RInv, RealtimeTypes, SocketTyped, RealtimeTypeOK
<1> QED BY <1>1, <1>2, <1>3, RealtimeInv, PTL DEF RealtimeSpec
=============================================================================
