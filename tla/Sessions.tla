------------------------------- MODULE Sessions -------------------------------
(***************************************************************************)
(* The sessions of one user and the resets of their password               *)
(* (src/src/modules/auth): login, rotation of the refresh token with its   *)
(* grace window, logout, "forgot my password" and the reset that revokes   *)
(* every session.                                                          *)
(*                                                                         *)
(* A session is one refresh token.  Rotating it revokes it and creates its *)
(* child in the same family.  Requests interleave at every await; what a   *)
(* transaction wrote is locked and shows at its commit, and rotar,         *)
(* revocarFamilia and revocarTodasDeUsuario also take an advisory lock per *)
(* family.  An updateMany first selects its rows, on what is committed,    *)
(* and then waits for the locks of those rows.                             *)
(***************************************************************************)
EXTENDS Integers, FiniteSets

CONSTANTS Sesiones,    \* session ids, with their tokens
          Familias,    \* family ids; each login opens one
          Peticiones,  \* concurrent POST /auth/refresh and /auth/logout
          Fichas,      \* password_reset_tokens ids
          Olvidos,     \* concurrent POST /auth/forgot-password
          Resets,      \* concurrent POST /auth/reset-password
          SoloCookie,  \* requests carry the browser's cookie, or any token it had
          Vida,        \* REFRESH_TTL_DAYS, in ticks
          Ventana,     \* VENTANA_GRACIA_MS, in ticks
          VidaFicha,   \* PASSWORD_RESET_TTL_MINUTES, in ticks
          MaxReloj,    \* bound of the clock
          MaxFallos,   \* bound of the infrastructure faults
          None         \* null

ASSUME SupuestosSesion ==
  /\ None \notin Sesiones \cup Familias \cup Fichas
  /\ None \notin Nat
  /\ IsFiniteSet(Fichas)
  /\ SoloCookie \in BOOLEAN
  /\ Vida \in Nat \ {0} /\ VidaFicha \in Nat \ {0} /\ Ventana \in Nat
  /\ MaxReloj \in Nat /\ MaxFallos \in Nat

VARIABLES
  reloj,     \* the clock
  fallos,    \* infrastructure faults so far
  sesion,    \* table sessions
  clave,     \* times the password was changed
  ficha,     \* table password_reset_tokens
  cola,      \* jobs of the queue "email": <<"enlace" or "cambio", token>>
  entregado, \* sessions whose token reached the browser
  cookie,    \* the token each browser keeps: that of the last answer
  peticion,  \* state of each refresh or logout
  olvido,    \* state of each forgot-password, which runs in the background
  reset      \* state of each reset-password

vars == <<reloj, fallos, sesion, clave, ficha, cola, entregado, cookie, peticion,
          olvido, reset>>

FilaSesion == [familia: Familias \cup {None}, expiresAt: Nat, revokedAt: Nat \cup {None}]
FilaFicha == [status: {"NUEVA", "PENDING", "CONSUMED"}, expiresAt: Nat]
EstadoPeticion == [pc: {"libre", "leer", "rotar", "cas", "insertar", "firmar", "viva",
                        "revocar", "revocando"},
                   logout: BOOLEAN, s: Sesiones \cup {None}, o: Sesiones \cup {None},
                   cad: Nat, filas: SUBSET Sesiones]
EstadoOlvido == [pc: {"libre", "caducar", "crear", "encolar"}, ahora: Nat,
                 k: Fichas \cup {None}]
EstadoReset == [pc: {"libre", "consumir", "clave", "listar", "cerrojos", "revocando",
                     "caducar", "aviso"},
                k: Fichas \cup {None}, ahora: Nat, familias: SUBSET Familias,
                faltan: SUBSET Familias, filas: SUBSET Sesiones]

SinPeticion == [pc |-> "libre", logout |-> FALSE, s |-> None, o |-> None, cad |-> 0,
                filas |-> {}]
SinOlvido == [pc |-> "libre", ahora |-> 0, k |-> None]
SinReset == [pc |-> "libre", k |-> None, ahora |-> 0, familias |-> {}, faltan |-> {},
             filas |-> {}]

Familia(s) == sesion[s].familia

\* revokedAt: null.  It says nothing of the expiry.
Viva(s) == Familia(s) # None /\ sesion[s].revokedAt = None
VivasDe(f) == {s \in Sesiones : Viva(s) /\ Familia(s) = f}

\* The tokens caducarVigentesDe selects.
FichasVigentes(t) == {k \in Fichas : ficha[k].status = "PENDING" /\ ficha[k].expiresAt > t}

\* pg_advisory_xact_lock of a family, and row locks of the open transactions.
CerrojoDe(q) == reset[q].familias \ reset[q].faltan
FamiliaBloqueada(f) ==
  \/ \E p \in Peticiones : /\ peticion[p].pc \in {"cas", "insertar", "revocando"}
                           /\ f = Familia(peticion[p].o)
  \/ \E q \in Resets : f \in CerrojoDe(q)
SesionBloqueada(s) ==
  \/ \E p \in Peticiones : peticion[p].pc = "insertar" /\ peticion[p].o = s
  \/ \E q \in Resets : reset[q].pc = "caducar" /\ s \in reset[q].filas
EnReset(q) == reset[q].pc \in {"clave", "listar", "cerrojos", "revocando", "caducar"}
FichaBloqueada(k) == \E q \in Resets : EnReset(q) /\ reset[q].k = k
UsuarioBloqueado == \E q \in Resets : EnReset(q) /\ reset[q].pc # "clave"

Falla == fallos < MaxFallos /\ fallos' = fallos + 1

Init ==
  /\ reloj = 0 /\ fallos = 0 /\ clave = 0
  /\ sesion = [s \in Sesiones |-> [familia |-> None, expiresAt |-> 0, revokedAt |-> None]]
  /\ ficha = [k \in Fichas |-> [status |-> "NUEVA", expiresAt |-> 0]]
  /\ cola = {} /\ entregado = {}
  /\ cookie = [f \in Familias |-> None]
  /\ peticion = [p \in Peticiones |-> SinPeticion]
  /\ olvido = [v \in Olvidos |-> SinOlvido]
  /\ reset = [q \in Resets |-> SinReset]

Tick ==
  /\ reloj < MaxReloj
  /\ reloj' = reloj + 1
  /\ UNCHANGED <<fallos, sesion, clave, ficha, cola, entregado, cookie, peticion, olvido,
                 reset>>

-----------------------------------------------------------------------------
(* Login, refresh and logout *)

deClave == <<clave, ficha, cola, olvido, reset>>

Nueva(f, cad) == [familia |-> f, expiresAt |-> cad, revokedAt |-> None]

\* Bound: a request only starts if an id is left for the session it may create.
QuedanSesiones ==
  Cardinality({p \in Peticiones : peticion[p].pc # "libre" /\ ~peticion[p].logout})
    < Cardinality({s \in Sesiones : Familia(s) = None})

\* LoginUseCase: nothing it read before (the hash it verified, the user) is
\* kept in the session, so the creation may come at any later moment.
Login(s, f) ==
  /\ Familia(s) = None /\ QuedanSesiones
  /\ \A t \in Sesiones : Familia(t) # f
  /\ sesion' = [sesion EXCEPT ![s] = Nueva(f, reloj + Vida)]
  /\ entregado' = entregado \cup {s}
  /\ cookie' = [cookie EXCEPT ![f] = s]
  /\ UNCHANGED <<reloj, fallos, peticion, deClave>>

\* A request leaves the browser with a token.  Logout goes straight to the
\* family of its token.
Pedir(p, s, logout) ==
  /\ peticion[p].pc = "libre"
  /\ s \in entregado
  /\ SoloCookie => s = cookie[Familia(s)]
  /\ logout \/ QuedanSesiones
  /\ peticion' = [peticion EXCEPT ![p] =
       [SinPeticion EXCEPT !.pc = IF logout THEN "revocar" ELSE "leer",
                           !.logout = logout, !.s = s, !.o = IF logout THEN s ELSE None]]
  /\ UNCHANGED <<reloj, fallos, sesion, entregado, cookie, deClave>>

soloPeticion == <<reloj, fallos, sesion, entregado, cookie, deClave>>

\* Mutant: the family of the session last rotated, which may not be there.
RevocaraObjetivo(p) == peticion' = [peticion EXCEPT ![p].pc = "revocar"]

\* A refresh rotates a session, brings its family down, or ends.
Rotara(p, o) ==
  peticion' = [peticion EXCEPT ![p].pc = "rotar", ![p].o = o, ![p].cad = reloj + Vida]
Revocara(p) == peticion' = [peticion EXCEPT ![p].pc = "revocar", ![p].o = peticion[p].s]
Rechazada(p) == peticion' = [peticion EXCEPT ![p] = SinPeticion]

Caducada(s) == sesion[s].expiresAt <= reloj

\* intentarContinuarComoConcurrente up to its first await: outside the window
\* it is reuse, an expired token is only rejected, else the living heir is
\* looked for.
Gracia(p, revokedAt) ==
  IF revokedAt # None /\ reloj - revokedAt > Ventana THEN Revocara(p)
  ELSE IF Caducada(peticion[p].s) THEN Rechazada(p)
  ELSE peticion' = [peticion EXCEPT ![p].pc = "viva"]

\* Mutant: an expired token is treated as a stolen one.
LeerSesionCaducaRoba(p) ==
  LET s == peticion[p].s
  IN /\ peticion[p].pc = "leer"
     /\ IF ~Viva(s) THEN Gracia(p, sesion[s].revokedAt)
        ELSE IF Caducada(s) THEN Revocara(p) ELSE Rotara(p, s)
     /\ UNCHANGED soloPeticion

\* ejecutar: buscarPorHash and what it decides on that row.
LeerSesion(p) ==
  LET s == peticion[p].s
  IN /\ peticion[p].pc = "leer"
     /\ IF ~Viva(s) THEN Gracia(p, sesion[s].revokedAt)
        ELSE IF Caducada(s) THEN Rechazada(p) ELSE Rotara(p, s)
     /\ UNCHANGED soloPeticion

\* Mutant: a request with no living heir asks again.
BuscarVivaReintenta(p) ==
  /\ peticion[p].pc = "viva"
  /\ \E v \in VivasDe(Familia(peticion[p].s)) : Rotara(p, v)
  /\ UNCHANGED soloPeticion

\* buscarSesionVivaDeFamilia: without a living heir it is reuse.
BuscarViva(p) ==
  LET vivas == VivasDe(Familia(peticion[p].s))
  IN /\ peticion[p].pc = "viva"
     /\ \/ \E v \in vivas : IF Caducada(v) THEN Revocara(p) ELSE Rotara(p, v)
        \/ vivas = {} /\ Revocara(p)
     /\ UNCHANGED soloPeticion

\* Mutant: rotar does not take the lock of the family.
RotarSinCerrojo(p) ==
  /\ peticion[p].pc = "rotar"
  /\ peticion' = [peticion EXCEPT ![p].pc = "cas"]
  /\ UNCHANGED soloPeticion

\* rotar: the transaction takes the lock of the family...
RotarBloquear(p) ==
  /\ peticion[p].pc = "rotar"
  /\ ~FamiliaBloqueada(Familia(peticion[p].o))
  /\ peticion' = [peticion EXCEPT ![p].pc = "cas"]
  /\ UNCHANGED soloPeticion

\* Mutant: the revocation has no condition on revokedAt.
RotarSinCas(p) ==
  /\ peticion[p].pc = "cas"
  /\ ~SesionBloqueada(peticion[p].o)
  /\ peticion' = [peticion EXCEPT ![p].pc = "insertar"]
  /\ UNCHANGED soloPeticion

\* ...revokes the session if nobody did, waiting for its row...  Losing is
\* reuse for the second rotation of a request; for the first one the grace
\* window opens, with the row read before, which said revokedAt null.
RotarCas(p) ==
  LET o == peticion[p].o
  IN /\ peticion[p].pc = "cas"
     /\ ~SesionBloqueada(o)
     /\ IF Viva(o) THEN peticion' = [peticion EXCEPT ![p].pc = "insertar"]
        ELSE IF o = peticion[p].s THEN Gracia(p, None)
        ELSE Revocara(p)
     /\ UNCHANGED soloPeticion

\* ...and creates its child: commit.
RotarInsertar(p, n) ==
  LET o == peticion[p].o
  IN /\ peticion[p].pc = "insertar"
     /\ Familia(n) = None
     /\ sesion' = [sesion EXCEPT ![o].revokedAt = reloj,
                                 ![n] = Nueva(Familia(o), peticion[p].cad)]
     /\ peticion' = [peticion EXCEPT ![p].pc = "firmar", ![p].o = n]
     /\ UNCHANGED <<reloj, fallos, entregado, cookie, deClave>>

\* firmarRespuesta, and the browser keeps the cookie of the answer.
Firmar(p) ==
  LET n == peticion[p].o
  IN /\ peticion[p].pc = "firmar"
     /\ entregado' = entregado \cup {n}
     /\ cookie' = [cookie EXCEPT ![Familia(n)] = n]
     /\ Rechazada(p)
     /\ UNCHANGED <<reloj, fallos, sesion, deClave>>

\* revocarFamilia: the lock and the selection of the rows...
RevocarBloquear(p) ==
  LET f == Familia(peticion[p].o)
  IN /\ peticion[p].pc = "revocar"
     /\ ~FamiliaBloqueada(f)
     /\ peticion' = [peticion EXCEPT ![p].pc = "revocando", ![p].filas = VivasDe(f)]
     /\ UNCHANGED soloPeticion

RevocarFilas(filas) ==
  sesion' = [s \in Sesiones |->
    IF s \in filas /\ Viva(s) THEN [sesion[s] EXCEPT !.revokedAt = reloj] ELSE sesion[s]]

\* ...and the revocation of those still alive.  Logout also clears the
\* cookie; the browser of a refused refresh keeps its own.
RevocarConfirmar(p) ==
  /\ peticion[p].pc = "revocando"
  /\ \A s \in peticion[p].filas : ~SesionBloqueada(s)
  /\ RevocarFilas(peticion[p].filas)
  /\ cookie' = IF peticion[p].logout
               THEN [cookie EXCEPT ![Familia(peticion[p].s)] = None] ELSE cookie
  /\ Rechazada(p)
  /\ UNCHANGED <<reloj, fallos, entregado, deClave>>

-----------------------------------------------------------------------------
(* POST /auth/forgot-password, in the background once the answer left *)

deSesion == <<sesion, entregado, cookie, peticion>>

\* Bound: a request only starts if a token id is left for it.
Olvidar(v) ==
  /\ olvido[v].pc = "libre"
  /\ Cardinality({u \in Olvidos : olvido[u].pc # "libre"})
       < Cardinality({k \in Fichas : ficha[k].status = "NUEVA"})
  /\ olvido' = [olvido EXCEPT ![v] = [SinOlvido EXCEPT !.pc = "caducar", !.ahora = reloj]]
  /\ UNCHANGED <<reloj, fallos, clave, ficha, cola, reset, deSesion>>

CaducarFichas(t) ==
  [k \in Fichas |-> IF k \in FichasVigentes(t) THEN [ficha[k] EXCEPT !.expiresAt = t]
                    ELSE ficha[k]]

\* Abstraction: its rows are taken at once.  Row by row, Postgres may abort
\* this update, or the reset it would deadlock with (as CaeApi does).
OlvidoCaducar(v) ==
  /\ olvido[v].pc = "caducar"
  /\ \A k \in FichasVigentes(olvido[v].ahora) : ~FichaBloqueada(k)
  /\ ficha' = CaducarFichas(olvido[v].ahora)
  /\ olvido' = [olvido EXCEPT ![v].pc = "crear"]
  /\ UNCHANGED <<reloj, fallos, clave, cola, reset, deSesion>>

OlvidoCrear(v, k) ==
  /\ olvido[v].pc = "crear"
  /\ ficha[k].status = "NUEVA"
  /\ ficha' = [ficha EXCEPT ![k] = [status |-> "PENDING",
                                    expiresAt |-> olvido[v].ahora + VidaFicha]]
  /\ olvido' = [olvido EXCEPT ![v].pc = "encolar", ![v].k = k]
  /\ UNCHANGED <<reloj, fallos, clave, cola, reset, deSesion>>

\* A failure of the queue is logged, and the token stays with no mail.
OlvidoEncolar(v) ==
  /\ olvido[v].pc = "encolar"
  /\ \/ cola' = cola \cup {<<"enlace", olvido[v].k>>} /\ UNCHANGED fallos
     \/ Falla /\ UNCHANGED cola
  /\ olvido' = [olvido EXCEPT ![v] = SinOlvido]
  /\ UNCHANGED <<reloj, clave, ficha, reset, deSesion>>

-----------------------------------------------------------------------------
(* POST /auth/reset-password: one transaction *)

soloReset == <<reloj, fallos, clave, ficha, cola, olvido, deSesion>>

\* The link of a mail is opened; the transaction begins and reads ahora.
UsarEnlace(q, k) ==
  /\ reset[q].pc = "libre"
  /\ <<"enlace", k>> \in cola
  /\ reset' = [reset EXCEPT ![q] = [SinReset EXCEPT !.pc = "consumir", !.k = k,
                                                    !.ahora = reloj]]
  /\ UNCHANGED soloReset

\* Mutant: the token is read before it is written, without the condition.
ConsumirSinEstado(q) ==
  /\ reset[q].pc = "consumir"
  /\ ~FichaBloqueada(reset[q].k)
  /\ reset' = [reset EXCEPT ![q].pc = "clave"]
  /\ UNCHANGED soloReset

\* Mutant: a token that does not serve is tried again.
ConsumirReintenta(q) ==
  /\ reset[q].pc = "consumir"
  /\ ~FichaBloqueada(reset[q].k)
  /\ reset[q].k \in FichasVigentes(reset[q].ahora)
  /\ reset' = [reset EXCEPT ![q].pc = "clave"]
  /\ UNCHANGED soloReset

\* consumirPorHash: a compare-and-swap on the row of the token.
Consumir(q) ==
  LET k == reset[q].k
  IN /\ reset[q].pc = "consumir"
     /\ ~FichaBloqueada(k)
     /\ reset' = IF k \in FichasVigentes(reset[q].ahora)
                 THEN [reset EXCEPT ![q].pc = "clave"] ELSE [reset EXCEPT ![q] = SinReset]
     /\ UNCHANGED soloReset

\* actualizarPassword takes the row of the user.
ActualizarPassword(q) ==
  /\ reset[q].pc = "clave"
  /\ ~UsuarioBloqueado
  /\ reset' = [reset EXCEPT ![q].pc = "listar"]
  /\ UNCHANGED soloReset

\* revocarTodasDeUsuario lists the families with a living session...
ListarFamilias(q) ==
  LET familias == {f \in Familias : VivasDe(f) # {}}
  IN /\ reset[q].pc = "listar"
     /\ reset' = [reset EXCEPT ![q].pc = "cerrojos", ![q].familias = familias,
                               ![q].faltan = familias]
     /\ UNCHANGED soloReset

\* ...takes their locks one by one (the order does not matter: it is the only
\* operation that takes two, and the row of the user is already its own)...
TomarCerrojo(q, f) ==
  /\ reset[q].pc = "cerrojos"
  /\ f \in reset[q].faltan
  /\ ~FamiliaBloqueada(f)
  /\ reset' = [reset EXCEPT ![q].faltan = @ \ {f}]
  /\ UNCHANGED soloReset

\* Mutant: the sessions are selected before the locks are taken.
SeleccionarSinCerrojos(q) ==
  /\ reset[q].pc = "cerrojos"
  /\ reset' = [reset EXCEPT ![q].pc = "revocando", ![q].filas = {s \in Sesiones : Viva(s)},
                            ![q].faltan = {}]
  /\ UNCHANGED soloReset

\* ...and selects the living sessions of the user, of any family, to revoke
\* them as their rows get free.
SeleccionarSesiones(q) ==
  /\ reset[q].pc = "cerrojos"
  /\ reset[q].faltan = {}
  /\ reset' = [reset EXCEPT ![q].pc = "revocando", ![q].filas = {s \in Sesiones : Viva(s)}]
  /\ UNCHANGED soloReset

RevocarTodas(q) ==
  /\ reset[q].pc = "revocando"
  /\ \A s \in reset[q].filas : ~SesionBloqueada(s)
  /\ reset' = [reset EXCEPT ![q].pc = "caducar", ![q].filas = {s \in @ : Viva(s)}]
  /\ UNCHANGED soloReset

\* caducarVigentesDe, on the other tokens, and the commit.
ConfirmarReset(q) ==
  LET r == reset[q]
      otras == FichasVigentes(r.ahora) \ {r.k}
  IN /\ r.pc = "caducar"
     /\ \A k \in otras : ~FichaBloqueada(k)
     /\ ficha' = [CaducarFichas(r.ahora) EXCEPT ![r.k] = [ficha[r.k] EXCEPT !.status = "CONSUMED"]]
     /\ clave' = clave + 1
     /\ RevocarFilas(r.filas)
     /\ reset' = [reset EXCEPT ![q] = [SinReset EXCEPT !.pc = "aviso", !.k = r.k]]
     /\ UNCHANGED <<reloj, fallos, cola, olvido, entregado, cookie, peticion>>

\* avisarDelCambio, whose failure is swallowed.
AvisarDelCambio(q) ==
  /\ reset[q].pc = "aviso"
  /\ \/ cola' = cola \cup {<<"cambio", reset[q].k>>} /\ UNCHANGED fallos
     \/ Falla /\ UNCHANGED cola
  /\ reset' = [reset EXCEPT ![q] = SinReset]
  /\ UNCHANGED <<reloj, clave, ficha, olvido, deSesion>>

\* Two resets with two tokens: one holds the row of the user and wants the
\* token the other consumed, the other wants the user.  Postgres aborts one.
Interbloqueo(q, r) ==
  /\ reset[q].pc = "caducar" /\ reset[r].pc = "clave"
  /\ reset[r].k \in FichasVigentes(reset[q].ahora)
  /\ \E v \in {q, r} : reset' = [reset EXCEPT ![v] = SinReset]
  /\ UNCHANGED soloReset

\* The API process dies: its requests are forgotten, what was not committed
\* is undone.
CaeApi ==
  /\ Falla
  /\ peticion' = [p \in Peticiones |-> SinPeticion]
  /\ olvido' = [v \in Olvidos |-> SinOlvido]
  /\ reset' = [q \in Resets |-> SinReset]
  /\ UNCHANGED <<reloj, sesion, clave, ficha, cola, entregado, cookie>>

-----------------------------------------------------------------------------
PasoPeticion(p) ==
  \/ LeerSesion(p) \/ BuscarViva(p) \/ RotarBloquear(p) \/ RotarCas(p) \/ Firmar(p)
  \/ RevocarBloquear(p) \/ RevocarConfirmar(p) \/ \E n \in Sesiones : RotarInsertar(p, n)
PasoOlvido(v) == OlvidoCaducar(v) \/ OlvidoEncolar(v) \/ \E k \in Fichas : OlvidoCrear(v, k)
PasoReset(q) ==
  \/ Consumir(q) \/ ActualizarPassword(q) \/ ListarFamilias(q) \/ SeleccionarSesiones(q)
  \/ RevocarTodas(q) \/ ConfirmarReset(q) \/ AvisarDelCambio(q)
  \/ \E f \in Familias : TomarCerrojo(q, f)

Next ==
  \/ Tick
  \/ \E s \in Sesiones, f \in Familias : Login(s, f)
  \/ \E p \in Peticiones : PasoPeticion(p)
                           \/ \E s \in Sesiones, l \in BOOLEAN : Pedir(p, s, l)
  \/ \E v \in Olvidos : Olvidar(v) \/ PasoOlvido(v)
  \/ \E q \in Resets : PasoReset(q) \/ \E k \in Fichas : UsarEnlace(q, k)
  \/ \E q, r \in Resets : Interbloqueo(q, r)
  \/ CaeApi

Spec == Init /\ [][Next]_vars

\* Fairness: Postgres queues those that wait for a lock, so a step that is
\* enabled again and again is taken.  Nobody owes a request, nor the clock a
\* tick, nor the infrastructure a fault.
Equidad ==
  /\ \A p \in Peticiones : SF_vars(PasoPeticion(p))
  /\ \A q \in Resets : SF_vars(PasoReset(q))
  /\ WF_vars(\E q, r \in Resets : Interbloqueo(q, r))

FairSpec == Spec /\ Equidad

-----------------------------------------------------------------------------
(* Properties *)

\* Each variable holds what its table, queue or request can hold.
SesionOK == sesion \in [Sesiones -> FilaSesion]
FichaOK == ficha \in [Fichas -> FilaFicha] /\ clave \in Nat
ColaOK == cola \subseteq {"enlace", "cambio"} \X Fichas
CookieOK == entregado \subseteq Sesiones /\ cookie \in [Familias -> Sesiones \cup {None}]
PeticionOK ==
  /\ peticion \in [Peticiones -> EstadoPeticion]
  /\ \A p \in Peticiones : peticion[p].pc \notin {"libre", "leer", "viva"}
                           => peticion[p].o \in Sesiones /\ Familia(peticion[p].o) # None
  /\ \A p \in Peticiones : peticion[p].pc # "libre"
                           => peticion[p].s \in Sesiones /\ Familia(peticion[p].s) # None
OlvidoOK == /\ olvido \in [Olvidos -> EstadoOlvido]
            /\ \A v \in Olvidos : olvido[v].pc = "encolar" => olvido[v].k \in Fichas
ResetOK == /\ reset \in [Resets -> EstadoReset]
           /\ \A q \in Resets : reset[q].pc # "libre" => reset[q].k \in Fichas
TypeOK == /\ reloj \in 0..MaxReloj /\ fallos \in 0..MaxFallos
          /\ SesionOK /\ FichaOK /\ ColaOK /\ CookieOK /\ PeticionOK /\ OlvidoOK /\ ResetOK

\* "At every instant there is one living session per family", which is what
\* buscarSesionVivaDeFamilia relies on, whatever twins and revocations do.
OneLivePerFamily == \A f \in Familias : \A s, t \in VivasDe(f) : s = t

\* "No child of a concurrent rotation survives": when revocarFamilia commits,
\* the whole family is dead.
FamilyRevocationIsTotal ==
  [][\A p \in Peticiones, f \in Familias :
       /\ peticion[p].pc = "revocando" /\ f = Familia(peticion[p].o)
       /\ peticion'[p].pc = "libre" /\ fallos' = fallos   \* it did not die
       => VivasDe(f)' = {}]_vars

\* A family brought down, by theft, logout or reset, never has a living
\* session again: no request in flight brings it back.
DeadFamilyStaysDead ==
  [][\A f \in Familias : (\E s \in Sesiones : Familia(s) = f) /\ VivasDe(f) = {}
       => VivasDe(f)' = {}]_vars

\* A reset leaves nothing alive in the families that had a session when it
\* listed them, whatever is rotating meanwhile; what lives after it comes of
\* a login that created its session later.
ResetKillsListedFamilies ==
  [][\A q \in Resets : reset[q].pc = "caducar" /\ reset'[q].pc = "aviso"
       => \A f \in reset[q].familias : VivasDe(f)' = {}]_vars

\* A link changes the password once, and never without being spent: two
\* concurrent uses, a deadlock or a crash give one change per spent token.
OneChangePerToken == clave = Cardinality({k \in Fichas : ficha[k].status = "CONSUMED"})

\* Only a token already revoked, by rotation, logout or reset, brings its
\* family down: the browser that refreshes in turn is never taken for a thief.
ReuseNeedsRevocation ==
  \A p \in Peticiones : peticion[p].pc \in {"revocar", "revocando"} /\ ~peticion[p].logout
                        => ~Viva(peticion[p].s)

\* Every refresh and logout ends, and so does every reset: also two that use
\* two links of the same user.
RequestEnds == \A p \in Peticiones : peticion[p].pc # "libre" ~> peticion[p].pc = "libre"
ResetEnds == \A q \in Resets : reset[q].pc # "libre" ~> reset[q].pc = "libre"

\* What refresh.use-case.ts says of the loser of two twins: from then on
\* either tab refreshes without friction.  So at rest, with no family brought
\* down and nothing lost, the browser's cookie is the living session.
CookieIsLive ==
  /\ \A p \in Peticiones : peticion[p].pc = "libre"
  /\ fallos = 0 /\ clave = 0
  => \A f \in Familias : cookie[f] # None /\ VivasDe(f) # {} => Viva(cookie[f])
=============================================================================
