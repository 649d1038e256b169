---------------------------- MODULE SessionsProofs ----------------------------
(* What TLAPS proves of Sessions, for every value of its constants. *)
EXTENDS Sessions, FiniteSetTheorems, TLAPS

-----------------------------------------------------------------------------
(* The inductive invariant *)

\* The browser only has tokens of sessions that exist.
Creada(s) == s \in Sesiones /\ Familia(s) # None
Entregadas == \A s \in entregado : Creada(s)

TypeInv == TypeOK /\ Entregadas

\* A refresh or logout that holds the lock of the family of its objective.
Tiene(p) == peticion[p].pc \in {"cas", "insertar", "revocando"}
FamiliaDe(p) == Familia(peticion[p].o)

\* The advisory lock of a family has one holder.
ExclusionP == \A p, r \in Peticiones : Tiene(p) /\ Tiene(r) /\ FamiliaDe(p) = FamiliaDe(r) => p = r
ExclusionR == \A p \in Peticiones, q \in Resets : Tiene(p) => FamiliaDe(p) \notin CerrojoDe(q)

\* What a transaction saw when it took the lock is still so while it has it.
MadreViva == \A p \in Peticiones : peticion[p].pc = "insertar" => Viva(peticion[p].o)
FilasP == \A p \in Peticiones :
            peticion[p].pc = "revocando" => VivasDe(FamiliaDe(p)) \subseteq peticion[p].filas
FilasR == \A q \in Resets : reset[q].pc \in {"revocando", "caducar"} =>
            /\ reset[q].faltan = {}
            /\ \A f \in reset[q].familias : VivasDe(f) \subseteq reset[q].filas

\* The rows a reset has written are not being rotated.
FilasLibres == \A q \in Resets, p \in Peticiones :
                 reset[q].pc = "caducar" /\ peticion[p].pc = "insertar"
                 => peticion[p].o \notin reset[q].filas

\* A family a reset listed was opened by a login.
Abierta(f) == \E s \in Sesiones : Familia(s) = f
Listadas == \A q \in Resets : \A f \in reset[q].familias : Abierta(f)

Locks == /\ ExclusionP /\ ExclusionR /\ MadreViva /\ FilasP /\ FilasR /\ FilasLibres
         /\ Listadas
IInv == TypeInv /\ Locks /\ OneLivePerFamily

-----------------------------------------------------------------------------
(* Types *)

LEMMA InitInv == Init => IInv
<1> SUFFICES ASSUME Init PROVE IInv
  OBVIOUS
<1> USE SupuestosSesion DEF Init
<1>1. SesionOK /\ FichaOK /\ ColaOK /\ CookieOK
  BY DEF SesionOK, FilaSesion, FichaOK, FilaFicha, ColaOK, CookieOK
<1>2. PeticionOK /\ OlvidoOK /\ ResetOK
  BY DEF PeticionOK, SinPeticion, EstadoPeticion, OlvidoOK, SinOlvido, EstadoOlvido,
         ResetOK, SinReset, EstadoReset
<1>3. TypeInv
  BY <1>1, <1>2 DEF TypeInv, TypeOK, Entregadas
<1>4. Locks
  BY DEF Locks, ExclusionP, ExclusionR, MadreViva, FilasP, FilasR, FilasLibres, Listadas,
         Tiene, SinPeticion, SinReset
<1>5. OneLivePerFamily
  BY DEF OneLivePerFamily, VivasDe, Viva, Familia
<1> QED BY <1>3, <1>4, <1>5 DEF IInv

\* Replacing what one request has in memory by something well formed.
LEMMA PutPeticion ==
  ASSUME PeticionOK, NEW p \in Peticiones, NEW f \in EstadoPeticion,
         f.pc \notin {"libre", "leer", "viva"} => Creada(f.o),
         f.pc # "libre" => Creada(f.s),
         sesion' = sesion, peticion' = [peticion EXCEPT ![p] = f]
  PROVE  PeticionOK'
BY DEF PeticionOK, Familia, Creada

LEMMA PutReset ==
  ASSUME ResetOK, NEW q \in Resets, NEW f \in EstadoReset, f.pc # "libre" => f.k \in Fichas,
         reset' = [reset EXCEPT ![q] = f]
  PROVE  ResetOK'
BY DEF ResetOK

LEMMA PutOlvido ==
  ASSUME OlvidoOK, NEW v \in Olvidos, NEW f \in EstadoOlvido, f.pc # "encolar" \/ f.k \in Fichas,
         olvido' = [olvido EXCEPT ![v] = f]
  PROVE  OlvidoOK'
BY DEF OlvidoOK

\* A variable that does not change keeps its type.
LEMMA Keep ==
  ASSUME TypeInv
  PROVE  /\ reloj' = reloj /\ fallos' = fallos => (reloj \in 0..MaxReloj /\ fallos \in 0..MaxFallos)'
         /\ sesion' = sesion => SesionOK'
         /\ ficha' = ficha /\ clave' = clave => FichaOK'
         /\ cola' = cola => ColaOK'
         /\ entregado' = entregado /\ cookie' = cookie => CookieOK'
         /\ sesion' = sesion /\ entregado' = entregado => Entregadas'
         /\ sesion' = sesion /\ peticion' = peticion => PeticionOK'
         /\ olvido' = olvido => OlvidoOK'
         /\ reset' = reset => ResetOK'
BY DEF TypeInv, TypeOK, SesionOK, FichaOK, ColaOK, CookieOK, Entregadas, Creada, Familia,
       PeticionOK, OlvidoOK, ResetOK

LEMMA Pieces ==
  ASSUME (reloj \in 0..MaxReloj /\ fallos \in 0..MaxFallos)', SesionOK', FichaOK', ColaOK',
         CookieOK', Entregadas', PeticionOK', OlvidoOK', ResetOK'
  PROVE  TypeInv'
BY DEF TypeInv, TypeOK

LEMMA FaultTypes ==
  ASSUME TypeInv, reloj' = reloj, Falla
  PROVE  (reloj \in 0..MaxReloj /\ fallos \in 0..MaxFallos)'
BY SupuestosSesion DEF TypeInv, TypeOK, Falla

\* A session that was created exists for ever, in its family.
LEMMA CreadaStays ==
  ASSUME TypeInv, \A s \in Sesiones : Creada(s) => sesion'[s].familia = sesion[s].familia
  PROVE  /\ \A s : Creada(s) => Creada(s)'
         /\ entregado' = entregado => Entregadas'
         /\ peticion' = peticion => PeticionOK'
BY DEF TypeInv, TypeOK, Entregadas, Creada, Familia, PeticionOK

\* The fields of a request in memory.
LEMMA Memory ==
  ASSUME TypeInv, NEW p \in Peticiones
  PROVE  /\ peticion[p] \in EstadoPeticion
         /\ peticion[p].pc # "libre" => Creada(peticion[p].s)
         /\ peticion[p].pc \notin {"libre", "leer", "viva"} => Creada(peticion[p].o)
         /\ reloj \in Nat
         /\ SinPeticion \in EstadoPeticion
BY SupuestosSesion DEF TypeInv, TypeOK, PeticionOK, Creada, Familia, SinPeticion, EstadoPeticion

LEMMA Heirs ==
  ASSUME SesionOK, NEW f, NEW s \in VivasDe(f)
  PROVE  s \in Sesiones /\ Viva(s) /\ Familia(s) = f /\ Creada(s) /\ f \in Familias
BY DEF VivasDe, Viva, Creada, Familia, SesionOK, FilaSesion

\* What each way a refresh goes on leaves in memory.
LEMMA Outcomes ==
  ASSUME TypeInv, NEW p \in Peticiones, peticion[p].pc # "libre", sesion' = sesion
  PROVE  /\ Rechazada(p) => PeticionOK'
         /\ Revocara(p) => PeticionOK'
         /\ \A o \in Sesiones : Creada(o) /\ Rotara(p, o) => PeticionOK'
         /\ \A r : Gracia(p, r) => PeticionOK'
<1>m. /\ peticion[p] \in EstadoPeticion /\ Creada(peticion[p].s) /\ reloj \in Nat
      /\ PeticionOK /\ SinPeticion \in EstadoPeticion
  BY Memory DEF TypeInv, TypeOK
<1>1. ASSUME Rechazada(p) PROVE PeticionOK'
  BY <1>1, <1>m, PutPeticion DEF Rechazada, SinPeticion
<1>2. ASSUME Revocara(p) PROVE PeticionOK'
  <2> DEFINE f == [peticion[p] EXCEPT !.pc = "revocar", !.o = peticion[p].s]
  <2>1. /\ f \in EstadoPeticion /\ Creada(f.o) /\ Creada(f.s)
        /\ peticion' = [peticion EXCEPT ![p] = f]
    BY <1>2, <1>m DEF Revocara, EstadoPeticion, Creada, PeticionOK
  <2> HIDE DEF f
  <2> QED BY <2>1, <1>m, PutPeticion
<1>3. ASSUME NEW o \in Sesiones, Creada(o), Rotara(p, o) PROVE PeticionOK'
  <2> DEFINE f == [peticion[p] EXCEPT !.pc = "rotar", !.o = o, !.cad = reloj + Vida]
  <2>0. reloj + Vida \in Nat
    BY <1>m, SupuestosSesion
  <2>1. /\ f \in EstadoPeticion /\ Creada(f.o) /\ Creada(f.s)
        /\ peticion' = [peticion EXCEPT ![p] = f]
    BY <1>3, <1>m, <2>0 DEF Rotara, EstadoPeticion, PeticionOK
  <2> HIDE DEF f
  <2> QED BY <2>1, <1>m, PutPeticion
<1>4. ASSUME peticion' = [peticion EXCEPT ![p].pc = "viva"] PROVE PeticionOK'
  <2> DEFINE f == [peticion[p] EXCEPT !.pc = "viva"]
  <2>1. /\ f \in EstadoPeticion /\ f.pc = "viva" /\ Creada(f.s)
        /\ peticion' = [peticion EXCEPT ![p] = f]
    BY <1>4, <1>m DEF EstadoPeticion, PeticionOK
  <2> HIDE DEF f
  <2> QED BY <2>1, <1>m, PutPeticion
<1> QED BY <1>1, <1>2, <1>3, <1>4 DEF Gracia

\* A refresh or logout keeps the types.
LEMMA RequestTypes ==
  ASSUME TypeInv, NEW p \in Peticiones,
         PasoPeticion(p) \/ \E s \in Sesiones, l \in BOOLEAN : Pedir(p, s, l)
  PROVE  TypeInv'
<1> USE DEF deClave, soloPeticion
<1>m. /\ peticion[p] \in EstadoPeticion /\ reloj \in Nat /\ PeticionOK
      /\ SinPeticion \in EstadoPeticion /\ SesionOK /\ CookieOK /\ Entregadas
  BY Memory DEF TypeInv, TypeOK
<1>f. ASSUME soloPeticion' = soloPeticion, PeticionOK' PROVE TypeInv'
  BY <1>f, Keep, Pieces
<1>1. ASSUME NEW s \in Sesiones, NEW l \in BOOLEAN, Pedir(p, s, l) PROVE TypeInv'
  <2> DEFINE f == [SinPeticion EXCEPT !.pc = IF l THEN "revocar" ELSE "leer",
                     !.logout = l, !.s = s, !.o = IF l THEN s ELSE None]
  <2>1. /\ f \in EstadoPeticion /\ f.s = s /\ (f.pc # "leer" => f.o = s)
    BY DEF SinPeticion, EstadoPeticion
  <2>2. Creada(s) /\ peticion' = [peticion EXCEPT ![p] = f] /\ sesion' = sesion
    BY <1>1, <1>m DEF Pedir, Entregadas
  <2> HIDE DEF f
  <2>3. PeticionOK'
    BY <2>1, <2>2, <1>m, PutPeticion
  <2> QED BY <1>1, <2>3, <1>f DEF Pedir
<1>2. CASE LeerSesion(p)
  <2>1. peticion[p].pc # "libre" /\ sesion' = sesion /\ Creada(peticion[p].s)
    BY <1>2, Memory DEF LeerSesion
  <2>2. PeticionOK'
    BY <1>2, <2>1, Outcomes DEF LeerSesion, Creada
  <2> QED BY <1>2, <2>2, <1>f DEF LeerSesion
<1>3. CASE BuscarViva(p)
  <2>1. peticion[p].pc # "libre" /\ sesion' = sesion
    BY <1>3 DEF BuscarViva
  <2>2. PeticionOK'
    BY <1>3, <2>1, <1>m, Outcomes, Heirs DEF BuscarViva
  <2> QED BY <1>3, <2>2, <1>f DEF BuscarViva
<1>4. CASE RotarBloquear(p)
  <2> DEFINE f == [peticion[p] EXCEPT !.pc = "cas"]
  <2>1. /\ f \in EstadoPeticion /\ Creada(f.o) /\ Creada(f.s)
        /\ peticion' = [peticion EXCEPT ![p] = f]
    BY <1>4, <1>m, Memory DEF RotarBloquear, EstadoPeticion, PeticionOK
  <2> HIDE DEF f
  <2>2. PeticionOK'
    BY <1>4, <2>1, <1>m, PutPeticion DEF RotarBloquear
  <2> QED BY <1>4, <2>2, <1>f DEF RotarBloquear
<1>5. CASE RotarCas(p)
  <2>1. peticion[p].pc # "libre" /\ sesion' = sesion
    BY <1>5 DEF RotarCas
  <2>2. ASSUME peticion' = [peticion EXCEPT ![p].pc = "insertar"] PROVE PeticionOK'
    <3> DEFINE f == [peticion[p] EXCEPT !.pc = "insertar"]
    <3>1. /\ f \in EstadoPeticion /\ Creada(f.o) /\ Creada(f.s)
          /\ peticion' = [peticion EXCEPT ![p] = f]
      BY <1>5, <2>2, <1>m, Memory DEF RotarCas, EstadoPeticion, PeticionOK
    <3> HIDE DEF f
    <3> QED BY <2>1, <3>1, <1>m, PutPeticion
  <2>3. PeticionOK'
    BY <1>5, <2>1, <2>2, Outcomes DEF RotarCas
  <2> QED BY <1>5, <2>3, <1>f DEF RotarCas
<1>6. CASE Firmar(p)
  <2>1. Creada(peticion[p].o) /\ peticion[p].pc # "libre" /\ sesion' = sesion
    BY <1>6, Memory DEF Firmar
  <2>2. PeticionOK'
    BY <1>6, <2>1, Outcomes DEF Firmar
  <2>3. CookieOK' /\ Entregadas'
    BY <1>6, <2>1, <1>m DEF Firmar, CookieOK, Entregadas, Creada, Familia
  <2> QED BY <1>6, <2>2, <2>3, Keep, Pieces DEF Firmar
<1>7. CASE RevocarBloquear(p)
  <2> DEFINE f == [peticion[p] EXCEPT !.pc = "revocando", !.filas = VivasDe(FamiliaDe(p))]
  <2>1. /\ f \in EstadoPeticion /\ Creada(f.o) /\ Creada(f.s)
        /\ peticion' = [peticion EXCEPT ![p] = f]
    BY <1>7, <1>m, Memory DEF RevocarBloquear, EstadoPeticion, PeticionOK, VivasDe, FamiliaDe
  <2> HIDE DEF f
  <2>2. PeticionOK'
    BY <1>7, <2>1, <1>m, PutPeticion DEF RevocarBloquear
  <2> QED BY <1>7, <2>2, <1>f DEF RevocarBloquear
<1>8. CASE RevocarConfirmar(p)
  <2>1. SesionOK' /\ \A s \in Sesiones : sesion'[s].familia = sesion[s].familia
    BY <1>8, <1>m DEF RevocarConfirmar, RevocarFilas, SesionOK, FilaSesion
  <2>2. Entregadas' /\ \A s : Creada(s) => Creada(s)'
    BY <1>8, <2>1, CreadaStays DEF RevocarConfirmar
  <2>3. PeticionOK'
    BY <1>8, <2>2, <1>m DEF RevocarConfirmar, Rechazada, PeticionOK, SinPeticion, Creada
  <2>4. CookieOK'
    BY <1>8, <1>m DEF RevocarConfirmar, CookieOK
  <2> QED BY <1>8, <2>1, <2>2, <2>3, <2>4, Keep, Pieces DEF RevocarConfirmar
<1>9. ASSUME NEW n \in Sesiones, RotarInsertar(p, n) PROVE TypeInv'
  <2>1. Creada(peticion[p].o) /\ Creada(peticion[p].s) /\ peticion[p].cad \in Nat
    BY <1>9, <1>m, Memory DEF RotarInsertar, EstadoPeticion
  <2>2. /\ SesionOK' /\ Creada(n)'
        /\ \A s \in Sesiones : Creada(s) => sesion'[s].familia = sesion[s].familia
    BY <1>9, <2>1, <1>m, SupuestosSesion
    DEF RotarInsertar, SesionOK, FilaSesion, Nueva, Creada, Familia
  <2>3. Entregadas' /\ \A s : Creada(s) => Creada(s)'
    BY <1>9, <2>2, CreadaStays DEF RotarInsertar
  <2>4. PeticionOK'
    <3> DEFINE f == [peticion[p] EXCEPT !.pc = "firmar", !.o = n]
    <3>1. f \in EstadoPeticion /\ f.o = n /\ f.s = peticion[p].s /\ f.pc = "firmar"
      BY <1>m DEF EstadoPeticion
    <3>2. peticion' = [peticion EXCEPT ![p] = f]
      BY <1>9, <1>m DEF RotarInsertar, PeticionOK
    <3> HIDE DEF f
    <3> QED BY <3>1, <3>2, <2>1, <2>2, <2>3, <1>m DEF PeticionOK, Creada
  <2> QED BY <1>9, <2>2, <2>3, <2>4, Keep, Pieces DEF RotarInsertar
<1> QED BY <1>1, <1>2, <1>3, <1>4, <1>5, <1>6, <1>7, <1>8, <1>9 DEF PasoPeticion
LEMMA LoginTypes == ASSUME TypeInv, NEW s \in Sesiones, NEW f \in Familias, Login(s, f) PROVE TypeInv'
<1>m. SesionOK /\ PeticionOK /\ CookieOK /\ Entregadas /\ reloj \in Nat /\ reloj + Vida \in Nat
  BY SupuestosSesion DEF TypeInv, TypeOK
<1>1. /\ SesionOK' /\ Creada(s)'
      /\ \A t \in Sesiones : Creada(t) => sesion'[t].familia = sesion[t].familia
  BY <1>m, SupuestosSesion DEF Login, SesionOK, FilaSesion, Nueva, Creada, Familia
<1>2. (\A t : Creada(t) => Creada(t)') /\ PeticionOK'
  BY <1>1, CreadaStays DEF Login
<1>3. CookieOK' /\ Entregadas'
  BY <1>1, <1>2, <1>m DEF Login, CookieOK, Entregadas
<1> QED BY <1>1, <1>2, <1>3, Keep, Pieces DEF Login, deClave

\* The tokens after caducarVigentesDe.
LEMMA TokenTypes ==
  ASSUME FichaOK, NEW t \in Nat
  PROVE  CaducarFichas(t) \in [Fichas -> FilaFicha]
BY DEF CaducarFichas, FichaOK, FilaFicha

LEMMA ForgotTypes ==
  ASSUME TypeInv, NEW v \in Olvidos, Olvidar(v) \/ PasoOlvido(v)
  PROVE  TypeInv'
<1> USE DEF deSesion
<1>m. FichaOK /\ ColaOK /\ OlvidoOK /\ reloj \in Nat /\ SinOlvido \in EstadoOlvido
  BY SupuestosSesion DEF TypeInv, TypeOK, SinOlvido, EstadoOlvido
<1>1. CASE Olvidar(v)
  <2> DEFINE f == [SinOlvido EXCEPT !.pc = "caducar", !.ahora = reloj]
  <2>1. f \in EstadoOlvido /\ f.pc = "caducar" /\ olvido' = [olvido EXCEPT ![v] = f]
    BY <1>1, <1>m DEF Olvidar, SinOlvido, EstadoOlvido
  <2> HIDE DEF f
  <2> QED BY <1>1, <2>1, <1>m, PutOlvido, Keep, Pieces DEF Olvidar
<1>2. CASE OlvidoCaducar(v)
  <2>1. OlvidoOK'
    BY <1>2, <1>m DEF OlvidoCaducar, OlvidoOK, EstadoOlvido
  <2>2. olvido[v].ahora \in Nat
    BY <1>m DEF OlvidoOK, EstadoOlvido
  <2>3. FichaOK'
    BY <1>2, <2>2, <1>m, TokenTypes DEF OlvidoCaducar, FichaOK
  <2> QED BY <1>2, <2>1, <2>3, Keep, Pieces DEF OlvidoCaducar
<1>3. ASSUME NEW k \in Fichas, OlvidoCrear(v, k) PROVE TypeInv'
  <2>1. OlvidoOK'
    BY <1>3, <1>m DEF OlvidoCrear, OlvidoOK, EstadoOlvido
  <2>2. olvido[v].ahora + VidaFicha \in Nat
    BY <1>m, SupuestosSesion DEF OlvidoOK, EstadoOlvido
  <2>3. FichaOK'
    BY <1>3, <2>2, <1>m DEF OlvidoCrear, FichaOK, FilaFicha
  <2> QED BY <1>3, <2>1, <2>3, Keep, Pieces DEF OlvidoCrear
<1>4. CASE OlvidoEncolar(v)
  <2>1. OlvidoOK'
    BY <1>4, <1>m, PutOlvido DEF OlvidoEncolar, SinOlvido
  <2>2. ColaOK'
    BY <1>4, <1>m DEF OlvidoEncolar, ColaOK, OlvidoOK
  <2>3. (reloj \in 0..MaxReloj /\ fallos \in 0..MaxFallos)'
    BY <1>4, FaultTypes, Keep DEF OlvidoEncolar
  <2> QED BY <1>4, <2>1, <2>2, <2>3, Keep, Pieces DEF OlvidoEncolar
<1> QED BY <1>1, <1>2, <1>3, <1>4 DEF PasoOlvido

\* A reset keeps the types.
LEMMA ResetTypes ==
  ASSUME TypeInv, NEW q \in Resets, PasoReset(q) \/ \E k \in Fichas : UsarEnlace(q, k)
  PROVE  TypeInv'
<1> USE DEF soloReset, deSesion
<1>m. /\ ResetOK /\ reset[q] \in EstadoReset /\ reloj \in Nat /\ SinReset \in EstadoReset
      /\ FichaOK /\ ColaOK /\ SesionOK /\ PeticionOK
  BY SupuestosSesion DEF TypeInv, TypeOK, ResetOK, SinReset, EstadoReset
<1>f. ASSUME soloReset' = soloReset, NEW r \in EstadoReset, r.pc # "libre" => r.k \in Fichas,
             reset' = [reset EXCEPT ![q] = r]
      PROVE  TypeInv'
  <2>1. ResetOK'
    BY <1>f, <1>m, PutReset
  <2> QED BY <1>f, <2>1, Keep, Pieces
<1>k. reset[q].pc # "libre" => reset[q].k \in Fichas
  BY <1>m DEF ResetOK
<1>1. ASSUME NEW k \in Fichas, UsarEnlace(q, k) PROVE TypeInv'
  <2> DEFINE r == [SinReset EXCEPT !.pc = "consumir", !.k = k, !.ahora = reloj]
  <2>1. r \in EstadoReset /\ r.k \in Fichas /\ reset' = [reset EXCEPT ![q] = r]
    BY <1>1, <1>m DEF UsarEnlace, SinReset, EstadoReset
  <2> HIDE DEF r
  <2> QED BY <1>1, <2>1, <1>f DEF UsarEnlace
<1>2. ASSUME NEW pc \in {"clave", "listar"}, soloReset' = soloReset,
             reset' = [reset EXCEPT ![q].pc = pc], reset[q].pc # "libre"
      PROVE  TypeInv'
  <2> DEFINE r == [reset[q] EXCEPT !.pc = pc]
  <2>1. r \in EstadoReset /\ r.k \in Fichas /\ reset' = [reset EXCEPT ![q] = r]
    BY <1>2, <1>m, <1>k DEF EstadoReset, ResetOK
  <2> HIDE DEF r
  <2> QED BY <1>2, <2>1, <1>f
<1>3. CASE Consumir(q)
  <2>1. CASE reset' = [reset EXCEPT ![q] = SinReset]
    BY <1>3, <2>1, <1>m, <1>f DEF Consumir, SinReset
  <2> QED BY <1>3, <2>1, <1>2 DEF Consumir
<1>4. CASE ActualizarPassword(q)
  BY <1>4, <1>2 DEF ActualizarPassword
<1>5. CASE ListarFamilias(q)
  <2> DEFINE fs == {f \in Familias : VivasDe(f) # {}}
             r == [reset[q] EXCEPT !.pc = "cerrojos", !.familias = fs, !.faltan = fs]
  <2>1. r \in EstadoReset /\ r.k \in Fichas /\ reset' = [reset EXCEPT ![q] = r]
    <3>1. fs \subseteq Familias
      OBVIOUS
    <3> HIDE DEF fs
    <3>2. r \in EstadoReset /\ r.k \in Fichas
      BY <1>5, <3>1, <1>m, <1>k DEF ListarFamilias, EstadoReset
    <3> USE DEF fs
    <3>3. reset' = [reset EXCEPT ![q] = r]
      BY <1>5, <1>m DEF ListarFamilias, ResetOK
    <3> QED BY <3>2, <3>3
  <2> HIDE DEF r
  <2> QED BY <1>5, <2>1, <1>f DEF ListarFamilias
<1>6. ASSUME NEW f \in Familias, TomarCerrojo(q, f) PROVE TypeInv'
  <2> DEFINE r == [reset[q] EXCEPT !.faltan = reset[q].faltan \ {f}]
  <2>1. r \in EstadoReset /\ r.k \in Fichas /\ reset' = [reset EXCEPT ![q] = r]
    BY <1>6, <1>m, <1>k DEF TomarCerrojo, EstadoReset, ResetOK
  <2> HIDE DEF r
  <2> QED BY <1>6, <2>1, <1>f DEF TomarCerrojo
<1>7. CASE SeleccionarSesiones(q)
  <2> DEFINE r == [reset[q] EXCEPT !.pc = "revocando", !.filas = {s \in Sesiones : Viva(s)}]
  <2>1. r \in EstadoReset /\ r.k \in Fichas /\ reset' = [reset EXCEPT ![q] = r]
    BY <1>7, <1>m, <1>k DEF SeleccionarSesiones, EstadoReset, ResetOK
  <2> HIDE DEF r
  <2> QED BY <1>7, <2>1, <1>f DEF SeleccionarSesiones
<1>8. CASE RevocarTodas(q)
  <2> DEFINE r == [reset[q] EXCEPT !.pc = "caducar", !.filas = {s \in reset[q].filas : Viva(s)}]
  <2>1. r \in EstadoReset /\ r.k \in Fichas /\ reset' = [reset EXCEPT ![q] = r]
    BY <1>8, <1>m, <1>k DEF RevocarTodas, EstadoReset, ResetOK
  <2> HIDE DEF r
  <2> QED BY <1>8, <2>1, <1>f DEF RevocarTodas
<1>9. CASE ConfirmarReset(q)
  <2>1. reset[q].k \in Fichas /\ reset[q].ahora \in Nat
    BY <1>9, <1>m, <1>k DEF ConfirmarReset, EstadoReset
  <2>2. FichaOK'
    <3>1. CaducarFichas(reset[q].ahora) \in [Fichas -> FilaFicha]
      BY <2>1, <1>m, TokenTypes
    <3>2. [ficha[reset[q].k] EXCEPT !.status = "CONSUMED"] \in FilaFicha
      BY <2>1, <1>m DEF FichaOK, FilaFicha
    <3>3. clave' \in Nat
      BY <1>9, <1>m DEF ConfirmarReset, FichaOK
    <3> QED BY <1>9, <2>1, <3>1, <3>2, <3>3 DEF ConfirmarReset, FichaOK
  <2>3. SesionOK' /\ \A s \in Sesiones : sesion'[s].familia = sesion[s].familia
    BY <1>9, <1>m DEF ConfirmarReset, RevocarFilas, SesionOK, FilaSesion
  <2>4. Entregadas' /\ PeticionOK'
    BY <1>9, <2>3, CreadaStays DEF ConfirmarReset
  <2>5. ResetOK'
    <3> DEFINE r == [SinReset EXCEPT !.pc = "aviso", !.k = reset[q].k]
    <3>1. r \in EstadoReset /\ r.k \in Fichas /\ reset' = [reset EXCEPT ![q] = r]
      BY <1>9, <2>1, <1>m DEF ConfirmarReset, SinReset, EstadoReset
    <3> HIDE DEF r
    <3> QED BY <3>1, <1>m, PutReset
  <2> QED BY <1>9, <2>2, <2>3, <2>4, <2>5, Keep, Pieces DEF ConfirmarReset
<1>10. CASE AvisarDelCambio(q)
  <2>1. ResetOK'
    BY <1>10, <1>m, PutReset DEF AvisarDelCambio, SinReset
  <2>2. ColaOK'
    BY <1>10, <1>m, <1>k DEF AvisarDelCambio, ColaOK
  <2>3. (reloj \in 0..MaxReloj /\ fallos \in 0..MaxFallos)'
    BY <1>10, FaultTypes, Keep DEF AvisarDelCambio
  <2> QED BY <1>10, <2>1, <2>2, <2>3, Keep, Pieces DEF AvisarDelCambio
<1> QED BY <1>1, <1>3, <1>4, <1>5, <1>6, <1>7, <1>8, <1>9, <1>10 DEF PasoReset

LEMMA AbortTypes ==
  ASSUME TypeInv, CaeApi \/ \E q, r \in Resets : Interbloqueo(q, r)
  PROVE  TypeInv'
<1>1. CASE CaeApi
  <2>1. PeticionOK' /\ OlvidoOK' /\ ResetOK'
    BY <1>1, SupuestosSesion DEF CaeApi, PeticionOK, SinPeticion, EstadoPeticion, OlvidoOK,
       SinOlvido, EstadoOlvido, ResetOK, SinReset, EstadoReset
  <2> QED BY <1>1, <2>1, FaultTypes, Keep, Pieces DEF CaeApi
<1>2. ASSUME NEW q \in Resets, NEW r \in Resets, Interbloqueo(q, r) PROVE TypeInv'
  <2>1. SinReset \in EstadoReset /\ SinReset.pc = "libre"
    BY DEF SinReset, EstadoReset
  <2>2. PICK v \in Resets : reset' = [reset EXCEPT ![v] = SinReset]
    BY <1>2 DEF Interbloqueo
  <2>3. ResetOK'
    BY <2>1, <2>2, PutReset DEF TypeInv, TypeOK
  <2> QED BY <1>2, <2>3, Keep, Pieces DEF Interbloqueo, soloReset, deSesion
<1> QED BY <1>1, <1>2

LEMMA StepTypes == TypeInv /\ [Next]_vars => TypeInv'
<1> SUFFICES ASSUME TypeInv, [Next]_vars PROVE TypeInv'
  OBVIOUS
<1>1. CASE UNCHANGED vars
  BY <1>1, Keep, Pieces DEF vars
<1>2. CASE Tick
  <2>1. (reloj \in 0..MaxReloj /\ fallos \in 0..MaxFallos)'
    BY <1>2, SupuestosSesion DEF Tick, TypeInv, TypeOK
  <2> QED BY <1>2, <2>1, Keep, Pieces DEF Tick
<1> QED BY <1>1, <1>2, LoginTypes, RequestTypes, ForgotTypes, ResetTypes, AbortTypes DEF Next
-----------------------------------------------------------------------------
(* Locks.  Most steps replace one request in memory: what they must respect   *)
(* to keep the invariant is the hypothesis of PutLocks and PutResetLocks.     *)

\* A step of a request that leaves the sessions alone.
LEMMA PutLocks ==
  ASSUME IInv, NEW p \in Peticiones, NEW f \in EstadoPeticion,
         sesion' = sesion, reset' = reset, peticion' = [peticion EXCEPT ![p] = f],
         f.pc \in {"cas", "insertar", "revocando"} =>
           \/ ~FamiliaBloqueada(Familia(f.o))
           \/ Tiene(p) /\ f.o = peticion[p].o,
         f.pc = "insertar" => Viva(f.o) /\ ~SesionBloqueada(f.o),
         f.pc = "revocando" => VivasDe(Familia(f.o)) \subseteq f.filas
  PROVE  Locks' /\ OneLivePerFamily'
<1> USE DEF Familia, Viva, VivasDe, Tiene, FamiliaDe
<1>m. PeticionOK /\ Locks /\ OneLivePerFamily
  BY DEF IInv, TypeInv, TypeOK
<1>1. /\ peticion'[p] = f
      /\ \A r \in Peticiones : r # p => peticion'[r] = peticion[r]
  BY <1>m DEF PeticionOK
<1>2. ExclusionP'
  BY <1>m, <1>1 DEF Locks, ExclusionP, FamiliaBloqueada
<1>3. ExclusionR'
  BY <1>m, <1>1 DEF Locks, ExclusionR, FamiliaBloqueada, CerrojoDe
<1>4. MadreViva' /\ FilasP'
  BY <1>m, <1>1 DEF Locks, MadreViva, FilasP
<1>5. FilasR' /\ Listadas' /\ OneLivePerFamily'
  BY <1>m DEF Locks, FilasR, Listadas, Abierta, OneLivePerFamily
<1>6. FilasLibres'
  BY <1>m, <1>1 DEF Locks, FilasLibres, SesionBloqueada
<1> QED BY <1>2, <1>3, <1>4, <1>5, <1>6 DEF Locks

\* A step of a reset that leaves the sessions alone.
LEMMA PutResetLocks ==
  ASSUME IInv, NEW q \in Resets, NEW r \in EstadoReset,
         sesion' = sesion, peticion' = peticion, reset' = [reset EXCEPT ![q] = r],
         \A f \in r.familias \ r.faltan : f \in CerrojoDe(q) \/ ~FamiliaBloqueada(f),
         \A f \in r.familias : Abierta(f),
         r.pc \in {"revocando", "caducar"} =>
           /\ r.faltan = {}
           /\ \A f \in r.familias : VivasDe(f) \subseteq r.filas,
         r.pc = "caducar" => \A s \in r.filas : ~SesionBloqueada(s)
  PROVE  Locks' /\ OneLivePerFamily'
<1> USE DEF Familia, Viva, VivasDe, Tiene, FamiliaDe
<1>m. ResetOK /\ Locks /\ OneLivePerFamily
  BY DEF IInv, TypeInv, TypeOK
<1>1. /\ reset'[q] = r
      /\ \A u \in Resets : u # q => reset'[u] = reset[u]
  BY <1>m DEF ResetOK
<1>2. ExclusionP' /\ MadreViva' /\ FilasP' /\ OneLivePerFamily'
  BY <1>m DEF Locks, ExclusionP, MadreViva, FilasP, OneLivePerFamily
<1>3. ExclusionR'
  BY <1>m, <1>1 DEF Locks, ExclusionR, FamiliaBloqueada, CerrojoDe
<1>4. FilasR' /\ Listadas'
  BY <1>m, <1>1 DEF Locks, FilasR, Listadas, Abierta
<1>5. FilasLibres'
  BY <1>m, <1>1 DEF Locks, FilasLibres, SesionBloqueada
<1> QED BY <1>2, <1>3, <1>4, <1>5 DEF Locks

\* A step that touches neither sessions nor these requests.
LEMMA SameLocks ==
  ASSUME IInv, sesion' = sesion, peticion' = peticion, reset' = reset
  PROVE  Locks' /\ OneLivePerFamily'
BY DEF IInv, Locks, ExclusionP, ExclusionR, MadreViva, FilasP, FilasR, FilasLibres, Listadas,
       Abierta, OneLivePerFamily, Familia, Viva, VivasDe, Tiene, FamiliaDe, CerrojoDe

\* The steps of a refresh or logout that do not write sessions.
LEMMA RequestLocks ==
  ASSUME IInv, TypeInv', NEW p \in Peticiones,
         \/ LeerSesion(p) \/ BuscarViva(p) \/ RotarBloquear(p) \/ RotarCas(p) \/ Firmar(p)
         \/ RevocarBloquear(p) \/ \E s \in Sesiones, l \in BOOLEAN : Pedir(p, s, l)
  PROVE  Locks' /\ OneLivePerFamily'
<1> USE DEF deClave, soloPeticion
<1>m. PeticionOK /\ peticion[p] \in EstadoPeticion
  BY DEF IInv, TypeInv, TypeOK, PeticionOK
<1>e. ASSUME sesion' = sesion, reset' = reset,
             \/ Rechazada(p) \/ Revocara(p) \/ \E o : Rotara(p, o) \/ \E r : Gracia(p, r)
      PROVE  Locks' /\ OneLivePerFamily'
  <2> DEFINE Bien == /\ peticion'[p].pc \in {"viva", "rotar", "revocar", "libre"}
                     /\ \A r \in Peticiones : r # p => peticion'[r] = peticion[r]
  <2>a. Rechazada(p) => Bien
    BY <1>m DEF Rechazada, PeticionOK, SinPeticion
  <2>b. Revocara(p) => Bien
    BY <1>m DEF Revocara, PeticionOK, EstadoPeticion
  <2>c. ASSUME NEW o, Rotara(p, o) PROVE Bien
    BY <2>c, <1>m DEF Rotara, PeticionOK, EstadoPeticion
  <2>d. peticion' = [peticion EXCEPT ![p].pc = "viva"] => Bien
    BY <1>m DEF PeticionOK, EstadoPeticion
  <2> HIDE DEF Bien
  <2>g. ASSUME NEW r, Gracia(p, r) PROVE Bien
    BY <2>a, <2>b, <2>d, <2>g DEF Gracia
  <2>1. Bien
    BY <1>e, <2>a, <2>b, <2>c, <2>g
  <2> USE DEF Bien
  <2>2. peticion' = [peticion EXCEPT ![p] = peticion'[p]] /\ peticion'[p] \in EstadoPeticion
    BY <2>1, <1>m DEF TypeInv, TypeOK, PeticionOK
  <2> QED BY <1>e, <2>1, <2>2, PutLocks
<1>1. ASSUME NEW s \in Sesiones, NEW l \in BOOLEAN, Pedir(p, s, l) PROVE Locks' /\ OneLivePerFamily'
  <2>1. /\ peticion'[p].pc \in {"revocar", "leer"} /\ sesion' = sesion /\ reset' = reset
        /\ \A r \in Peticiones : r # p => peticion'[r] = peticion[r]
    BY <1>1, <1>m DEF Pedir, PeticionOK, SinPeticion
  <2>2. peticion' = [peticion EXCEPT ![p] = peticion'[p]] /\ peticion'[p] \in EstadoPeticion
    BY <2>1, <1>m DEF TypeInv, TypeOK, PeticionOK
  <2> QED BY <2>1, <2>2, PutLocks
<1>2. CASE LeerSesion(p)
  BY <1>2, <1>e DEF LeerSesion
<1>3. CASE BuscarViva(p)
  BY <1>3, <1>e DEF BuscarViva
<1>4. CASE RotarBloquear(p)
  <2> DEFINE f == [peticion[p] EXCEPT !.pc = "cas"]
  <2>1. /\ f \in EstadoPeticion /\ f.pc = "cas" /\ f.o = peticion[p].o
        /\ peticion' = [peticion EXCEPT ![p] = f]
    BY <1>4, <1>m DEF RotarBloquear, EstadoPeticion, PeticionOK
  <2> HIDE DEF f
  <2> QED BY <1>4, <2>1, PutLocks DEF RotarBloquear
<1>5. CASE RotarCas(p)
  <2>1. CASE Viva(peticion[p].o)
    <3> DEFINE f == [peticion[p] EXCEPT !.pc = "insertar"]
    <3>1. /\ f \in EstadoPeticion /\ f.pc = "insertar" /\ f.o = peticion[p].o
          /\ peticion' = [peticion EXCEPT ![p] = f]
      BY <1>5, <2>1, <1>m DEF RotarCas, EstadoPeticion, PeticionOK
    <3> HIDE DEF f
    <3> QED BY <1>5, <2>1, <3>1, PutLocks DEF RotarCas, Tiene
  <2> QED BY <1>5, <2>1, <1>e DEF RotarCas
<1>6. CASE Firmar(p)
  BY <1>6, <1>e DEF Firmar
<1>7. CASE RevocarBloquear(p)
  <2> DEFINE f == [peticion[p] EXCEPT !.pc = "revocando", !.filas = VivasDe(FamiliaDe(p))]
  <2>1. /\ f \in EstadoPeticion /\ f.pc = "revocando" /\ f.o = peticion[p].o
        /\ f.filas = VivasDe(Familia(f.o)) /\ peticion' = [peticion EXCEPT ![p] = f]
    BY <1>7, <1>m DEF RevocarBloquear, EstadoPeticion, PeticionOK, VivasDe, FamiliaDe
  <2> HIDE DEF f
  <2> QED BY <1>7, <2>1, PutLocks DEF RevocarBloquear, FamiliaDe
<1> QED BY <1>1, <1>2, <1>3, <1>4, <1>5, <1>6, <1>7
\* A listed family stays open.
LEMMA ListedStay ==
  ASSUME IInv, \A t \in Sesiones : Creada(t) => Familia(t)' = Familia(t),
         \A q \in Resets : reset'[q].familias \subseteq reset[q].familias
  PROVE  Listadas'
<1> SUFFICES ASSUME NEW q \in Resets, NEW f \in reset'[q].familias PROVE Abierta(f)'
  BY DEF Listadas
<1>1. PICK t \in Sesiones : Familia(t) = f
  BY DEF IInv, Locks, Listadas, Abierta
<1>2. f \in Familias
  BY DEF IInv, TypeInv, TypeOK, ResetOK, EstadoReset
<1>3. Creada(t)
  BY <1>1, <1>2, SupuestosSesion DEF Creada
<1> QED BY <1>1, <1>3 DEF Abierta

\* A login opens a family nobody knows of.
LEMMA LoginLocks ==
  ASSUME IInv, NEW s \in Sesiones, NEW f \in Familias, Login(s, f)
  PROVE  Locks' /\ OneLivePerFamily'
<1> USE DEF deClave
<1>m. SesionOK /\ PeticionOK /\ Locks /\ OneLivePerFamily
  BY DEF IInv, TypeInv, TypeOK
<1>1. /\ peticion' = peticion /\ reset' = reset
      /\ ~Creada(s) /\ \A t \in Sesiones : Familia(t) # f
      /\ Familia(s)' = f
      /\ \A t \in Sesiones \ {s} : sesion'[t] = sesion[t]
  BY <1>m DEF Login, Creada, Familia, SesionOK, Nueva
<1>2. \A g \in Familias \ {f} : VivasDe(g)' = VivasDe(g)
  BY <1>1, <1>m DEF VivasDe, Viva, Familia, Creada
<1>3. VivasDe(f)' \subseteq {s}
  BY <1>1 DEF VivasDe, Familia
<1>4. \A t \in Sesiones : Creada(t) => Familia(t)' = Familia(t) /\ (Viva(t)' <=> Viva(t)) /\ Familia(t) \in Familias \ {f}
  BY <1>1, <1>m DEF Creada, Familia, Viva, SesionOK, FilaSesion
<1>5. \A p \in Peticiones : Tiene(p) => Creada(peticion[p].o)
  BY <1>m DEF Tiene, PeticionOK, Creada
<1>6. \A p \in Peticiones : Tiene(p) => FamiliaDe(p)' = FamiliaDe(p) /\ FamiliaDe(p) \in Familias \ {f}
  BY <1>1, <1>4, <1>5 DEF FamiliaDe, Creada, Familia
<1>7. ExclusionP' /\ ExclusionR'
  BY <1>1, <1>6, <1>m DEF Locks, ExclusionP, ExclusionR, Tiene, CerrojoDe
<1>8. MadreViva'
  BY <1>1, <1>4, <1>5, <1>m DEF Locks, MadreViva, Tiene, Creada, Viva, Familia
<1>9. FilasP'
  BY <1>1, <1>2, <1>6, <1>m DEF Locks, FilasP, Tiene
<1>10. Listadas'
  BY <1>1, <1>4, ListedStay DEF Creada
<1>11. FilasR'
  <2>1. \A q \in Resets : reset[q].familias \subseteq Familias \ {f}
    BY <1>1, <1>m DEF Locks, Listadas, Abierta, IInv, TypeInv, TypeOK, ResetOK, EstadoReset
  <2> QED BY <1>1, <1>2, <2>1, <1>m DEF Locks, FilasR
<1>12. FilasLibres'
  BY <1>1, <1>m DEF Locks, FilasLibres
<1>13. OneLivePerFamily'
  BY <1>2, <1>3, <1>m DEF OneLivePerFamily
<1> QED BY <1>7, <1>8, <1>9, <1>10, <1>11, <1>12, <1>13 DEF Locks

\* A rotation replaces the only living session of a family nobody else has.
LEMMA RotationLocks ==
  ASSUME IInv, NEW p \in Peticiones, NEW n \in Sesiones, RotarInsertar(p, n)
  PROVE  Locks' /\ OneLivePerFamily'
<1> USE DEF deClave
<1>d. SUFFICES ASSUME NEW o, NEW f, o = peticion[p].o, f = FamiliaDe(p)
      PROVE  Locks' /\ OneLivePerFamily'
  OBVIOUS
<1>m. SesionOK /\ PeticionOK /\ ResetOK /\ Locks /\ OneLivePerFamily
  BY DEF IInv, TypeInv, TypeOK
<1>0. /\ Tiene(p) /\ peticion[p].pc = "insertar" /\ peticion'[p].pc = "firmar"
      /\ o \in Sesiones /\ Viva(o) /\ Creada(o) /\ Familia(o) = f /\ f \in Familias
      /\ ~Creada(n) /\ n # o /\ reset' = reset /\ reloj # None
      /\ \A r \in Peticiones : r # p => peticion'[r] = peticion[r]
  BY <1>d, <1>m, SupuestosSesion
  DEF RotarInsertar, Tiene, FamiliaDe, PeticionOK, EstadoPeticion, Creada, Familia, Locks,
      MadreViva, SesionOK, FilaSesion, IInv, TypeInv, TypeOK
<1>1. /\ sesion'[n].familia = f /\ sesion'[o].familia = f /\ sesion'[o].revokedAt # None
      /\ \A t \in Sesiones \ {n, o} : sesion'[t] = sesion[t]
  BY <1>d, <1>0, <1>m DEF RotarInsertar, SesionOK, FilaSesion, Nueva, FamiliaDe, Familia
<1>2. \A g \in Familias \ {f} : VivasDe(g)' = VivasDe(g)
  BY <1>0, <1>1 DEF VivasDe, Viva, Familia, Creada
<1>3. VivasDe(f)' \subseteq {n}
  <2> SUFFICES ASSUME NEW t \in Sesiones, t # n, Viva(t)', Familia(t)' = f PROVE FALSE
    BY DEF VivasDe
  <2>1. t # o
    BY <1>1 DEF Viva
  <2>2. Viva(t) /\ Familia(t) = f
    BY <2>1, <1>1 DEF Viva, Familia
  <2> QED BY <2>1, <2>2, <1>0, <1>m DEF OneLivePerFamily, VivasDe
<1>4. \A t \in Sesiones : Creada(t) => Familia(t)' = Familia(t) /\ Familia(t) \in Familias
  BY <1>0, <1>1, <1>m DEF Creada, Familia, SesionOK, FilaSesion
<1>5. \A r \in Peticiones : Tiene(r)' =>
        /\ r # p /\ Tiene(r) /\ peticion'[r] = peticion[r] /\ Creada(peticion[r].o)
        /\ FamiliaDe(r)' = FamiliaDe(r) /\ FamiliaDe(r) \in Familias \ {f}
  <2> SUFFICES ASSUME NEW r \in Peticiones, Tiene(r)' PROVE
        /\ r # p /\ Tiene(r) /\ peticion'[r] = peticion[r] /\ Creada(peticion[r].o)
        /\ FamiliaDe(r)' = FamiliaDe(r) /\ FamiliaDe(r) \in Familias \ {f}
    OBVIOUS
  <2>1. r # p /\ Tiene(r) /\ peticion'[r] = peticion[r]
    BY <1>0 DEF Tiene
  <2>2. Creada(peticion[r].o)
    BY <2>1, <1>m DEF Tiene, PeticionOK, Creada
  <2>3. FamiliaDe(r)' = FamiliaDe(r) /\ FamiliaDe(r) \in Familias
    BY <2>1, <2>2, <1>4 DEF FamiliaDe, Familia, Creada
  <2>4. FamiliaDe(r) # f
    BY <2>1, <1>d, <1>0, <1>m DEF Locks, ExclusionP
  <2> QED BY <2>1, <2>2, <2>3, <2>4
<1>6. ExclusionP' /\ ExclusionR'
  <2>1. ExclusionP'
    BY <1>5, <1>m DEF Locks, ExclusionP
  <2>2. ExclusionR'
    BY <1>0, <1>5, <1>m DEF Locks, ExclusionR, CerrojoDe
  <2> QED BY <2>1, <2>2
<1>7. MadreViva'
  <2> SUFFICES ASSUME NEW r \in Peticiones, peticion'[r].pc = "insertar" PROVE Viva(peticion[r].o)'
    BY DEF MadreViva
  <2>1. r # p /\ peticion'[r] = peticion[r] /\ Creada(peticion[r].o) /\ FamiliaDe(r) # f
    BY <1>5 DEF Tiene
  <2>2. peticion[r].o # o /\ peticion[r].o # n
    BY <2>1, <1>d, <1>0 DEF FamiliaDe
  <2>3. Viva(peticion[r].o)
    BY <2>1, <1>m DEF Locks, MadreViva
  <2> QED BY <2>1, <2>2, <2>3, <1>1 DEF Viva, Familia, Creada
<1>8. FilasP'
  BY <1>2, <1>5, <1>m DEF Locks, FilasP, Tiene
<1>9. Listadas'
  BY <1>0, <1>4, ListedStay DEF Creada
<1>10. FilasR'
  <2>1. \A q \in Resets : reset[q].pc \in {"revocando", "caducar"} =>
          reset[q].familias \subseteq Familias \ {f}
    BY <1>d, <1>0, <1>m DEF Locks, FilasR, ExclusionR, CerrojoDe, ResetOK, EstadoReset
  <2> QED BY <1>0, <1>2, <2>1, <1>m DEF Locks, FilasR
<1>11. FilasLibres'
  BY <1>0, <1>5, <1>m DEF Locks, FilasLibres, Tiene
<1>12. OneLivePerFamily'
  <2> SUFFICES ASSUME NEW g \in Familias, NEW s \in VivasDe(g)', NEW t \in VivasDe(g)'
                 PROVE  s = t
    BY DEF OneLivePerFamily
  <2>1. CASE g = f
    BY <2>1, <1>3
  <2>2. CASE g # f
    <3>1. s \in VivasDe(g) /\ t \in VivasDe(g)
      BY <2>2, <1>2
    <3> QED BY <3>1, <1>m DEF OneLivePerFamily
  <2> QED BY <2>1, <2>2
<1> QED BY <1>6, <1>7, <1>8, <1>9, <1>10, <1>11, <1>12 DEF Locks

\* What a revocation does to each session and family.
LEMMA RevokedSessions ==
  ASSUME TypeInv, NEW filas, RevocarFilas(filas)
  PROVE  /\ \A s \in Sesiones : Familia(s)' = Familia(s) /\ (Viva(s)' <=> Viva(s) /\ s \notin filas)
         /\ \A f : VivasDe(f)' = VivasDe(f) \ filas
<1>1. SesionOK /\ reloj \in Nat /\ None \notin Nat
  BY SupuestosSesion DEF TypeInv, TypeOK
<1>2. ASSUME NEW s \in Sesiones
      PROVE  Familia(s)' = Familia(s) /\ (Viva(s)' <=> Viva(s) /\ s \notin filas)
  <2>1. sesion'[s] = IF s \in filas /\ Viva(s) THEN [sesion[s] EXCEPT !.revokedAt = reloj]
                     ELSE sesion[s]
    BY DEF RevocarFilas
  <2> QED BY <2>1, <1>1 DEF Viva, Familia, SesionOK, FilaSesion
<1> QED BY <1>2 DEF VivasDe

\* A revocation whose rows nobody is rotating.
LEMMA RevocationKeeps ==
  ASSUME IInv, NEW filas, RevocarFilas(filas),
         \A r \in Peticiones : Tiene(r)' => Tiene(r) /\ peticion'[r] = peticion[r],
         \A r \in Peticiones : peticion[r].pc = "insertar" => peticion[r].o \notin filas,
         \A u \in Resets : \/ reset'[u] = reset[u]
                           \/ reset'[u].familias = {} /\ reset'[u].pc \notin {"revocando", "caducar"}
  PROVE  Locks' /\ OneLivePerFamily'
<1>m. PeticionOK /\ Locks /\ OneLivePerFamily
  BY DEF IInv, TypeInv, TypeOK
<1>1. /\ \A s \in Sesiones : Familia(s)' = Familia(s) /\ (Viva(s)' <=> Viva(s) /\ s \notin filas)
      /\ \A f : VivasDe(f)' \subseteq VivasDe(f)
  BY RevokedSessions DEF IInv
<1>2. ASSUME NEW r \in Peticiones, Tiene(r)'
      PROVE  /\ Tiene(r) /\ peticion'[r] = peticion[r] /\ peticion[r].o \in Sesiones
             /\ FamiliaDe(r)' = FamiliaDe(r)
  <2>1. Tiene(r) /\ peticion'[r] = peticion[r]
    BY <1>2
  <2>2. peticion[r].o \in Sesiones
    BY <2>1, <1>m DEF Tiene, PeticionOK
  <2> QED BY <2>1, <2>2, <1>1 DEF FamiliaDe
<1>3. ExclusionP'
  BY <1>2, <1>m DEF Locks, ExclusionP
<1>4. \A u \in Resets : CerrojoDe(u)' \subseteq CerrojoDe(u)
  BY DEF CerrojoDe
<1>5. ExclusionR'
  BY <1>2, <1>4, <1>m DEF Locks, ExclusionR
<1>6. MadreViva'
  <2> SUFFICES ASSUME NEW r \in Peticiones, peticion'[r].pc = "insertar" PROVE Viva(peticion[r].o)'
    BY DEF MadreViva
  <2>1. peticion'[r] = peticion[r] /\ peticion[r].o \in Sesiones
    BY <1>2 DEF Tiene
  <2>2. PICK o : o = peticion[r].o
    OBVIOUS
  <2>3. Viva(o)'
    BY <2>1, <2>2, <1>1, <1>m DEF Locks, MadreViva
  <2> QED BY <2>1, <2>2, <2>3 DEF Viva, Familia
<1>7. FilasP'
  <2> SUFFICES ASSUME NEW r \in Peticiones, peticion'[r].pc = "revocando"
               PROVE  VivasDe(FamiliaDe(r))' \subseteq peticion'[r].filas
    BY DEF FilasP
  <2>1. peticion'[r] = peticion[r] /\ FamiliaDe(r)' = FamiliaDe(r)
    BY <1>2 DEF Tiene
  <2>2. VivasDe(FamiliaDe(r)) \subseteq peticion[r].filas
    BY <2>1, <1>m DEF Locks, FilasP
  <2>3. PICK f : f = FamiliaDe(r)
    OBVIOUS
  <2>4. VivasDe(f)' \subseteq VivasDe(f) /\ VivasDe(FamiliaDe(r))' = VivasDe(f)'
    BY <2>1, <2>3, <1>1 DEF VivasDe
  <2> QED BY <2>1, <2>2, <2>3, <2>4
<1>8. FilasR'
  BY <1>1, <1>m DEF Locks, FilasR
<1>9. FilasLibres'
  BY <1>2, <1>m DEF Locks, FilasLibres, Tiene
<1>10. Listadas'
  BY <1>1, ListedStay
<1>11. OneLivePerFamily'
  BY <1>1, <1>m DEF OneLivePerFamily
<1> QED BY <1>3, <1>5, <1>6, <1>7, <1>8, <1>9, <1>10, <1>11 DEF Locks

\* revocarFamilia and the reset, at their commits.
LEMMA RevocationLocks ==
  ASSUME IInv, NEW p \in Peticiones, RevocarConfirmar(p)
  PROVE  Locks' /\ OneLivePerFamily'
<1>1. \A r \in Peticiones : Tiene(r)' => Tiene(r) /\ peticion'[r] = peticion[r]
  BY DEF IInv, TypeInv, TypeOK, PeticionOK, RevocarConfirmar, Rechazada, SinPeticion, Tiene
<1>2. \A r \in Peticiones : peticion[r].pc = "insertar" => peticion[r].o \notin peticion[p].filas
  BY DEF RevocarConfirmar, SesionBloqueada
<1>3. reset' = reset /\ RevocarFilas(peticion[p].filas)
  BY DEF RevocarConfirmar, deClave
<1> QED BY <1>1, <1>2, <1>3, RevocationKeeps

LEMMA ResetCommitLocks ==
  ASSUME IInv, NEW q \in Resets, ConfirmarReset(q)
  PROVE  Locks' /\ OneLivePerFamily'
<1>1. peticion' = peticion /\ RevocarFilas(reset[q].filas) /\ reset[q].pc = "caducar"
  BY DEF ConfirmarReset
<1>2. \A r \in Peticiones : Tiene(r)' => Tiene(r) /\ peticion'[r] = peticion[r]
  BY <1>1 DEF Tiene
<1>3. \A r \in Peticiones : peticion[r].pc = "insertar" => peticion[r].o \notin reset[q].filas
  BY <1>1 DEF IInv, Locks, FilasLibres
<1>4. \A u \in Resets : \/ reset'[u] = reset[u]
                        \/ reset'[u].familias = {} /\ reset'[u].pc \notin {"revocando", "caducar"}
  BY DEF IInv, TypeInv, TypeOK, ResetOK, ConfirmarReset, SinReset
<1> QED BY <1>1, <1>2, <1>3, <1>4, RevocationKeeps

\* The other steps of a reset write no session.
LEMMA ResetLocks ==
  ASSUME IInv, TypeInv', NEW q \in Resets,
         \/ Consumir(q) \/ ActualizarPassword(q) \/ ListarFamilias(q) \/ SeleccionarSesiones(q)
         \/ RevocarTodas(q) \/ AvisarDelCambio(q)
         \/ (\E f \in Familias : TomarCerrojo(q, f)) \/ \E k \in Fichas : UsarEnlace(q, k)
  PROVE  Locks' /\ OneLivePerFamily'
<1> USE DEF soloReset, deSesion
<1>m. ResetOK /\ reset[q] \in EstadoReset /\ Locks /\ OneLivePerFamily
  BY DEF IInv, TypeInv, TypeOK, ResetOK
<1>0. \A f \in reset[q].familias : Abierta(f)
  BY <1>m DEF Locks, Listadas
\* The steps that keep what the reset holds, or drop it all.
<1>e. ASSUME sesion' = sesion, peticion' = peticion, NEW r \in EstadoReset,
             reset' = [reset EXCEPT ![q] = r], r.pc \notin {"revocando", "caducar"},
             r.familias = reset[q].familias, r.faltan = reset[q].faltan
      PROVE  Locks' /\ OneLivePerFamily'
  BY <1>e, <1>0, PutResetLocks DEF CerrojoDe
<1>z. ASSUME sesion' = sesion, peticion' = peticion, NEW r \in EstadoReset,
             reset' = [reset EXCEPT ![q] = r], r.pc \notin {"revocando", "caducar"},
             r.familias = {}
      PROVE  Locks' /\ OneLivePerFamily'
  BY <1>z, PutResetLocks
<1>1. CASE Consumir(q)
  <2>1. CASE reset' = [reset EXCEPT ![q] = SinReset]
    <3>1. SinReset \in EstadoReset /\ SinReset.pc = "libre" /\ SinReset.familias = {}
      BY DEF SinReset, EstadoReset
    <3> QED BY <1>1, <2>1, <3>1, <1>z DEF Consumir
  <2>2. CASE reset' = [reset EXCEPT ![q].pc = "clave"]
    <3> DEFINE r == [reset[q] EXCEPT !.pc = "clave"]
    <3>1. /\ r \in EstadoReset /\ r.pc = "clave" /\ r.familias = reset[q].familias
          /\ r.faltan = reset[q].faltan /\ reset' = [reset EXCEPT ![q] = r]
      BY <2>2, <1>m DEF EstadoReset, ResetOK
    <3> HIDE DEF r
    <3> QED BY <1>1, <3>1, <1>e DEF Consumir
  <2> QED BY <1>1, <2>1, <2>2 DEF Consumir
<1>2. CASE ActualizarPassword(q)
  <2> DEFINE r == [reset[q] EXCEPT !.pc = "listar"]
  <2>1. /\ r \in EstadoReset /\ r.pc = "listar" /\ r.familias = reset[q].familias
        /\ r.faltan = reset[q].faltan /\ reset' = [reset EXCEPT ![q] = r]
    BY <1>2, <1>m DEF ActualizarPassword, EstadoReset, ResetOK
  <2> HIDE DEF r
  <2> QED BY <1>2, <2>1, <1>e DEF ActualizarPassword
<1>3. CASE ListarFamilias(q)
  <2>1. PICK fs \in SUBSET Familias : fs = {f \in Familias : VivasDe(f) # {}}
    OBVIOUS
  <2> DEFINE r == [reset[q] EXCEPT !.pc = "cerrojos", !.familias = fs, !.faltan = fs]
  <2>2. /\ r \in EstadoReset /\ r.pc = "cerrojos" /\ r.familias = fs /\ r.faltan = fs
        /\ reset' = [reset EXCEPT ![q] = r]
    BY <1>3, <2>1, <1>m DEF ListarFamilias, EstadoReset, ResetOK
  <2>3. \A f \in fs : Abierta(f)
    BY <2>1 DEF Abierta, VivasDe
  <2> HIDE DEF r
  <2> QED BY <1>3, <2>2, <2>3, PutResetLocks DEF ListarFamilias
<1>4. ASSUME NEW f \in Familias, TomarCerrojo(q, f) PROVE Locks' /\ OneLivePerFamily'
  <2> DEFINE r == [reset[q] EXCEPT !.faltan = reset[q].faltan \ {f}]
  <2>1. /\ r \in EstadoReset /\ r.pc = "cerrojos" /\ r.familias = reset[q].familias
        /\ r.faltan = reset[q].faltan \ {f} /\ reset' = [reset EXCEPT ![q] = r]
    BY <1>4, <1>m DEF TomarCerrojo, EstadoReset, ResetOK
  <2> HIDE DEF r
  <2>2. \A g \in r.familias \ r.faltan : g \in CerrojoDe(q) \/ ~FamiliaBloqueada(g)
    BY <1>4, <2>1 DEF TomarCerrojo, CerrojoDe
  <2> QED BY <1>4, <2>1, <2>2, <1>0, PutResetLocks DEF TomarCerrojo
<1>5. CASE SeleccionarSesiones(q)
  <2> DEFINE r == [reset[q] EXCEPT !.pc = "revocando", !.filas = {s \in Sesiones : Viva(s)}]
  <2>1. /\ r \in EstadoReset /\ r.pc = "revocando" /\ r.familias = reset[q].familias
        /\ r.faltan = {} /\ r.filas = {s \in Sesiones : Viva(s)}
        /\ reset' = [reset EXCEPT ![q] = r]
    BY <1>5, <1>m DEF SeleccionarSesiones, EstadoReset, ResetOK
  <2>2. \A f : VivasDe(f) \subseteq {s \in Sesiones : Viva(s)}
    BY DEF VivasDe
  <2> HIDE DEF r
  <2>3. \A f \in r.familias \ r.faltan : f \in CerrojoDe(q)
    BY <1>5, <2>1 DEF SeleccionarSesiones, CerrojoDe
  <2> QED BY <1>5, <2>1, <2>2, <2>3, <1>0, PutResetLocks DEF SeleccionarSesiones
<1>6. CASE RevocarTodas(q)
  <2> DEFINE r == [reset[q] EXCEPT !.pc = "caducar", !.filas = {s \in reset[q].filas : Viva(s)}]
  <2>1. /\ r \in EstadoReset /\ r.pc = "caducar" /\ r.familias = reset[q].familias
        /\ r.faltan = reset[q].faltan /\ r.filas = {s \in reset[q].filas : Viva(s)}
        /\ reset' = [reset EXCEPT ![q] = r]
    BY <1>6, <1>m DEF RevocarTodas, EstadoReset, ResetOK
  <2> HIDE DEF r
  <2>2. /\ r.faltan = {} /\ \A f \in r.familias : VivasDe(f) \subseteq r.filas
        /\ \A s \in r.filas : ~SesionBloqueada(s)
    <3>1. /\ reset[q].faltan = {}
          /\ \A f \in reset[q].familias : VivasDe(f) \subseteq reset[q].filas
      BY <1>6, <1>m DEF RevocarTodas, Locks, FilasR
    <3>2. \A s \in reset[q].filas : ~SesionBloqueada(s)
      BY <1>6 DEF RevocarTodas
    <3> QED BY <2>1, <3>1, <3>2 DEF VivasDe
  <2>3. \A f \in r.familias \ r.faltan : f \in CerrojoDe(q)
    BY <2>1 DEF CerrojoDe
  <2> QED BY <1>6, <2>1, <2>2, <2>3, <1>0, PutResetLocks DEF RevocarTodas
<1>7. CASE AvisarDelCambio(q)
  <2>1. SinReset \in EstadoReset /\ SinReset.pc = "libre" /\ SinReset.familias = {}
    BY DEF SinReset, EstadoReset
  <2> QED BY <1>7, <2>1, <1>z DEF AvisarDelCambio
<1>8. ASSUME NEW k \in Fichas, UsarEnlace(q, k) PROVE Locks' /\ OneLivePerFamily'
  <2> DEFINE r == [SinReset EXCEPT !.pc = "consumir", !.k = k, !.ahora = reloj]
  <2>1. /\ reset'[q] = r /\ r.pc = "consumir" /\ r.familias = {}
        /\ reset' = [reset EXCEPT ![q] = r]
    BY <1>8, <1>m DEF UsarEnlace, SinReset, ResetOK
  <2>2. r \in EstadoReset
    BY <2>1 DEF TypeInv, TypeOK, ResetOK
  <2> HIDE DEF r
  <2> QED BY <1>8, <2>1, <2>2, <1>z DEF UsarEnlace
<1> QED BY <1>1, <1>2, <1>3, <1>4, <1>5, <1>6, <1>7, <1>8

\* A deadlock or a dead process lets go of everything, and writes nothing.
LEMMA AbortLocks ==
  ASSUME IInv, TypeInv', CaeApi \/ \E q, r \in Resets : Interbloqueo(q, r)
  PROVE  Locks' /\ OneLivePerFamily'
<1>1. CASE CaeApi
  <2>1. /\ \A p \in Peticiones : peticion'[p].pc = "libre"
        /\ \A q \in Resets : reset'[q].pc = "libre" /\ reset'[q].familias = {}
        /\ sesion' = sesion
    BY <1>1 DEF CaeApi, SinPeticion, SinReset
  <2>2. Locks'
    BY <2>1 DEF Locks, ExclusionP, ExclusionR, MadreViva, FilasP, FilasR, FilasLibres, Listadas,
                Tiene
  <2>3. OneLivePerFamily'
    BY <2>1 DEF IInv, OneLivePerFamily, VivasDe, Viva, Familia
  <2> QED BY <2>2, <2>3
<1>2. ASSUME NEW q \in Resets, NEW r \in Resets, Interbloqueo(q, r)
      PROVE  Locks' /\ OneLivePerFamily'
  <2>1. SinReset \in EstadoReset /\ SinReset.pc = "libre" /\ SinReset.familias = {}
    BY DEF SinReset, EstadoReset
  <2>2. PICK v \in Resets : reset' = [reset EXCEPT ![v] = SinReset]
    BY <1>2 DEF Interbloqueo
  <2> QED BY <1>2, <2>1, <2>2, PutResetLocks DEF Interbloqueo, soloReset, deSesion
<1> QED BY <1>1, <1>2

\* Every step keeps the inductive invariant.
LEMMA StepInv == IInv /\ [Next]_vars => IInv'
<1> SUFFICES ASSUME IInv, [Next]_vars PROVE IInv'
  OBVIOUS
<1>t. TypeInv'
  BY StepTypes DEF IInv
<1>l. Locks' /\ OneLivePerFamily'
  <2>1. CASE UNCHANGED vars
    BY <2>1, SameLocks DEF vars
  <2>2. CASE Tick
    BY <2>2, SameLocks DEF Tick
  <2>3. ASSUME NEW s \in Sesiones, NEW f \in Familias, Login(s, f)
        PROVE  Locks' /\ OneLivePerFamily'
    BY <2>3, LoginLocks
  <2>4. ASSUME NEW p \in Peticiones,
               PasoPeticion(p) \/ \E s \in Sesiones, l \in BOOLEAN : Pedir(p, s, l)
        PROVE  Locks' /\ OneLivePerFamily'
    BY <2>4, <1>t, RequestLocks, RotationLocks, RevocationLocks DEF PasoPeticion
  <2>5. ASSUME NEW v \in Olvidos, Olvidar(v) \/ PasoOlvido(v)
        PROVE  Locks' /\ OneLivePerFamily'
    <3>1. sesion' = sesion /\ peticion' = peticion /\ reset' = reset
      BY <2>5 DEF Olvidar, PasoOlvido, OlvidoCaducar, OlvidoCrear, OlvidoEncolar, deSesion
    <3> QED BY <3>1, SameLocks
  <2>6. ASSUME NEW q \in Resets, PasoReset(q) \/ \E k \in Fichas : UsarEnlace(q, k)
        PROVE  Locks' /\ OneLivePerFamily'
    BY <2>6, <1>t, ResetLocks, ResetCommitLocks DEF PasoReset
  <2>7. CASE CaeApi \/ \E q, r \in Resets : Interbloqueo(q, r)
    BY <2>7, <1>t, AbortLocks
  <2> QED BY <2>1, <2>2, <2>3, <2>4, <2>5, <2>6, <2>7 DEF Next
<1> QED BY <1>t, <1>l DEF IInv

-----------------------------------------------------------------------------
(* What follows *)

\* The invariant holds in every reachable state.
THEOREM SessionsReachable == Spec => []IInv
<1>1. Init => IInv
  BY InitInv
<1>2. IInv /\ [Next]_vars => IInv'
  BY StepInv
<1> QED BY <1>1, <1>2, PTL DEF Spec

\* Every variable keeps its type.
THEOREM SessionsTyped == Spec => []TypeOK
<1>1. IInv => TypeOK
  BY DEF IInv, TypeInv
<1> QED BY <1>1, SessionsReachable, PTL

\* At most one session of a family is alive, which is what
\* buscarSesionVivaDeFamilia takes for granted.
THEOREM OneLive == Spec => []OneLivePerFamily
<1>1. IInv => OneLivePerFamily
  BY DEF IInv
<1> QED BY <1>1, SessionsReachable, PTL

\* The steps that write sessions are the login, the commit of a rotation and
\* the two revocations.
LEMMA Writers ==
  ASSUME IInv, [Next]_vars
  PROVE  \/ sesion' = sesion
         \/ \E s \in Sesiones, f \in Familias : Login(s, f)
         \/ \E p \in Peticiones, n \in Sesiones : RotarInsertar(p, n)
         \/ \E p \in Peticiones : RevocarConfirmar(p)
         \/ \E q \in Resets : ConfirmarReset(q)
<1> USE DEF deSesion, soloReset, soloPeticion
<1>1. ASSUME NEW p \in Peticiones, PasoPeticion(p), ~RevocarConfirmar(p),
             ~\E n \in Sesiones : RotarInsertar(p, n)
      PROVE  sesion' = sesion
  BY <1>1 DEF PasoPeticion, LeerSesion, BuscarViva, RotarBloquear, RotarCas, Firmar, RevocarBloquear
<1>2. ASSUME NEW p \in Peticiones, NEW s \in Sesiones, NEW l \in BOOLEAN, Pedir(p, s, l)
      PROVE  sesion' = sesion
  BY <1>2 DEF Pedir
<1>3. ASSUME NEW v \in Olvidos, Olvidar(v) \/ PasoOlvido(v) PROVE sesion' = sesion
  BY <1>3 DEF Olvidar, PasoOlvido, OlvidoCaducar, OlvidoCrear, OlvidoEncolar
<1>4. ASSUME NEW q \in Resets, PasoReset(q) \/ \E k \in Fichas : UsarEnlace(q, k),
             ~ConfirmarReset(q)
      PROVE  sesion' = sesion
  BY <1>4 DEF PasoReset, UsarEnlace, Consumir, ActualizarPassword, ListarFamilias, TomarCerrojo,
              SeleccionarSesiones, RevocarTodas, AvisarDelCambio
<1>5. Tick \/ CaeApi \/ (\E q, r \in Resets : Interbloqueo(q, r)) \/ UNCHANGED vars => sesion' = sesion
  BY DEF Tick, CaeApi, Interbloqueo, vars
<1> QED BY <1>1, <1>2, <1>3, <1>4, <1>5 DEF Next

\* A family that is open and dead stays dead in a step.
LEMMA DeadStep ==
  ASSUME IInv, [Next]_vars, NEW f \in Familias, Abierta(f), VivasDe(f) = {}
  PROVE  VivasDe(f)' = {}
<1>1. CASE sesion' = sesion
  BY <1>1 DEF VivasDe, Viva, Familia
<1>2. ASSUME NEW s \in Sesiones, NEW g \in Familias, Login(s, g) PROVE VivasDe(f)' = {}
  <2>1. f # g /\ SesionOK
    BY <1>2 DEF Login, Abierta, IInv, TypeInv, TypeOK
  <2>2. Familia(s)' = g /\ \A t \in Sesiones \ {s} : sesion'[t] = sesion[t]
    BY <1>2, <2>1 DEF Login, Nueva, Familia, SesionOK
  <2> QED BY <2>1, <2>2 DEF VivasDe, Viva, Familia
<1>3. ASSUME NEW p \in Peticiones, NEW n \in Sesiones, RotarInsertar(p, n)
      PROVE  VivasDe(f)' = {}
  <2>1. PICK o : o = peticion[p].o
    OBVIOUS
  <2>2. o \in Sesiones /\ Viva(o) /\ SesionOK
    BY <1>3, <2>1 DEF RotarInsertar, IInv, Locks, MadreViva, TypeInv, TypeOK, PeticionOK
  <2>3. Familia(o) # f /\ n # o
    BY <1>3, <2>2 DEF RotarInsertar, VivasDe, Viva
  <2>4. /\ sesion'[n].familia = Familia(o) /\ sesion'[o].familia = Familia(o)
        /\ \A t \in Sesiones \ {n, o} : sesion'[t] = sesion[t]
    BY <1>3, <2>1, <2>2, <2>3 DEF RotarInsertar, SesionOK, FilaSesion, Nueva, Familia
  <2> QED BY <2>3, <2>4 DEF VivasDe, Viva, Familia
<1>4. ASSUME NEW filas, RevocarFilas(filas) PROVE VivasDe(f)' = {}
  BY <1>4, RevokedSessions DEF IInv
<1> QED BY <1>1, <1>2, <1>3, <1>4, Writers DEF RevocarConfirmar, ConfirmarReset

\* No request in flight brings a dead family back.
THEOREM FamiliesStayDead == Spec => DeadFamilyStaysDead
<1>1. ASSUME IInv, [Next]_vars
      PROVE  [\A f \in Familias : (\E s \in Sesiones : Familia(s) = f) /\ VivasDe(f) = {}
                => VivasDe(f)' = {}]_vars
  BY <1>1, DeadStep DEF Abierta
<1> QED BY <1>1, SessionsReachable, PTL DEF Spec, DeadFamilyStaysDead

\* Only its commit ends a revocation, save the death of the process.
LEMMA RevocationCommit ==
  ASSUME IInv, [Next]_vars, NEW p \in Peticiones, peticion[p].pc = "revocando",
         peticion'[p].pc = "libre", fallos' = fallos
  PROVE  RevocarConfirmar(p)
<1>m. PeticionOK /\ fallos \in Nat
  BY SupuestosSesion DEF IInv, TypeInv, TypeOK
<1>1. ~CaeApi
  BY <1>m DEF CaeApi, Falla
<1>2. peticion' # peticion
  OBVIOUS
<1>3. ASSUME NEW r \in Peticiones, r # p,
             PasoPeticion(r) \/ \E s \in Sesiones, l \in BOOLEAN : Pedir(r, s, l)
      PROVE  FALSE
  BY <1>3, <1>m DEF PasoPeticion, LeerSesion, BuscarViva, RotarBloquear, RotarCas, Firmar,
     RevocarBloquear, RevocarConfirmar, RotarInsertar, Pedir, Gracia, Rotara, Revocara, Rechazada,
     PeticionOK
<1>4. PasoPeticion(p) \/ (\E s \in Sesiones, l \in BOOLEAN : Pedir(p, s, l)) => RevocarConfirmar(p)
  BY DEF PasoPeticion, LeerSesion, BuscarViva, RotarBloquear, RotarCas, Firmar, RevocarBloquear,
     RotarInsertar, Pedir
<1>5. \A s \in Sesiones, f \in Familias : ~Login(s, f)
  BY <1>2 DEF Login
<1>6. \A v \in Olvidos : ~Olvidar(v) /\ ~PasoOlvido(v)
  BY <1>2 DEF Olvidar, PasoOlvido, OlvidoCaducar, OlvidoCrear, OlvidoEncolar, deSesion
<1>7. \A q \in Resets : ~PasoReset(q) /\ ~\E k \in Fichas : UsarEnlace(q, k)
  BY <1>2 DEF PasoReset, UsarEnlace, Consumir, ActualizarPassword, ListarFamilias, TomarCerrojo,
     SeleccionarSesiones, RevocarTodas, ConfirmarReset, AvisarDelCambio, soloReset, deSesion
<1>8. ~Tick /\ ~(\E q, r \in Resets : Interbloqueo(q, r)) /\ ~UNCHANGED vars
  BY <1>2 DEF Tick, Interbloqueo, soloReset, deSesion, vars
<1> QED BY <1>1, <1>3, <1>4, <1>5, <1>6, <1>7, <1>8 DEF Next

\* revocarFamilia leaves the whole family dead: the advisory lock keeps the
\* rotations out, so the rows selected under it are still all that live.
THEOREM RevocationTotal == Spec => FamilyRevocationIsTotal
<1>1. ASSUME IInv, [Next]_vars, NEW p \in Peticiones, NEW f \in Familias,
             peticion[p].pc = "revocando", f = Familia(peticion[p].o),
             peticion'[p].pc = "libre", fallos' = fallos
      PROVE  VivasDe(f)' = {}
  <2>1. RevocarConfirmar(p)
    BY <1>1, RevocationCommit
  <2>2. VivasDe(f) \subseteq peticion[p].filas
    BY <1>1 DEF IInv, Locks, FilasP, FamiliaDe
  <2>3. PICK filas : filas = peticion[p].filas
    OBVIOUS
  <2>4. VivasDe(f)' = VivasDe(f) \ filas
    BY <1>1, <2>1, <2>3, RevokedSessions DEF RevocarConfirmar, IInv
  <2> QED BY <2>2, <2>3, <2>4
<1>2. ASSUME IInv, [Next]_vars
      PROVE  [\A p \in Peticiones, f \in Familias :
                /\ peticion[p].pc = "revocando" /\ f = Familia(peticion[p].o)
                /\ peticion'[p].pc = "libre" /\ fallos' = fallos
                => VivasDe(f)' = {}]_vars
  BY <1>1, <1>2
<1> QED BY <1>2, SessionsReachable, PTL DEF Spec, FamilyRevocationIsTotal

\* Only its commit takes a reset from its last write to the mail.
LEMMA ResetCommit ==
  ASSUME IInv, [Next]_vars, NEW q \in Resets, reset[q].pc = "caducar", reset'[q].pc = "aviso"
  PROVE  ConfirmarReset(q)
<1>m. ResetOK
  BY DEF IInv, TypeInv, TypeOK
<1>1. reset' # reset
  OBVIOUS
<1>2. ASSUME NEW r \in Resets, r # q, PasoReset(r) \/ \E k \in Fichas : UsarEnlace(r, k)
      PROVE  FALSE
  BY <1>2, <1>m DEF PasoReset, UsarEnlace, Consumir, ActualizarPassword, ListarFamilias,
     TomarCerrojo, SeleccionarSesiones, RevocarTodas, ConfirmarReset, AvisarDelCambio, ResetOK
<1>3. PasoReset(q) \/ (\E k \in Fichas : UsarEnlace(q, k)) => ConfirmarReset(q)
  BY DEF PasoReset, UsarEnlace, Consumir, ActualizarPassword, ListarFamilias, TomarCerrojo,
     SeleccionarSesiones, RevocarTodas, AvisarDelCambio
<1>4. \A p \in Peticiones : ~PasoPeticion(p) /\ ~\E s \in Sesiones, l \in BOOLEAN : Pedir(p, s, l)
  BY <1>1 DEF PasoPeticion, LeerSesion, BuscarViva, RotarBloquear, RotarCas, Firmar, Pedir,
     RevocarBloquear, RevocarConfirmar, RotarInsertar, soloPeticion, deClave
<1>5. \A s \in Sesiones, f \in Familias : ~Login(s, f)
  BY <1>1 DEF Login, deClave
<1>6. \A v \in Olvidos : ~Olvidar(v) /\ ~PasoOlvido(v)
  BY <1>1 DEF Olvidar, PasoOlvido, OlvidoCaducar, OlvidoCrear, OlvidoEncolar
<1>7. ~CaeApi
  BY DEF CaeApi, SinReset
<1>8. \A r, u \in Resets : ~Interbloqueo(r, u)
  <2> SUFFICES ASSUME NEW r \in Resets, NEW u \in Resets, NEW v \in Resets,
                      reset' = [reset EXCEPT ![v] = SinReset]
               PROVE  FALSE
    BY DEF Interbloqueo
  <2> QED BY <1>m DEF ResetOK, SinReset
<1>9. ~Tick /\ ~UNCHANGED vars
  BY <1>1 DEF Tick, vars
<1> QED BY <1>2, <1>3, <1>4, <1>5, <1>6, <1>7, <1>8, <1>9 DEF Next

\* A reset leaves dead every family it listed: it holds their locks when it
\* selects its rows, so no rotation adds one behind its back.
THEOREM ResetKills == Spec => ResetKillsListedFamilies
<1>1. ASSUME IInv, [Next]_vars, NEW q \in Resets, reset[q].pc = "caducar",
             reset'[q].pc = "aviso", NEW f \in reset[q].familias
      PROVE  VivasDe(f)' = {}
  <2>1. ConfirmarReset(q)
    BY <1>1, ResetCommit
  <2>2. VivasDe(f) \subseteq reset[q].filas
    BY <1>1 DEF IInv, Locks, FilasR
  <2>3. PICK filas : filas = reset[q].filas
    OBVIOUS
  <2>4. VivasDe(f)' = VivasDe(f) \ filas
    BY <1>1, <2>1, <2>3, RevokedSessions DEF ConfirmarReset, IInv
  <2> QED BY <2>2, <2>3, <2>4
<1>2. ASSUME IInv, [Next]_vars
      PROVE  [\A q \in Resets : reset[q].pc = "caducar" /\ reset'[q].pc = "aviso"
                => \A f \in reset[q].familias : VivasDe(f)' = {}]_vars
  BY <1>1, <1>2
<1> QED BY <1>2, SessionsReachable, PTL DEF Spec, ResetKillsListedFamilies

-----------------------------------------------------------------------------
(* The tokens of the resets *)

\* A reset under way holds the row of its token, which is not spent yet.
TokenHeld ==
  /\ \A q \in Resets : EnReset(q) => ficha[reset[q].k].status = "PENDING"
  /\ \A q, r \in Resets : EnReset(q) /\ EnReset(r) /\ reset[q].k = reset[r].k => q = r

Gastadas == {k \in Fichas : ficha[k].status = "CONSUMED"}

TokenInv == TokenHeld /\ OneChangePerToken

LEMMA TokenStep == IInv /\ TokenInv /\ [Next]_vars => TokenInv'
<1> SUFFICES ASSUME IInv, TokenInv, [Next]_vars PROVE TokenInv'
  OBVIOUS
<1> USE DEF EnReset
<1>m. ResetOK /\ FichaOK /\ TokenHeld
  BY DEF IInv, TypeInv, TypeOK, TokenInv
\* The password and the spent tokens change together.
<1>s. ASSUME \A k \in Fichas : ficha'[k].status = "CONSUMED" <=> ficha[k].status = "CONSUMED",
             clave' = clave
      PROVE  OneChangePerToken'
  <2>1. {k \in Fichas : ficha'[k].status = "CONSUMED"} = {k \in Fichas : ficha[k].status = "CONSUMED"}
    BY <1>s
  <2> QED BY <1>s, <2>1 DEF TokenInv, OneChangePerToken
\* What keeps the tokens held: the statuses of held tokens, and no new holder.
<1>k. ASSUME \A k \in Fichas : FichaBloqueada(k) => ficha'[k].status = ficha[k].status,
             \A q \in Resets : EnReset(q)' => EnReset(q) /\ reset'[q].k = reset[q].k
      PROVE  TokenHeld'
  BY <1>k, <1>m DEF TokenHeld, ResetOK, FichaBloqueada
<1>1. ASSUME ficha' = ficha, clave' = clave, reset' = reset PROVE TokenInv'
  BY <1>1, <1>s, <1>k DEF TokenInv
<1>2. ASSUME NEW v \in Olvidos, Olvidar(v) \/ PasoOlvido(v) PROVE TokenInv'
  <2>1. /\ clave' = clave /\ reset' = reset
        /\ \A k \in Fichas : ficha[k].status # "NUEVA" => ficha'[k].status = ficha[k].status
        /\ \A k \in Fichas : ficha[k].status = "NUEVA" => ficha'[k].status # "CONSUMED"
    BY <1>2, <1>m DEF Olvidar, PasoOlvido, OlvidoCaducar, OlvidoCrear, OlvidoEncolar, CaducarFichas,
                      FichaOK, FilaFicha
  <2>2. \A k \in Fichas : FichaBloqueada(k) => ficha[k].status = "PENDING"
    BY <1>m DEF TokenHeld, FichaBloqueada
  <2> QED BY <2>1, <2>2, <1>s, <1>k DEF TokenInv
<1>3. ASSUME NEW q \in Resets, Consumir(q) PROVE TokenInv'
  <2>1. /\ ficha' = ficha /\ clave' = clave
        /\ \A r \in Resets \ {q} : reset'[r] = reset[r]
        /\ reset'[q].k = reset[q].k \/ ~EnReset(q)'
        /\ EnReset(q)' => ficha[reset[q].k].status = "PENDING" /\ ~FichaBloqueada(reset[q].k)
    BY <1>3, <1>m DEF Consumir, soloReset, SinReset, ResetOK, EstadoReset, FichasVigentes
  <2>2. TokenHeld'
    BY <2>1, <1>m DEF TokenHeld, FichaBloqueada
  <2> QED BY <2>1, <2>2, <1>s DEF TokenInv
<1>4. ASSUME NEW q \in Resets, ConfirmarReset(q) PROVE TokenInv'
  <2>1. PICK k \in Fichas : k = reset[q].k
    BY <1>4, <1>m DEF ConfirmarReset, ResetOK
  <2>2. /\ EnReset(q) /\ ficha[k].status = "PENDING" /\ clave' = clave + 1
        /\ \A r \in Resets \ {q} : reset'[r] = reset[r]
        /\ ~EnReset(q)'
    BY <1>4, <2>1, <1>m DEF ConfirmarReset, SinReset, TokenHeld, ResetOK
  <2>3. \A j \in Fichas : ficha'[j].status = IF j = k THEN "CONSUMED" ELSE ficha[j].status
    BY <1>4, <2>1, <1>m DEF ConfirmarReset, CaducarFichas, FichaOK, FilaFicha
  <2>4. TokenHeld'
    BY <2>1, <2>2, <2>3, <1>m DEF TokenHeld, ResetOK
  <2>5. OneChangePerToken'
    <3>1. Gastadas' = Gastadas \cup {k} /\ k \notin Gastadas
      BY <2>2, <2>3 DEF Gastadas
    <3>2. IsFiniteSet(Gastadas)
      BY SupuestosSesion, FS_Subset DEF Gastadas
    <3>3. Cardinality(Gastadas \cup {k}) = Cardinality(Gastadas) + 1
      BY <3>1, <3>2, FS_AddElement
    <3> QED BY <2>2, <3>1, <3>3 DEF TokenInv, OneChangePerToken, Gastadas
  <2> QED BY <2>4, <2>5 DEF TokenInv
<1>5. ASSUME NEW q \in Resets, PasoReset(q), ~Consumir(q), ~ConfirmarReset(q) PROVE TokenInv'
  <2>1. ficha' = ficha /\ clave' = clave
    BY <1>5 DEF PasoReset, ActualizarPassword, ListarFamilias, TomarCerrojo, SeleccionarSesiones,
                RevocarTodas, AvisarDelCambio, soloReset
  <2>2. /\ \A u \in Resets \ {q} : reset'[u] = reset[u]
        /\ EnReset(q)' => EnReset(q) /\ reset'[q].k = reset[q].k
    <3>1. CASE ActualizarPassword(q)
      BY <3>1, <1>m DEF ActualizarPassword, ResetOK, EstadoReset
    <3>2. CASE ListarFamilias(q)
      BY <3>2, <1>m DEF ListarFamilias, ResetOK, EstadoReset
    <3>3. CASE \E f \in Familias : TomarCerrojo(q, f)
      BY <3>3, <1>m DEF TomarCerrojo, ResetOK, EstadoReset
    <3>4. CASE SeleccionarSesiones(q)
      BY <3>4, <1>m DEF SeleccionarSesiones, ResetOK, EstadoReset
    <3>5. CASE RevocarTodas(q)
      BY <3>5, <1>m DEF RevocarTodas, ResetOK, EstadoReset
    <3>6. CASE AvisarDelCambio(q)
      BY <3>6, <1>m DEF AvisarDelCambio, ResetOK, SinReset
    <3> QED BY <1>5, <3>1, <3>2, <3>3, <3>4, <3>5, <3>6 DEF PasoReset
  <2> QED BY <2>1, <2>2, <1>s, <1>k DEF TokenInv
<1>6. ASSUME NEW q \in Resets, NEW k \in Fichas, UsarEnlace(q, k) PROVE TokenInv'
  <2>1. /\ ficha' = ficha /\ clave' = clave /\ \A u \in Resets \ {q} : reset'[u] = reset[u]
        /\ ~EnReset(q)'
    BY <1>6, <1>m DEF UsarEnlace, soloReset, SinReset, ResetOK
  <2> QED BY <2>1, <1>s, <1>k DEF TokenInv
<1>7. CASE CaeApi
  BY <1>7, <1>s, <1>k DEF CaeApi, SinReset, TokenInv
<1>8. ASSUME NEW q \in Resets, NEW r \in Resets, Interbloqueo(q, r) PROVE TokenInv'
  <2>1. PICK v \in Resets : reset' = [reset EXCEPT ![v] = SinReset]
    BY <1>8 DEF Interbloqueo
  <2>2. \A u \in Resets : EnReset(u)' => EnReset(u) /\ reset'[u].k = reset[u].k
    BY <2>1, <1>m DEF SinReset, ResetOK
  <2> QED BY <1>8, <2>2, <1>s, <1>k DEF Interbloqueo, soloReset, TokenInv
<1>9. ASSUME Tick \/ UNCHANGED vars \/ (\E s \in Sesiones, f \in Familias : Login(s, f))
              \/ \E p \in Peticiones : PasoPeticion(p) \/ \E s \in Sesiones, l \in BOOLEAN : Pedir(p, s, l)
       PROVE  ficha' = ficha /\ clave' = clave /\ reset' = reset
  BY <1>9 DEF Tick, vars, Login, PasoPeticion, LeerSesion, BuscarViva, RotarBloquear, RotarCas, Firmar,
     RevocarBloquear, RevocarConfirmar, RotarInsertar, Pedir, soloPeticion, deClave
<1> QED BY <1>1, <1>2, <1>3, <1>4, <1>5, <1>6, <1>7, <1>8, <1>9 DEF Next

\* However many concurrent uses its links have, and whatever deadlocks and
\* crashes abort, the password changes once per spent token.
THEOREM OneChange == Spec => []OneChangePerToken
<1>1. Init => IInv /\ TokenInv
  <2> SUFFICES ASSUME Init PROVE TokenInv
    BY InitInv
  <2>1. TokenHeld
    BY DEF Init, TokenHeld, EnReset, SinReset
  <2>2. {k \in Fichas : ficha[k].status = "CONSUMED"} = {} /\ clave = 0
    BY DEF Init
  <2> QED BY <2>1, <2>2, FS_EmptySet DEF TokenInv, OneChangePerToken
<1>2. IInv /\ TokenInv /\ [Next]_vars => (IInv /\ TokenInv)'
  BY StepInv, TokenStep
<1>3. TokenInv => OneChangePerToken
  BY DEF TokenInv
<1> QED BY <1>1, <1>2, <1>3, PTL DEF Spec

-----------------------------------------------------------------------------
(* Reuse *)

\* A refresh that will not rotate its own session saw it revoked.
Reuse(p) ==
  \/ peticion[p].logout
  \/ /\ peticion[p].pc \in {"viva", "revocar", "revocando"} => ~Viva(peticion[p].s)
     /\ peticion[p].pc \in {"rotar", "cas"} => peticion[p].o = peticion[p].s \/ ~Viva(peticion[p].s)

ReuseInv == \A p \in Peticiones : Reuse(p)

\* A revoked session is never alive again.
LEMMA RevokedStays ==
  ASSUME IInv, [Next]_vars, NEW s, Creada(s), ~Viva(s)
  PROVE  ~Viva(s)'
<1>m. SesionOK /\ reloj \in Nat /\ None \notin Nat /\ s \in Sesiones
  BY SupuestosSesion DEF IInv, TypeInv, TypeOK, Creada
<1>1. CASE sesion' = sesion
  BY <1>1 DEF Viva, Familia
<1>2. ASSUME NEW t \in Sesiones, NEW g \in Familias, Login(t, g) PROVE ~Viva(s)'
  <2>1. s # t
    BY <1>2 DEF Login, Creada
  <2> QED BY <1>2, <1>m, <2>1 DEF Login, Viva, Familia, SesionOK
<1>3. ASSUME NEW p \in Peticiones, NEW n \in Sesiones, RotarInsertar(p, n) PROVE ~Viva(s)'
  <2>1. s # n
    BY <1>3 DEF RotarInsertar, Creada
  <2>2. sesion'[s] = sesion[s] \/ sesion'[s] = [sesion[s] EXCEPT !.revokedAt = reloj]
    BY <1>3, <1>m, <2>1 DEF RotarInsertar, SesionOK
  <2> QED BY <1>m, <2>2 DEF Viva, Familia, SesionOK, FilaSesion
<1>4. ASSUME NEW filas, RevocarFilas(filas) PROVE ~Viva(s)'
  BY <1>4, <1>m, RevokedSessions DEF IInv
<1> QED BY <1>1, <1>2, <1>3, <1>4, Writers DEF RevocarConfirmar, ConfirmarReset

\* What each way a refresh goes on leaves of Reuse.
LEMMA ReuseOutcomes ==
  ASSUME IInv, ReuseInv, NEW p \in Peticiones, sesion' = sesion
  PROVE  /\ Rechazada(p) => Reuse(p)'
         /\ Revocara(p) /\ ~Viva(peticion[p].s) => Reuse(p)'
         /\ \A o : Rotara(p, o) /\ (o = peticion[p].s \/ ~Viva(peticion[p].s)) => Reuse(p)'
         /\ \A r : Gracia(p, r) /\ ~Viva(peticion[p].s) => Reuse(p)'
<1> USE DEF Reuse, Viva, Familia
<1>m. peticion[p] \in EstadoPeticion /\ p \in DOMAIN peticion
  BY DEF IInv, TypeInv, TypeOK, PeticionOK
<1>1. Rechazada(p) => Reuse(p)'
  BY <1>m DEF Rechazada, SinPeticion
<1>2. Revocara(p) /\ ~Viva(peticion[p].s) => Reuse(p)'
  BY <1>m DEF Revocara, EstadoPeticion
<1>3. \A o : Rotara(p, o) /\ (o = peticion[p].s \/ ~Viva(peticion[p].s)) => Reuse(p)'
  <2> SUFFICES ASSUME NEW o, Rotara(p, o), o = peticion[p].s \/ ~Viva(peticion[p].s) PROVE Reuse(p)'
    OBVIOUS
  <2>1. /\ peticion'[p].pc = "rotar" /\ peticion'[p].o = o /\ peticion'[p].s = peticion[p].s
    BY <1>m DEF Rotara, EstadoPeticion
  <2> QED BY <2>1
<1>4. peticion' = [peticion EXCEPT ![p].pc = "viva"] /\ ~Viva(peticion[p].s) => Reuse(p)'
  BY <1>m DEF EstadoPeticion
<1>5. \A r : Gracia(p, r) /\ ~Viva(peticion[p].s) => Reuse(p)'
  <2> HIDE DEF Reuse, Viva
  <2> QED BY <1>1, <1>2, <1>4 DEF Gracia
<1> QED BY <1>1, <1>2, <1>3, <1>5

\* The steps of a refresh or logout, for itself and for the rest.
LEMMA ReuseRequest ==
  ASSUME IInv, ReuseInv, NEW p \in Peticiones,
         PasoPeticion(p) \/ \E s \in Sesiones, l \in BOOLEAN : Pedir(p, s, l)
  PROVE  Reuse(p)' /\ \A r \in Peticiones \ {p} : peticion'[r] = peticion[r]
<1> USE DEF soloPeticion
<1>m. peticion[p] \in EstadoPeticion /\ PeticionOK /\ Reuse(p)
  BY DEF IInv, TypeInv, TypeOK, PeticionOK, ReuseInv
<1>0. \A r \in Peticiones \ {p} : peticion'[r] = peticion[r]
  BY <1>m DEF PasoPeticion, LeerSesion, BuscarViva, RotarBloquear, RotarCas, Firmar, RevocarBloquear,
     RevocarConfirmar, RotarInsertar, Pedir, Gracia, Rotara, Revocara, Rechazada, PeticionOK
<1> SUFFICES Reuse(p)'
  BY <1>0
<1>1. ASSUME NEW s \in Sesiones, NEW l \in BOOLEAN, Pedir(p, s, l) PROVE Reuse(p)'
  <2>1. peticion'[p].pc = "leer" \/ peticion'[p].logout
    BY <1>1, <1>m DEF Pedir, SinPeticion, PeticionOK
  <2> QED BY <2>1 DEF Reuse
<1>2. CASE LeerSesion(p)
  BY <1>2, ReuseOutcomes DEF LeerSesion
<1>3. CASE BuscarViva(p)
  <2>1. ~Viva(peticion[p].s) \/ peticion[p].logout
    BY <1>3, <1>m DEF BuscarViva, Reuse
  <2>2. CASE peticion[p].logout
    <3>v. Revocara(p) => peticion'[p].logout = peticion[p].logout
      BY <1>m DEF Revocara, PeticionOK, EstadoPeticion
    <3>r. ASSUME NEW v, Rotara(p, v) PROVE peticion'[p].logout = peticion[p].logout
      BY <3>r, <1>m DEF Rotara, PeticionOK, EstadoPeticion
    <3>1. peticion'[p].logout
      BY <1>3, <2>2, <3>v, <3>r DEF BuscarViva
    <3> QED BY <3>1 DEF Reuse
  <2> QED BY <1>3, <2>1, <2>2, ReuseOutcomes DEF BuscarViva
<1>4. CASE RotarBloquear(p)
  BY <1>4, <1>m DEF RotarBloquear, Reuse, PeticionOK, EstadoPeticion, Viva, Familia
<1>5. CASE RotarCas(p)
  <2>1. CASE peticion[p].logout
    <3>1. peticion'[p].logout \/ peticion'[p].pc = "libre"
      BY <1>5, <2>1, <1>m DEF RotarCas, Gracia, Rechazada, Revocara, SinPeticion, PeticionOK,
         EstadoPeticion
    <3> QED BY <3>1 DEF Reuse
  <2>2. CASE peticion' = [peticion EXCEPT ![p].pc = "insertar"]
    <3>1. peticion'[p].pc = "insertar"
      BY <2>2, <1>m DEF PeticionOK, EstadoPeticion
    <3> QED BY <3>1 DEF Reuse
  <2>3. CASE ~peticion[p].logout /\ ~Viva(peticion[p].o)
    <3>1. ~Viva(peticion[p].s)
      BY <1>5, <2>3, <1>m DEF RotarCas, Reuse
    <3> QED BY <1>5, <2>3, <3>1, ReuseOutcomes DEF RotarCas
  <2> QED BY <1>5, <2>1, <2>2, <2>3 DEF RotarCas
<1>6. CASE Firmar(p)
  BY <1>6, ReuseOutcomes DEF Firmar
<1>7. CASE RevocarBloquear(p)
  BY <1>7, <1>m DEF RevocarBloquear, Reuse, PeticionOK, EstadoPeticion, Viva, Familia
<1>8. CASE RevocarConfirmar(p)
  <2>1. peticion'[p].pc = "libre"
    BY <1>8, <1>m DEF RevocarConfirmar, Rechazada, SinPeticion, PeticionOK
  <2> QED BY <2>1 DEF Reuse
<1>9. ASSUME NEW n \in Sesiones, RotarInsertar(p, n) PROVE Reuse(p)'
  <2>1. peticion'[p].pc = "firmar"
    BY <1>9, <1>m DEF RotarInsertar, PeticionOK, EstadoPeticion
  <2> QED BY <2>1 DEF Reuse
<1> QED BY <1>0, <1>1, <1>2, <1>3, <1>4, <1>5, <1>6, <1>7, <1>8, <1>9 DEF PasoPeticion

LEMMA ReuseStep == IInv /\ ReuseInv /\ [Next]_vars => ReuseInv'
<1> SUFFICES ASSUME IInv, ReuseInv, [Next]_vars, NEW r \in Peticiones PROVE Reuse(r)'
  BY DEF ReuseInv
<1>1. CASE peticion'[r] = peticion[r]
  <2>1. PICK s, o : s = peticion[r].s /\ o = peticion[r].o
    OBVIOUS
  <2>2. peticion[r].pc # "libre" => Creada(s)
    BY <2>1, Memory DEF IInv
  <2>3. peticion[r].pc # "libre" /\ ~Viva(s) => ~Viva(s)'
    BY <2>2, RevokedStays
  <2>4. Reuse(r)
    BY DEF ReuseInv
  <2>5. Viva(peticion[r].s)' = Viva(s)'
    BY <1>1, <2>1 DEF Viva, Familia
  <2> QED BY <1>1, <2>1, <2>3, <2>4, <2>5 DEF Reuse
<1>2. ASSUME NEW p \in Peticiones,
             PasoPeticion(p) \/ \E s \in Sesiones, l \in BOOLEAN : Pedir(p, s, l)
      PROVE  Reuse(r)'
  BY <1>1, <1>2, ReuseRequest
<1>3. CASE CaeApi
  BY <1>3 DEF CaeApi, SinPeticion, Reuse
<1>4. ASSUME NEW v \in Olvidos, Olvidar(v) \/ PasoOlvido(v) PROVE peticion'[r] = peticion[r]
  BY <1>4 DEF Olvidar, PasoOlvido, OlvidoCaducar, OlvidoCrear, OlvidoEncolar, deSesion
<1>5. ASSUME NEW q \in Resets, PasoReset(q) \/ \E k \in Fichas : UsarEnlace(q, k)
      PROVE  peticion'[r] = peticion[r]
  BY <1>5 DEF PasoReset, UsarEnlace, Consumir, ActualizarPassword, ListarFamilias, TomarCerrojo,
     SeleccionarSesiones, RevocarTodas, ConfirmarReset, AvisarDelCambio, soloReset, deSesion
<1>6. ASSUME Tick \/ UNCHANGED vars \/ (\E q, u \in Resets : Interbloqueo(q, u))
             \/ \E s \in Sesiones, f \in Familias : Login(s, f)
      PROVE  peticion'[r] = peticion[r]
  BY <1>6 DEF Tick, vars, Interbloqueo, Login, soloReset, deSesion
<1> QED BY <1>1, <1>2, <1>3, <1>4, <1>5, <1>6 DEF Next

\* Only a token already revoked brings its family down: a refresh that
\* carries the living token is never taken for a theft.
THEOREM OnlyReuseRevokes == Spec => []ReuseNeedsRevocation
<1>1. Init => IInv /\ ReuseInv
  BY InitInv DEF Init, ReuseInv, Reuse, SinPeticion
<1>2. IInv /\ ReuseInv /\ [Next]_vars => (IInv /\ ReuseInv)'
  BY StepInv, ReuseStep
<1>3. ReuseInv => ReuseNeedsRevocation
  BY DEF ReuseInv, Reuse, ReuseNeedsRevocation
<1> QED BY <1>1, <1>2, <1>3, PTL DEF Spec
=============================================================================
