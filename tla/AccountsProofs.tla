--------------------------- MODULE AccountsProofs ---------------------------
(* What TLAPS proves of Accounts, for every value of its constants.        *)
EXTENDS Accounts, SequenceTheorems, TLAPS

-----------------------------------------------------------------------------
(* The inductive invariant *)

Enlace == [de: Registrados, status: {"PENDING", "CONSUMED"}, vigente: BOOLEAN, desde: Nat,
           por: {"register", "resend"}]

\* A request in flight, at each of its points.
Paso == [pc: {"libre"}]
        \cup [pc: {"create", "notificarExistente", "caducarVigentesDe", "marcar"}, u: Registrados]
        \cup [pc: {"crear"}, u: Registrados, desde: Nat, por: {"register", "resend"}]
        \cup [pc: {"enqueue"}, k: Nat]

TiposDeCuenta ==
  /\ cuenta \in [Registrados -> {"no", "pendiente", "verificada"}]
  /\ enlace \in Seq(Enlace)
  /\ paso \in [Pasos -> Paso]
  /\ dicho \subseteq Registrados /\ cortado \subseteq Registrados

\* Who issues a link, and whose account is not there.
Emite(r) == paso[r].pc = "crear"
Sola == \A u \in Registrados : cuenta[u] = "no" =>
          /\ \A k \in DOMAIN enlace : enlace[k].de # u
          /\ \A r \in Pasos : paso[r].pc \in {"crear", "caducarVigentesDe"} => paso[r].u # u

\* The links there were when an issue began are dead, or there were none.
Atras == \A r \in Pasos : Emite(r) =>
           /\ paso[r].desde <= Len(enlace)
           /\ \A k \in DOMAIN enlace : enlace[k].de = paso[r].u /\ k <= paso[r].desde => ~Vivo(k)

\* One registration wins, and it alone issues a link as such.
UnAlta == \A r \in Pasos : Emite(r) /\ paso[r].por = "register" =>
            /\ \A k \in DOMAIN enlace : enlace[k].de = paso[r].u => enlace[k].por # "register"
            /\ \A q \in Pasos : Emite(q) /\ paso[q].por = "register" /\ paso[q].u = paso[r].u => q = r

\* The user of a spent link is verified, or the click that spent it has not
\* marked it yet, or never will.
Probado(u) == \/ cuenta[u] = "verificada" \/ u \in cortado
              \/ \E r \in Pasos : paso[r].pc = "marcar" /\ paso[r].u = u
Gastados == /\ \A k \in DOMAIN enlace : enlace[k].status = "CONSUMED" => Probado(enlace[k].de)
            /\ \A u \in dicho : Probado(u)

Unico == OneLiveLink
AInv == TiposDeCuenta /\ Sola /\ Atras /\ UnAlta /\ Gastados /\ Unico

LEMMA AccountsInitInv == AccountsInit => AInv
<1> SUFFICES ASSUME AccountsInit PROVE AInv
  OBVIOUS
<1>1. enlace = << >> /\ enlace \in Seq(Enlace) /\ DOMAIN enlace = {}
  BY EmptySeq DEF AccountsInit
<1>2. \A r \in Pasos : paso[r] = SinPaso
  BY DEF AccountsInit
<1>3. SinPaso \in Paso /\ SinPaso.pc = "libre"
  BY DEF SinPaso, Paso
<1>4. TiposDeCuenta
  BY <1>1, <1>3 DEF AccountsInit, TiposDeCuenta
<1> QED BY <1>1, <1>2, <1>3, <1>4
        DEF AInv, AccountsInit, Sola, Atras, UnAlta, Gastados, Unico, OneLiveLink, Emite

-----------------------------------------------------------------------------
(* Links that stay or die *)

Mueren ==
  /\ enlace' \in Seq(Enlace) /\ Len(enlace') = Len(enlace) /\ DOMAIN enlace' = DOMAIN enlace
  /\ \A k \in DOMAIN enlace : /\ enlace'[k].de = enlace[k].de /\ enlace'[k].por = enlace[k].por
                              /\ enlace'[k].desde = enlace[k].desde
                              /\ Vivo(k)' => Vivo(k)

\* An account that is there stays.
Crecen == \A u \in Registrados : cuenta'[u] = "no" => cuenta[u] = "no"

LEMMA EnlaceTypes ==
  ASSUME TiposDeCuenta
  PROVE  /\ Len(enlace) \in Nat /\ DOMAIN enlace = 1..Len(enlace)
         /\ \A k \in DOMAIN enlace : enlace[k] \in Enlace /\ enlace[k].de \in Registrados
<1>1. enlace \in Seq(Enlace)
  BY DEF TiposDeCuenta
<1>2. /\ Len(enlace) \in Nat /\ DOMAIN enlace = 1..Len(enlace)
      /\ enlace \in [1..Len(enlace) -> Enlace]
  BY <1>1, LenProperties
<1>3. \A k \in DOMAIN enlace : enlace[k] \in Enlace
  BY <1>2
<1> QED BY <1>2, <1>3 DEF Enlace

LEMMA Quedan == TiposDeCuenta /\ UNCHANGED enlace => Mueren
BY LenProperties DEF TiposDeCuenta, Mueren, Vivo

LEMMA UnicoStays == ASSUME AInv, Mueren PROVE Unico'
BY DEF AInv, Mueren, Unico, OneLiveLink

\* A request that does not begin to issue.
Tranquilo(q) == /\ paso'[q].pc # "crear"
                /\ paso'[q].pc = "caducarVigentesDe" => /\ paso'[q].u \in Registrados
                                                        /\ cuenta'[paso'[q].u] # "no"

LEMMA QuietAccountStep ==
  ASSUME AInv, Mueren, Crecen, \A q \in Pasos : paso'[q] = paso[q] \/ Tranquilo(q)
  PROVE  Sola' /\ Atras' /\ UnAlta' /\ Unico'
<1>1. Sola'
  BY DEF AInv, Sola, Mueren, Crecen, Tranquilo
<1>2. Atras'
  BY DEF AInv, Atras, Mueren, Emite, Tranquilo
<1>3. UnAlta'
  BY DEF AInv, UnAlta, Mueren, Emite, Tranquilo
<1> QED BY <1>1, <1>2, <1>3, UnicoStays

-----------------------------------------------------------------------------
(* Who was told, was verified *)

LEMMA ProbadoStays ==
  ASSUME TiposDeCuenta, AccountsNext, NEW u \in Registrados, Probado(u) PROVE Probado(u)'
<1>1. CASE cuenta[u] = "verificada"
  <2>1. cuenta'[u] = "verificada"
    BY <1>1 DEF AccountsNext, Registrar, create, notificarExistente, Reenviar, caducarVigentesDe,
       crear, enqueue, process, consumirPorHash, marcarEmailVerificado, actualizarPassword, Expira,
       CaePaso, deCorreo, TiposDeCuenta
  <2> QED BY <2>1 DEF Probado
<1>2. CASE u \in cortado
  <2>1. u \in cortado'
    BY <1>2 DEF AccountsNext, Registrar, create, notificarExistente, Reenviar, caducarVigentesDe,
       crear, enqueue, process, consumirPorHash, marcarEmailVerificado, actualizarPassword, Expira,
       CaePaso, deCorreo
  <2> QED BY <2>1 DEF Probado
<1>3. CASE \E r \in Pasos : paso[r].pc = "marcar" /\ paso[r].u = u
  <2>1. PICK r \in Pasos : paso[r].pc = "marcar" /\ paso[r].u = u
    BY <1>3
  <2>2. CASE marcarEmailVerificado(r)
    BY <2>1, <2>2 DEF marcarEmailVerificado, Probado, TiposDeCuenta
  <2>3. CASE CaePaso(r)
    BY <2>1, <2>3 DEF CaePaso, Probado
  <2>4. CASE ~marcarEmailVerificado(r) /\ ~CaePaso(r)
    <3>1. ASSUME NEW q \in Pasos, NEW e, paso' = [paso EXCEPT ![q] = e], q # r
          PROVE  paso'[r] = paso[r]
      BY <3>1 DEF TiposDeCuenta
    <3>2. paso'[r] = paso[r]
      <4>1. CASE \E q \in Pasos : \/ \E v \in Registrados : Registrar(q, v) \/ Reenviar(q, v)
                                  \/ \E k \in DOMAIN enlace : consumirPorHash(q, k)
        <5>1. \E q \in Pasos : \E e : paso' = [paso EXCEPT ![q] = e] /\ paso[q].pc = "libre"
          BY <4>1 DEF Registrar, Reenviar, consumirPorHash, Acude
        <5> QED BY <2>1, <3>1, <5>1
      <4>2. CASE \E q \in Pasos : \/ create(q) \/ notificarExistente(q) \/ caducarVigentesDe(q)
                                  \/ crear(q) \/ enqueue(q)
        <5>1. \E q \in Pasos : \E e : paso' = [paso EXCEPT ![q] = e] /\ paso[q].pc # "marcar"
          BY <4>2 DEF create, notificarExistente, caducarVigentesDe, crear, enqueue, Avanza
        <5> QED BY <2>1, <3>1, <5>1
      <4>3. CASE \E q \in Pasos : marcarEmailVerificado(q) \/ CaePaso(q)
        <5>1. \E q \in Pasos : \E e : paso' = [paso EXCEPT ![q] = e] /\ q # r
          BY <2>4, <4>3 DEF marcarEmailVerificado, CaePaso, Avanza
        <5> QED BY <3>1, <5>1
      <4>4. CASE \/ \E job \in correoDe : process(job)
                 \/ \E v \in Registrados : actualizarPassword(v)
                 \/ \E k \in DOMAIN enlace : Expira(k)
        BY <4>4 DEF process, actualizarPassword, Expira
      <4> QED BY <4>1, <4>2, <4>3, <4>4 DEF AccountsNext
    <3> QED BY <2>1, <3>2 DEF Probado
  <2> QED BY <2>2, <2>3, <2>4
<1> QED BY <1>1, <1>2, <1>3 DEF Probado

\* No link is spent in the step, and nobody is told.
LEMMA NadieGasta ==
  ASSUME AInv, AccountsNext, Mueren, UNCHANGED dicho,
         \A k \in DOMAIN enlace : enlace'[k].status = enlace[k].status
  PROVE  Gastados'
<1>1. \A u \in Registrados : Probado(u) => Probado(u)'
  BY ProbadoStays DEF AInv
<1>2. \A k \in DOMAIN enlace : enlace[k].de \in Registrados
  BY EnlaceTypes DEF AInv
<1> HIDE DEF Probado
<1>3. \A k \in DOMAIN enlace : enlace'[k].status = "CONSUMED" => Probado(enlace[k].de)
  BY DEF AInv, Gastados
<1>4. \A k \in DOMAIN enlace' : enlace'[k].status = "CONSUMED" =>
        \E u \in Registrados : u = enlace'[k].de /\ Probado(u)'
  BY <1>1, <1>2, <1>3 DEF Mueren
<1>5. \A u \in dicho' : Probado(u)'
  BY <1>1 DEF AInv, Gastados, TiposDeCuenta
<1>6. (\A k \in DOMAIN enlace : enlace[k].status = "CONSUMED" => Probado(enlace[k].de))'
  BY <1>4 DEF Probado
<1> QED BY <1>5, <1>6 DEF Gastados

-----------------------------------------------------------------------------
(* The actions that do not begin to issue *)

LEMMA PasoTypes ==
  /\ SinPaso \in Paso /\ SinPaso.pc = "libre"
  /\ \A u \in Registrados, pc \in {"create", "notificarExistente", "caducarVigentesDe", "marcar"} :
       [pc |-> pc, u |-> u] \in Paso
  /\ \A u \in Registrados, d \in Nat, p \in {"register", "resend"} :
       [pc |-> "crear", u |-> u, desde |-> d, por |-> p] \in Paso
  /\ \A k \in Nat : [pc |-> "enqueue", k |-> k] \in Paso
  /\ \A e \in Paso : e.pc \notin {"libre", "enqueue"} => e.u \in Registrados
BY DEF Paso, SinPaso

\* A request takes a step to a point that issues nothing, and no link changes.
LEMMA Sosegado ==
  ASSUME AInv, AccountsNext, UNCHANGED <<enlace, dicho>>, Crecen,
         cuenta' \in [Registrados -> {"no", "pendiente", "verificada"}],
         cortado' \subseteq Registrados,
         NEW r \in Pasos, NEW e \in Paso, paso' = [paso EXCEPT ![r] = e],
         e.pc # "crear", e.pc = "caducarVigentesDe" => cuenta'[e.u] # "no"
  PROVE  AInv'
<1>1. \A q \in Pasos : paso'[q] = paso[q] \/ Tranquilo(q)
  BY PasoTypes DEF AInv, TiposDeCuenta, Tranquilo
<1>2. Mueren
  BY Quedan DEF AInv
<1>3. TiposDeCuenta'
  BY DEF AInv, TiposDeCuenta
<1> QED BY <1>1, <1>2, <1>3, QuietAccountStep, NadieGasta DEF AInv

LEMMA IssuersInv ==
  ASSUME AInv, AccountsNext, NEW r \in Pasos, NEW u \in Registrados,
         Registrar(r, u) \/ Reenviar(r, u)
  PROVE  AInv'
<1> DEFINE e == IF Registrar(r, u)
                THEN [pc |-> IF cuenta[u] = "no" THEN "create" ELSE "notificarExistente", u |-> u]
                ELSE [pc |-> "caducarVigentesDe", u |-> u]
<1>1. e \in Paso
  BY PasoTypes
<1>2. e.pc # "crear" /\ (e.pc = "caducarVigentesDe" => e.u = u /\ Reenviar(r, u))
  OBVIOUS
<1>3. paso' = [paso EXCEPT ![r] = e]
  BY DEF Registrar, Reenviar, Acude
<1> HIDE DEF e
<1>4. UNCHANGED <<enlace, dicho, cuenta, cortado>> /\ (Reenviar(r, u) => cuenta[u] # "no")
  BY DEF Registrar, Reenviar, deCorreo
<1> QED BY <1>1, <1>2, <1>3, <1>4, Sosegado DEF AInv, TiposDeCuenta, Crecen

LEMMA LeaveInv ==
  ASSUME AInv, AccountsNext, NEW r \in Pasos,
         notificarExistente(r) \/ enqueue(r) \/ marcarEmailVerificado(r) \/ CaePaso(r)
  PROVE  AInv'
<1>1. paso' = [paso EXCEPT ![r] = SinPaso]
  BY DEF notificarExistente, enqueue, marcarEmailVerificado, CaePaso, Avanza
<1>2. UNCHANGED <<enlace, dicho>>
  BY DEF notificarExistente, enqueue, marcarEmailVerificado, CaePaso, deCorreo
<1>3. paso[r].pc = "marcar" => paso[r].u \in Registrados
  BY PasoTypes DEF AInv, TiposDeCuenta
<1>4. Crecen /\ cuenta' \in [Registrados -> {"no", "pendiente", "verificada"}]
  BY <1>3 DEF notificarExistente, enqueue, marcarEmailVerificado, CaePaso, AInv, TiposDeCuenta, Crecen
<1>5. cortado' \subseteq Registrados
  BY <1>3 DEF notificarExistente, enqueue, marcarEmailVerificado, CaePaso, deCorreo, AInv, TiposDeCuenta
<1> QED BY <1>1, <1>2, <1>4, <1>5, PasoTypes, Sosegado

LEMMA UserChangesInv ==
  ASSUME AInv, AccountsNext,
         (\E job \in correoDe : process(job)) \/ (\E u \in Registrados : actualizarPassword(u))
  PROVE  AInv'
<1>1. UNCHANGED <<enlace, dicho, paso, cortado>>
  BY DEF process, actualizarPassword, deCorreo
<1>2. Crecen /\ cuenta' \in [Registrados -> {"no", "pendiente", "verificada"}]
  BY DEF process, actualizarPassword, AInv, TiposDeCuenta, Crecen
<1>3. Mueren
  BY <1>1, Quedan DEF AInv
<1>4. TiposDeCuenta'
  BY <1>1, <1>2 DEF AInv, TiposDeCuenta
<1> QED BY <1>1, <1>2, <1>3, <1>4, QuietAccountStep, NadieGasta DEF AInv

\* A function on 1..n is a sequence of length n.
LEMMA SeqOfFunction ==
  ASSUME NEW S, NEW n \in Nat, NEW f \in [1..n -> S]
  PROVE  f \in Seq(S) /\ Len(f) = n
OBVIOUS

LEMMA ExpiraInv ==
  ASSUME AInv, AccountsNext, NEW k \in DOMAIN enlace, Expira(k) PROVE AInv'
<1> DEFINE e == [enlace[k] EXCEPT !.vigente = FALSE]
<1>1. enlace[k] \in Enlace /\ k \in 1..Len(enlace) /\ enlace \in Seq(Enlace)
  BY EnlaceTypes DEF AInv, TiposDeCuenta
<1>2. e \in Enlace /\ e.de = enlace[k].de /\ e.status = enlace[k].status
      /\ e.por = enlace[k].por /\ e.desde = enlace[k].desde /\ ~e.vigente
  BY <1>1 DEF Enlace
<1>3. enlace' = [enlace EXCEPT ![k] = e] /\ UNCHANGED <<cuenta, dicho, paso, cortado>>
  BY <1>1 DEF Expira, deCorreo
<1> HIDE DEF e
<1>4. /\ enlace' \in Seq(Enlace) /\ Len(enlace') = Len(enlace)
      /\ \A j \in 1..Len(enlace) : enlace'[j] = IF j = k THEN e ELSE enlace[j]
  BY <1>1, <1>2, <1>3, ExceptSeq
<1>5. Mueren
  BY <1>2, <1>3, <1>4, EnlaceTypes DEF AInv, Mueren, Vivo
<1>6. TiposDeCuenta' /\ Crecen
  BY <1>3, <1>4 DEF AInv, TiposDeCuenta, Crecen
<1>7. \A j \in DOMAIN enlace : enlace'[j].status = enlace[j].status
  BY <1>2, <1>4, EnlaceTypes DEF AInv
<1> QED BY <1>3, <1>5, <1>6, <1>7, QuietAccountStep, NadieGasta DEF AInv

LEMMA consumirPorHashInv ==
  ASSUME AInv, AccountsNext, NEW r \in Pasos, NEW k \in DOMAIN enlace, consumirPorHash(r, k)
  PROVE  AInv'
<1> DEFINE u == enlace[k].de
           l == [enlace[k] EXCEPT !.status = "CONSUMED"]
           e == IF Vivo(k) THEN [pc |-> "marcar", u |-> u] ELSE SinPaso
<1>1. enlace[k] \in Enlace /\ k \in 1..Len(enlace) /\ enlace \in Seq(Enlace) /\ u \in Registrados
  BY EnlaceTypes DEF AInv, TiposDeCuenta
<1>2. l \in Enlace /\ l.de = u /\ l.status = "CONSUMED"
      /\ l.por = enlace[k].por /\ l.desde = enlace[k].desde
  BY <1>1 DEF Enlace
<1>3. /\ enlace' = IF Vivo(k) THEN [enlace EXCEPT ![k] = l] ELSE enlace
      /\ paso' = [paso EXCEPT ![r] = e]
      /\ dicho' = IF enlace[k].status = "CONSUMED" THEN dicho \cup {u} ELSE dicho
      /\ UNCHANGED <<cuenta, cortado>>
  BY <1>1 DEF consumirPorHash, Acude, deCorreo
<1>4. e \in Paso /\ e.pc \in {"libre", "marcar"} /\ (Vivo(k) => e.pc = "marcar" /\ e.u = u)
  BY <1>1, PasoTypes
<1> HIDE DEF l, e
<1>5. /\ enlace' \in Seq(Enlace) /\ Len(enlace') = Len(enlace)
      /\ \A j \in 1..Len(enlace) : enlace'[j] = IF j = k /\ Vivo(k) THEN l ELSE enlace[j]
  BY <1>1, <1>2, <1>3, ExceptSeq
<1>6. DOMAIN enlace' = DOMAIN enlace
  BY <1>5, EnlaceTypes, LenProperties DEF AInv
<1>7. Mueren
  <2>1. \A j \in 1..Len(enlace) : enlace'[j].de = enlace[j].de /\ enlace'[j].por = enlace[j].por
                                  /\ enlace'[j].desde = enlace[j].desde
    BY <1>2, <1>5
  <2>2. \A j \in 1..Len(enlace) : enlace'[j].status = "PENDING" => enlace'[j] = enlace[j]
    BY <1>2, <1>5
  <2> QED BY <1>5, <1>6, <2>1, <2>2, EnlaceTypes DEF AInv, Mueren, Vivo
<1>8. TiposDeCuenta' /\ Crecen
  BY <1>1, <1>3, <1>4, <1>5 DEF AInv, TiposDeCuenta, Crecen
<1>9. \A q \in Pasos : paso'[q] = paso[q] \/ Tranquilo(q)
  BY <1>3, <1>4 DEF AInv, TiposDeCuenta, Tranquilo
<1>10. Gastados'
  <2>1. \A v \in Registrados : Probado(v) => Probado(v)'
    BY ProbadoStays DEF AInv
  <2>2. PICK v \in Registrados : v = u
    BY <1>1
  <2>3. Vivo(k) => Probado(v)'
    <3>1. Vivo(k) => paso'[r].pc = "marcar" /\ paso'[r].u = v
      BY <1>3, <1>4, <2>2 DEF AInv, TiposDeCuenta
    <3> QED BY <3>1 DEF Probado
  <2>4. enlace[k].status = "CONSUMED" => Probado(v)
    BY <2>2 DEF AInv, Gastados, Probado
  <2>5. \A j \in DOMAIN enlace, w \in Registrados :
          w = enlace[j].de /\ enlace[j].status = "CONSUMED" => Probado(w)
    BY DEF AInv, Gastados, Probado
  <2>6. \A w \in dicho : Probado(w)
    BY DEF AInv, Gastados
  <2> HIDE DEF Probado, u
  <2>7. \A w \in dicho' : Probado(w)'
    BY <1>3, <2>1, <2>2, <2>4, <2>6 DEF AInv, TiposDeCuenta
  <2>8. \A j \in DOMAIN enlace', w \in Registrados :
          w = enlace'[j].de /\ enlace'[j].status = "CONSUMED" => Probado(w)'
    <3> TAKE j \in DOMAIN enlace', w \in Registrados
    <3>1. j \in DOMAIN enlace /\ j \in 1..Len(enlace)
      BY <1>6, EnlaceTypes DEF AInv
    <3>2. CASE j = k /\ Vivo(k)
      BY <3>1, <3>2, <1>2, <1>5, <2>2, <2>3
    <3>3. CASE ~(j = k /\ Vivo(k))
      BY <3>1, <3>3, <1>5, <2>1, <2>5
    <3> QED BY <3>2, <3>3
  <2>9. \A j \in DOMAIN enlace' : enlace'[j].status = "CONSUMED" =>
          \E w \in Registrados : w = enlace'[j].de /\ Probado(w)'
    <3>1. \A j \in DOMAIN enlace' : enlace'[j].de \in Registrados
      BY <1>7, EnlaceTypes DEF Mueren, AInv
    <3> QED BY <2>8, <3>1
  <2>10. (\A j \in DOMAIN enlace : enlace[j].status = "CONSUMED" => Probado(enlace[j].de))'
    BY <2>9 DEF Probado
  <2> QED BY <2>7, <2>10 DEF Gastados
<1> QED BY <1>7, <1>8, <1>9, <1>10, QuietAccountStep DEF AInv

-----------------------------------------------------------------------------
(* The issue of a link *)

\* A request begins to issue: with no link of the user that lives, as far as
\* it has seen.
LEMMA BeginInv ==
  ASSUME AInv, Mueren, Crecen, NEW r \in Pasos, NEW u \in Registrados,
         NEW p \in {"register", "resend"}, cuenta'[u] # "no",
         paso' = [paso EXCEPT ![r] = [pc |-> "crear", u |-> u, desde |-> Len(enlace), por |-> p]],
         \A k \in DOMAIN enlace : enlace[k].de = u => ~Vivo(k)' /\ p # "register",
         p = "register" => \A q \in Pasos : Emite(q) => paso[q].u # u
  PROVE  Sola' /\ Atras' /\ UnAlta' /\ Unico'
<1> DEFINE e == [pc |-> "crear", u |-> u, desde |-> Len(enlace), por |-> p]
<1>1. e.pc = "crear" /\ e.u = u /\ e.desde = Len(enlace) /\ e.por = p
  OBVIOUS
<1>2. \A q \in Pasos : paso'[q] = IF q = r THEN e ELSE paso[q]
  BY DEF AInv, TiposDeCuenta
<1> HIDE DEF e
<1>3. Len(enlace) \in Nat /\ DOMAIN enlace = 1..Len(enlace)
  BY EnlaceTypes DEF AInv
<1>4. Sola'
  BY <1>1, <1>2 DEF AInv, Sola, Mueren, Crecen
<1>5. Atras'
  BY <1>1, <1>2, <1>3 DEF AInv, Atras, Mueren, Emite
<1>6. UnAlta'
  BY <1>1, <1>2 DEF AInv, UnAlta, Mueren, Emite
<1> QED BY <1>4, <1>5, <1>6, UnicoStays

LEMMA createInv ==
  ASSUME AInv, AccountsNext, NEW r \in Pasos, create(r) PROVE AInv'
<1> DEFINE u == paso[r].u
<1>1. u \in Registrados
  BY PasoTypes DEF create, AInv, TiposDeCuenta
<1>2. UNCHANGED <<enlace, dicho, cortado>>
  BY DEF create, deCorreo
<1>3. cuenta' = [cuenta EXCEPT ![u] = IF @ = "no" THEN "pendiente" ELSE @]
  BY DEF create
<1>4. Crecen /\ cuenta' \in [Registrados -> {"no", "pendiente", "verificada"}] /\ cuenta'[u] # "no"
  BY <1>1, <1>3 DEF AInv, TiposDeCuenta, Crecen
<1>5. CASE cuenta[u] # "no"
  <2>1. paso' = [paso EXCEPT ![r] = [pc |-> "notificarExistente", u |-> u]]
    BY <1>5 DEF create, Avanza
  <2>2. PICK e \in Paso : e = [pc |-> "notificarExistente", u |-> u]
    BY <1>1, PasoTypes
  <2> QED BY <1>2, <1>4, <2>1, <2>2, Sosegado DEF AInv, TiposDeCuenta
<1>6. CASE cuenta[u] = "no"
  <2>1. paso' = [paso EXCEPT ![r] = [pc |-> "crear", u |-> u, desde |-> Len(enlace),
                                     por |-> "register"]]
    BY <1>6 DEF create, Avanza
  <2>2. [pc |-> "crear", u |-> u, desde |-> Len(enlace), por |-> "register"] \in Paso
    BY <1>1, PasoTypes, EnlaceTypes DEF AInv
  <2>3. TiposDeCuenta'
    BY <1>2, <1>4, <2>1, <2>2 DEF AInv, TiposDeCuenta
  <2>4. /\ \A k \in DOMAIN enlace : enlace[k].de # u
        /\ \A q \in Pasos : Emite(q) => paso[q].u # u
    BY <1>1, <1>6 DEF AInv, Sola, Emite
  <2>5. Mueren
    BY <1>2, Quedan DEF AInv
  <2>6. PICK v \in Registrados : v = u
    BY <1>1
  <2>7. Sola' /\ Atras' /\ UnAlta' /\ Unico'
    BY <1>4, <2>1, <2>4, <2>5, <2>6, BeginInv
  <2>8. Gastados'
    BY <1>2, <2>5, NadieGasta
  <2> QED BY <2>3, <2>7, <2>8 DEF AInv
<1> QED BY <1>5, <1>6

LEMMA caducarVigentesDeInv ==
  ASSUME AInv, AccountsNext, NEW r \in Pasos, caducarVigentesDe(r) PROVE AInv'
<1>1. PICK u \in Registrados : u = paso[r].u
  BY PasoTypes DEF caducarVigentesDe, AInv, TiposDeCuenta
<1> DEFINE f == [k \in DOMAIN enlace |-> IF enlace[k].de = u /\ Vivo(k)
                                         THEN [enlace[k] EXCEPT !.vigente = FALSE] ELSE enlace[k]]
<1>2. /\ enlace' = f /\ UNCHANGED <<cuenta, dicho, cortado>>
      /\ paso' = [paso EXCEPT ![r] = [pc |-> "crear", u |-> u, desde |-> Len(enlace),
                                      por |-> "resend"]]
      /\ cuenta[u] # "no"
  BY <1>1 DEF caducarVigentesDe, Avanza, deCorreo, AInv, Sola
<1>3. Len(enlace) \in Nat /\ DOMAIN enlace = 1..Len(enlace)
  BY EnlaceTypes DEF AInv
<1>4. \A k \in DOMAIN enlace :
        /\ f[k] \in Enlace /\ f[k].de = enlace[k].de /\ f[k].status = enlace[k].status
        /\ f[k].por = enlace[k].por /\ f[k].desde = enlace[k].desde
        /\ f[k].vigente => enlace[k].vigente
        /\ f[k].de = u /\ f[k].vigente => f[k].status # "PENDING"
  <2> TAKE k \in DOMAIN enlace
  <2>1. enlace[k] \in Enlace
    BY EnlaceTypes DEF AInv
  <2>2. f[k] = IF enlace[k].de = u /\ Vivo(k)
               THEN [enlace[k] EXCEPT !.vigente = FALSE] ELSE enlace[k]
    OBVIOUS
  <2> QED BY <2>1, <2>2 DEF Enlace, Vivo
<1>5. f \in [1..Len(enlace) -> Enlace]
  BY <1>3, <1>4
<1> HIDE DEF f
<1>6. f \in Seq(Enlace) /\ Len(f) = Len(enlace) /\ DOMAIN f = DOMAIN enlace
  BY <1>3, <1>5, SeqOfFunction
<1>7. Mueren
  BY <1>2, <1>4, <1>6 DEF Mueren, Vivo
<1>8. [pc |-> "crear", u |-> u, desde |-> Len(enlace), por |-> "resend"] \in Paso
  BY <1>3, PasoTypes
<1>9. TiposDeCuenta' /\ Crecen
  BY <1>2, <1>6, <1>8 DEF AInv, TiposDeCuenta, Crecen
<1>10. \A k \in DOMAIN enlace : enlace[k].de = u => ~Vivo(k)'
  BY <1>2, <1>4 DEF Vivo
<1>11. Sola' /\ Atras' /\ UnAlta' /\ Unico'
  BY <1>2, <1>7, <1>9, <1>10, BeginInv
<1>12. Gastados'
  BY <1>2, <1>4, <1>7, NadieGasta
<1> QED BY <1>9, <1>11, <1>12 DEF AInv

LEMMA crearInv ==
  ASSUME AInv, AccountsNext, NEW r \in Pasos, crear(r) PROVE AInv'
<1> DEFINE n == Len(enlace)
           e == [de |-> paso[r].u, status |-> "PENDING", vigente |-> TRUE,
                 desde |-> paso[r].desde, por |-> paso[r].por]
<1>1. n \in Nat /\ DOMAIN enlace = 1..n /\ enlace \in Seq(Enlace)
  BY EnlaceTypes DEF AInv, TiposDeCuenta
<1>2. /\ enlace' = Append(enlace, e) /\ UNCHANGED <<cuenta, dicho, cortado>>
      /\ paso' = [paso EXCEPT ![r] = [pc |-> "enqueue", k |-> n + 1]] /\ Emite(r)
  BY DEF crear, Avanza, deCorreo, Emite
<1>3. /\ paso[r].u \in Registrados /\ paso[r].desde \in Nat
      /\ paso[r].por \in {"register", "resend"}
  BY <1>2 DEF AInv, TiposDeCuenta, Paso, Emite
<1>4. e \in Enlace /\ e.de = paso[r].u /\ e.status = "PENDING" /\ e.desde = paso[r].desde
      /\ e.por = paso[r].por
  BY <1>3 DEF Enlace
<1> HIDE DEF e
<1>5. /\ enlace' \in Seq(Enlace) /\ Len(enlace') = n + 1 /\ DOMAIN enlace' = 1..(n + 1)
      /\ enlace'[n + 1] = e /\ \A k \in 1..n : enlace'[k] = enlace[k]
  BY <1>1, <1>2, <1>4
<1>6. \A q \in Pasos : paso'[q] = IF q = r THEN [pc |-> "enqueue", k |-> n + 1] ELSE paso[q]
  BY <1>2 DEF AInv, TiposDeCuenta
<1>7. TiposDeCuenta'
  BY <1>1, <1>2, <1>5, PasoTypes DEF AInv, TiposDeCuenta
<1>8. \A q \in Pasos : Emite(q)' => Emite(q) /\ q # r /\ paso'[q] = paso[q]
  BY <1>6 DEF Emite
<1>9. Sola'
  <2>1. cuenta[paso[r].u] # "no"
    BY <1>2, <1>3 DEF AInv, Sola, Emite
  <2> QED BY <1>1, <1>2, <1>4, <1>5, <1>6, <2>1 DEF AInv, Sola
<1>10. Atras'
  <2>1. \A q \in Pasos : Emite(q) => paso[q].desde \in Nat
    BY DEF AInv, TiposDeCuenta, Paso, Emite
  <2>2. \A q \in Pasos : Emite(q)' => /\ paso'[q].desde \in Nat /\ paso'[q].desde <= n
                                       /\ \A k \in 1..n : enlace[k].de = paso'[q].u
                                            /\ k <= paso'[q].desde => ~Vivo(k)
    BY <1>1, <1>8, <2>1 DEF AInv, Atras
  <2>3. \A k \in 1..n : enlace'[k] = enlace[k] /\ (Vivo(k)' <=> Vivo(k))
    BY <1>5 DEF Vivo
  <2> HIDE DEF n
  <2>4. \A d \in Nat : d <= n => d <= n + 1 /\ \A k \in 1..(n + 1) : k <= d => k \in 1..n
    BY <1>1
  <2> QED BY <1>5, <2>2, <2>3, <2>4 DEF Atras
<1>11. UnAlta'
  BY <1>1, <1>2, <1>4, <1>5, <1>8 DEF AInv, UnAlta
<1>12. Unico'
  <2>1. \A k \in 1..n : Vivo(k)' <=> Vivo(k)
    BY <1>5 DEF Vivo
  <2>2. \A j \in 1..n : enlace[j].de = e.de => /\ Vivo(j) => e.desde < j
                                               /\ {enlace[j].por, e.por} # {"register"}
    <3> TAKE j \in 1..n
    <3> HAVE enlace[j].de = e.de
    <3>1. j <= paso[r].desde => ~Vivo(j)
      BY <1>1, <1>2, <1>4 DEF AInv, Atras
    <3>2. e.por = "register" => enlace[j].por # "register"
      BY <1>1, <1>2, <1>4 DEF AInv, UnAlta
    <3>3. Vivo(j) => e.desde < j
      BY <1>1, <1>3, <1>4, <3>1
    <3> QED BY <3>2, <3>3
  <2>3. \A j, k \in 1..n : j < k /\ enlace[j].de = enlace[k].de =>
          /\ Vivo(j) /\ Vivo(k) => enlace[k].desde < j
          /\ {enlace[j].por, enlace[k].por} # {"register"}
    BY <1>1 DEF AInv, Unico, OneLiveLink
  <2>4. \A j \in 1..(n + 1) : j \in 1..n \/ j = n + 1
    BY <1>1
  <2>5. \A j, k \in 1..(n + 1) : j < k => j \in 1..n
    BY <1>1
  <2> HIDE DEF n
  <2> SUFFICES ASSUME NEW j \in 1..(n + 1), NEW k \in 1..(n + 1),
                      j < k, enlace'[j].de = enlace'[k].de
               PROVE  /\ Vivo(j)' /\ Vivo(k)' => enlace'[k].desde < j
                      /\ {enlace'[j].por, enlace'[k].por} # {"register"}
    BY <1>5 DEF Unico, OneLiveLink
  <2>6. CASE k \in 1..n
    BY <1>5, <2>1, <2>3, <2>5, <2>6
  <2>7. CASE k = n + 1
    BY <1>5, <2>1, <2>2, <2>5, <2>7
  <2> QED BY <2>4, <2>6, <2>7
<1>13. Gastados'
  <2>1. \A v \in Registrados : Probado(v) => Probado(v)'
    BY ProbadoStays DEF AInv
  <2>2. \A j \in 1..n : enlace[j].de \in Registrados
    BY <1>1, EnlaceTypes DEF AInv
  <2>3. \A j \in DOMAIN enlace' : enlace'[j].status = "CONSUMED" =>
          \E w \in Registrados : w = enlace'[j].de /\ Probado(w)
    BY <1>1, <1>4, <1>5, <2>2 DEF AInv, Gastados, Probado
  <2>4. \A w \in dicho' : w \in Registrados /\ Probado(w)
    BY <1>2 DEF AInv, Gastados, TiposDeCuenta
  <2> HIDE DEF Probado
  <2>5. \A j \in DOMAIN enlace' : enlace'[j].status = "CONSUMED" =>
          \E w \in Registrados : w = enlace'[j].de /\ Probado(w)'
    BY <2>1, <2>3
  <2>6. \A w \in dicho' : Probado(w)'
    BY <2>1, <2>4
  <2>7. (\A j \in DOMAIN enlace : enlace[j].status = "CONSUMED" => Probado(enlace[j].de))'
    BY <2>5 DEF Probado
  <2> QED BY <2>6, <2>7 DEF Gastados
<1> QED BY <1>7, <1>9, <1>10, <1>11, <1>12, <1>13 DEF AInv

LEMMA AccountsNextInv == AInv /\ [AccountsNext]_accountsVars => AInv'
<1> SUFFICES ASSUME AInv, [AccountsNext]_accountsVars PROVE AInv'
  OBVIOUS
<1>1. CASE UNCHANGED accountsVars
  <2>1. UNCHANGED <<cuenta, enlace, paso, dicho, cortado>>
    BY <1>1 DEF accountsVars
  <2>2. Mueren /\ Crecen
    BY <2>1, Quedan DEF AInv, Crecen
  <2>3. TiposDeCuenta' /\ Gastados'
    BY <2>1 DEF AInv, TiposDeCuenta, Gastados, Probado
  <2> QED BY <2>1, <2>2, <2>3, QuietAccountStep DEF AInv
<1>2. CASE AccountsNext
  BY <1>2, IssuersInv, LeaveInv, UserChangesInv, ExpiraInv, consumirPorHashInv, createInv,
     caducarVigentesDeInv, crearInv DEF AccountsNext
<1> QED BY <1>1, <1>2

LEMMA AccountsInv == AccountsSpec => []AInv
BY AccountsInitInv, AccountsNextInv, PTL DEF AccountsSpec

-----------------------------------------------------------------------------
(* Theorems *)

\* Two links of an account live at once only when their issues overlap, and of
\* the registrations that race for an address one alone issues a link.
THEOREM LinksOverlap == AccountsSpec => []OneLiveLink
<1>1. AInv => OneLiveLink
  BY DEF AInv, Unico
<1> QED BY <1>1, AccountsInv, PTL

\* "already_verified" is true of the account, but for a click that is between
\* its two statements or died there.
THEOREM ToldTheTruth == AccountsSpec => []AlreadyVerifiedIsTrue
<1>1. AInv => AlreadyVerifiedIsTrue
  BY DEF AInv, Gastados, Probado, AlreadyVerifiedIsTrue
<1> QED BY <1>1, AccountsInv, PTL

\* The rows of the accounts and of their links keep their types.
THEOREM AccountsTyped == AccountsSpec => []AccountsTypeOK
<1>1. AInv => AccountsTypeOK
  <2> SUFFICES ASSUME AInv PROVE AccountsTypeOK
    OBVIOUS
  <2>1. \A k \in DOMAIN enlace : /\ enlace[k].de \in Registrados /\ enlace[k].vigente \in BOOLEAN
                                 /\ enlace[k].status \in {"PENDING", "CONSUMED"}
    BY EnlaceTypes DEF AInv, Enlace
  <2> QED BY <2>1 DEF AInv, TiposDeCuenta, AccountsTypeOK
<1> QED BY <1>1, AccountsInv, PTL
=============================================================================
