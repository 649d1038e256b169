------------------------------ MODULE Accounts ------------------------------
(***************************************************************************)
(* Registration and verification of the address (src/src/modules/auth).    *)
(* An account is created pending; a link, mailed by the queue email, makes *)
(* it verified.  Nothing here is one transaction: a registration, a resend *)
(* and a click are each several statements that interleave and may be cut  *)
(* short by a crash.  A user is the mailbox that registered.               *)
(***************************************************************************)
EXTENDS Integers, FiniteSets, Sequences, TLC

CONSTANTS Registrados,  \* mailboxes, which register and ask for links
          Pasos,        \* concurrent requests
          MaxEnlaces,   \* bound of the links issued
          MaxPasos      \* bound of the requests

ASSUME SupuestosCuentas == {MaxEnlaces, MaxPasos} \subseteq Nat

VARIABLES
  cuenta,    \* table users: "no", "pendiente" (emailVerifiedAt null) or "verificada"
  enlace,    \* table email_verification_tokens, in order of creation
  correoDe,  \* jobs of the queue email that are waiting
  buzonDe,   \* what was mailed: the link k, or the notice to a user
  paso,      \* state of each request
  dicho,     \* users told "already_verified"
  cortado,   \* users for whom a click died between its two statements
  porPasar   \* requests still to come

accountsVars == <<cuenta, enlace, correoDe, buzonDe, paso, dicho, cortado, porPasar>>

SinPaso == [pc |-> "libre"]
Verificacion(k) == [tipo |-> "verify-email", k |-> k]
AvisoRegistro(u) == [tipo |-> "registration-notice", u |-> u]

AccountsInit ==
  /\ cuenta = [u \in Registrados |-> "no"] /\ enlace = << >>
  /\ correoDe = {} /\ buzonDe = {} /\ dicho = {} /\ cortado = {}
  /\ paso = [r \in Pasos |-> SinPaso] /\ porPasar \in {0, MaxPasos}

Acude(r, e) == /\ paso[r].pc = "libre" /\ porPasar > 0 /\ porPasar' = porPasar - 1
               /\ paso' = [paso EXCEPT ![r] = e]
Avanza(r, e) == paso' = [paso EXCEPT ![r] = e] /\ UNCHANGED porPasar
deCorreo == <<correoDe, buzonDe, dicho, cortado>>

-----------------------------------------------------------------------------
(* Issuing links *)

\* RegisterUseCase: findByEmail ...
Registrar(r, u) ==
  /\ Acude(r, [pc |-> IF cuenta[u] = "no" THEN "create" ELSE "notificarExistente", u |-> u])
  /\ UNCHANGED <<cuenta, enlace, deCorreo>>

\* ... create, whose unique index sends the loser of a race to the notice ...
create(r) ==
  LET u == paso[r].u
  IN /\ paso[r].pc = "create"
     /\ cuenta' = [cuenta EXCEPT ![u] = IF @ = "no" THEN "pendiente" ELSE @]
     /\ Avanza(r, IF cuenta[u] = "no"
                  THEN [pc |-> "crear", u |-> u, desde |-> Len(enlace), por |-> "register"]
                  ELSE [pc |-> "notificarExistente", u |-> u])
     /\ UNCHANGED <<enlace, deCorreo>>

notificarExistente(r) ==
  /\ paso[r].pc = "notificarExistente"
  /\ correoDe' = correoDe \cup {AvisoRegistro(paso[r].u)}
  /\ Avanza(r, SinPaso)
  /\ UNCHANGED <<cuenta, enlace, buzonDe, dicho, cortado>>

\* ResendVerificationUseCase: only a pending account, and out of the request ...
Reenviar(r, u) ==
  /\ cuenta[u] = "pendiente"
  /\ Acude(r, [pc |-> "caducarVigentesDe", u |-> u])
  /\ UNCHANGED <<cuenta, enlace, deCorreo>>

\* ... it expires the links that live ...
Vivo(k) == enlace[k].status = "PENDING" /\ enlace[k].vigente
\* Mutant: the earlier links are left alive.
NoCaducar(r) ==
  /\ paso[r].pc = "caducarVigentesDe"
  /\ Avanza(r, [pc |-> "crear", u |-> paso[r].u, desde |-> Len(enlace), por |-> "resend"])
  /\ UNCHANGED <<cuenta, enlace, deCorreo>>

caducarVigentesDe(r) ==
  LET u == paso[r].u
  IN /\ paso[r].pc = "caducarVigentesDe"
     /\ enlace' = [k \in DOMAIN enlace |->
                     IF enlace[k].de = u /\ Vivo(k) THEN [enlace[k] EXCEPT !.vigente = FALSE]
                     ELSE enlace[k]]
     /\ Avanza(r, [pc |-> "crear", u |-> u, desde |-> Len(enlace), por |-> "resend"])
     /\ UNCHANGED <<cuenta, deCorreo>>

\* ... and, as the registration, creates one ("desde": the links there were
\* when its issue began) ...
crear(r) ==
  /\ paso[r].pc = "crear" /\ Len(enlace) < MaxEnlaces
  /\ enlace' = Append(enlace, [de |-> paso[r].u, status |-> "PENDING", vigente |-> TRUE,
                               desde |-> paso[r].desde, por |-> paso[r].por])
  /\ Avanza(r, [pc |-> "enqueue", k |-> Len(enlace) + 1])
  /\ UNCHANGED <<cuenta, deCorreo>>

\* ... which it enqueues.
enqueue(r) ==
  /\ paso[r].pc = "enqueue"
  /\ correoDe' = correoDe \cup {Verificacion(paso[r].k)}
  /\ Avanza(r, SinPaso)
  /\ UNCHANGED <<cuenta, enlace, buzonDe, dicho, cortado>>

\* EmailProcessor.  Resend drops a repeated idempotency key, so a job that is
\* repeated because its worker died after the mail mails once.
process(job) ==
  /\ job \in correoDe
  /\ buzonDe' = buzonDe \cup {job}
  /\ \E hecho \in BOOLEAN : correoDe' = IF hecho THEN correoDe \ {job} ELSE correoDe
  /\ UNCHANGED <<cuenta, enlace, paso, dicho, cortado, porPasar>>

-----------------------------------------------------------------------------
(* The click *)

\* Mutant: a link that expired also answers "already_verified".
consumirSinMirar(r, k) ==
  /\ Verificacion(k) \in buzonDe
  /\ Acude(r, IF Vivo(k) THEN [pc |-> "marcar", u |-> enlace[k].de] ELSE SinPaso)
  /\ enlace' = IF Vivo(k) THEN [enlace EXCEPT ![k].status = "CONSUMED"] ELSE enlace
  /\ dicho' = IF ~Vivo(k) THEN dicho \cup {enlace[k].de} ELSE dicho
  /\ UNCHANGED <<cuenta, correoDe, buzonDe, cortado>>

\* VerifyEmailUseCase: consumirPorHash is atomic ...
consumirPorHash(r, k) ==
  /\ Verificacion(k) \in buzonDe
  /\ Acude(r, IF Vivo(k) THEN [pc |-> "marcar", u |-> enlace[k].de] ELSE SinPaso)
  /\ enlace' = IF Vivo(k) THEN [enlace EXCEPT ![k].status = "CONSUMED"] ELSE enlace
  /\ dicho' = IF enlace[k].status = "CONSUMED" THEN dicho \cup {enlace[k].de} ELSE dicho
  /\ UNCHANGED <<cuenta, correoDe, buzonDe, cortado>>

\* ... and the user is marked in a second statement.
marcarEmailVerificado(r) ==
  /\ paso[r].pc = "marcar"
  /\ cuenta' = [cuenta EXCEPT ![paso[r].u] = "verificada"]
  /\ Avanza(r, SinPaso)
  /\ UNCHANGED <<enlace, deCorreo>>

\* A password reset proves the mailbox too (actualizarPassword).
actualizarPassword(u) ==
  /\ cuenta[u] = "pendiente" /\ porPasar > 0 /\ porPasar' = porPasar - 1
  /\ cuenta' = [cuenta EXCEPT ![u] = "verificada"]
  /\ UNCHANGED <<enlace, deCorreo, paso>>

\* EMAIL_VERIFICATION_TTL_HOURS go by.
Expira(k) ==
  /\ k \in DOMAIN enlace /\ enlace[k].vigente
  /\ enlace' = [enlace EXCEPT ![k].vigente = FALSE]
  /\ UNCHANGED <<cuenta, deCorreo, paso, porPasar>>

\* The process dies, or a statement fails, between two of a request.
CaePaso(r) ==
  /\ paso[r].pc # "libre"
  /\ cortado' = IF paso[r].pc = "marcar" THEN cortado \cup {paso[r].u} ELSE cortado
  /\ Avanza(r, SinPaso)
  /\ UNCHANGED <<cuenta, enlace, correoDe, buzonDe, dicho>>

AccountsNext ==
  \/ \E r \in Pasos :
       \/ \E u \in Registrados : Registrar(r, u) \/ Reenviar(r, u)
       \/ \E k \in DOMAIN enlace : consumirPorHash(r, k)
       \/ create(r) \/ notificarExistente(r) \/ caducarVigentesDe(r) \/ crear(r) \/ enqueue(r)
       \/ marcarEmailVerificado(r) \/ CaePaso(r)
  \/ \E job \in correoDe : process(job)
  \/ \E u \in Registrados : actualizarPassword(u)
  \/ \E k \in DOMAIN enlace : Expira(k)

AccountsSpec == AccountsInit /\ [][AccountsNext]_accountsVars

-----------------------------------------------------------------------------
(* Properties *)

AccountsTypeOK ==
  /\ cuenta \in [Registrados -> {"no", "pendiente", "verificada"}]
  /\ \A k \in DOMAIN enlace : /\ enlace[k].de \in Registrados /\ enlace[k].vigente \in BOOLEAN
                              /\ enlace[k].status \in {"PENDING", "CONSUMED"}
  /\ {dicho, cortado} \subseteq SUBSET Registrados

\* "Un solo enlace vivo por usuario", as far as the code keeps it: two links of
\* one account live at once only if the issue of the later had begun before the
\* earlier existed.  However many registrations race for an address, only one
\* of them issues a link.
OneLiveLink ==
  \A j, k \in DOMAIN enlace :
    j < k /\ enlace[j].de = enlace[k].de =>
      /\ Vivo(j) /\ Vivo(k) => enlace[k].desde < j
      /\ {enlace[j].por, enlace[k].por} # {"register"}

\* Who is told "already_verified" is verified, unless a click is between
\* spending the link and marking the user, or died there.
AlreadyVerifiedIsTrue ==
  \A u \in dicho : \/ cuenta[u] = "verificada" \/ u \in cortado
                   \/ \E r \in Pasos : paso[r].pc = "marcar" /\ paso[r].u = u

=============================================================================
