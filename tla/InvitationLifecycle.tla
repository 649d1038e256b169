------------------------- MODULE InvitationLifecycle -------------------------
(***************************************************************************)
(* What an invitation promises, with every operation at once and alone, as *)
(* in the in-memory repository the tests use (src/src/modules/guests/      *)
(* infrastructure/invitation.repository.fake.ts): a link works from its    *)
(* creation or never, and dies once; the status moves forward and only for *)
(* a mail that left; an answer is recorded with its notification.          *)
(***************************************************************************)
CONSTANTS Guests, Invs, None

VARIABLES
  de,        \* the guest of each invitation
  estado,    \* its status; "NUEVA" before it exists, "BORRADA" after
  vivas,     \* invitations whose link works
  mandadas,  \* invitations whose mail left
  dicha      \* the answer each guest's couple was last told of

vidas == <<de, estado, vivas, mandadas, dicha>>

\* ORDEN of invitation.ts: where each status may go.
Posteriores ==
  [QUEUED     |-> {"SENT", "DELIVERED", "BOUNCED", "COMPLAINED"},
   SENT       |-> {"DELIVERED", "BOUNCED", "COMPLAINED"},
   DELIVERED  |-> {"BOUNCED", "COMPLAINED"},
   BOUNCED    |-> {}, COMPLAINED |-> {}, RESPONDED |-> {}]
HayInvitacion(i) == estado[i] \in DOMAIN Posteriores

CicloInit == /\ de = [i \in Invs |-> None] /\ estado = [i \in Invs |-> "NUEVA"]
             /\ vivas = {} /\ mandadas = {} /\ dicha = [g \in Guests |-> None]

\* The INSERT may arrive when its expiry is past.
crear(i, g) ==
  /\ estado[i] = "NUEVA"
  /\ de' = [de EXCEPT ![i] = g]
  /\ estado' = [estado EXCEPT ![i] = "QUEUED"]
  /\ vivas' \in {vivas, vivas \cup {i}}
  /\ UNCHANGED <<mandadas, dicha>>

\* The mail leaves: once per invitation, whatever the retries.
Mandar(i) ==
  /\ i \notin mandadas
  /\ mandadas' = mandadas \cup {i}
  /\ UNCHANGED <<de, estado, vivas, dicha>>

\* marcarEnviada and actualizarEstadoPorMessageId.
avanzar(i, e) ==
  /\ HayInvitacion(i) /\ i \in mandadas /\ e \in Posteriores[estado[i]]
  /\ estado' = [estado EXCEPT ![i] = e]
  /\ UNCHANGED <<de, vivas, mandadas, dicha>>

\* marcarRespondida and the notification; an answer that began in time may
\* end when the link is dead.
responder(i, rsvp) ==
  /\ HayInvitacion(i) /\ i \in mandadas
  /\ estado' = [estado EXCEPT ![i] = "RESPONDED"]
  /\ dicha' = [dicha EXCEPT ![de[i]] = rsvp]
  /\ UNCHANGED <<de, vivas, mandadas>>

\* caducar, caducarVigentesDe and the passing of time.
caducar(S) ==
  /\ vivas' = vivas \ S
  /\ UNCHANGED <<de, estado, mandadas, dicha>>

\* The guest is deleted, and the invitations with it.
borrarDe(g) ==
  LET suyas == {i \in Invs : HayInvitacion(i) /\ de[i] = g}
  IN /\ estado' = [i \in Invs |-> IF i \in suyas THEN "BORRADA" ELSE estado[i]]
     /\ vivas' = vivas \ suyas
     /\ UNCHANGED <<de, mandadas, dicha>>

CicloNext ==
  \/ \E i \in Invs : \/ Mandar(i)
                     \/ \E g \in Guests : crear(i, g)
                     \/ \E e \in {"SENT", "DELIVERED", "BOUNCED", "COMPLAINED"} : avanzar(i, e)
                     \/ \E rsvp \in {"CONFIRMED", "DECLINED"} : responder(i, rsvp)
  \/ \E S \in SUBSET vivas : caducar(S)
  \/ \E g \in Guests : borrarDe(g)

CicloSpec == CicloInit /\ [][CicloNext]_vidas
=============================================================================
