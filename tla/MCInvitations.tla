--------------------------- MODULE MCInvitations ---------------------------
(* Small instances of Invitations for TLC. *)
EXTENDS Invitations, TLC

CONSTANTS x, y

\* PATCH bodies: the address alone, the address with nothing else...
CambiosDeEmail == [email: Emails \cup {None}, rsvp: {Igual}, allowed: {Igual}]

\* ...or also an answer typed by the organiser and a smaller quota.
CambiosVarios == CambiosDeEmail \cup [email: {Igual}, rsvp: {"DECLINED"}, allowed: {0}]

EventosMC == {"DELIVERED", "BOUNCED", "COMPLAINED"}
RespuestasMC == {[rsvp |-> "CONFIRMED", comp |-> MaxCupo], [rsvp |-> "DECLINED", comp |-> MaxCupo]}
RespuestasSolas == {[rsvp |-> "CONFIRMED", comp |-> 0]}

\* Workers and invitation ids are interchangeable.
Simetria == Permutations(Workers) \cup Permutations(Invs)
=============================================================================
