SPECIFICATION Spec
CONSTANTS
  None = None  Igual = Igual  x = x  y = y
  Guests = {g1}  Emails = {x}  Invs = {i1}
  Senders = {s1}  Editors = {e1}  Responders = {r1}  Workers = {w1}
  Cambios <- CambiosVarios  Respuestas <- RespuestasMC
  Eventos = {}
  MaxCupo = 1  MaxIntentos = 2  MaxAtascos = 1  Validez = 3  Cierre = 5
  MaxReloj = 1  MaxFallos = 1
CHECK_DEADLOCK FALSE
PROPERTY
  MailedLinkIsNotExpired
