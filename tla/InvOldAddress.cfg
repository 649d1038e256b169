SPECIFICATION Spec
CONSTANTS
  None = None  Igual = Igual  x = x  y = y
  Guests = {g1}  Emails = {x,y}  Invs = {i1}
  Senders = {s1}  Editors = {e1,e2}  Responders = {}  Workers = {w1}
  Cambios <- CambiosVarios  Respuestas <- RespuestasMC
  Eventos = {}
  MaxCupo = 1  MaxIntentos = 2  MaxAtascos = 1  Validez = 3  Cierre = 5
  MaxReloj = 1  MaxFallos = 0
CHECK_DEADLOCK FALSE
INVARIANT
  NoLiveLinkAtOldAddress
