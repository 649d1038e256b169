SPECIFICATION FairSpec
CONSTANTS
  None = None  Igual = Igual  x = x  y = y
  Guests = {g1}  Emails = {x}  Invs = {i1}
  Senders = {s1}  Editors = {e1}  Responders = {r1}  Workers = {w1}
  Cambios <- CambiosDeEmail  Respuestas <- RespuestasSolas
  Eventos = {}
  MaxCupo = 0  MaxIntentos = 2  MaxAtascos = 1  Validez = 2  Cierre = 1
  MaxReloj = 0  MaxFallos = 1
PROPERTIES
  JobEnds
  AnswerEnds
CHECK_DEADLOCK FALSE
