SPECIFICATION Spec
CONSTANTS
  None = None  Igual = Igual  x = x  y = y
  Guests = {g1}  Emails = {x}  Invs = {i1, i2}
  Senders = {s1}  Editors = {e1}  Responders = {r1}  Workers = {w1}
  Cambios <- CambiosVarios  Respuestas <- RespuestasMC
  Eventos = {}
  MaxCupo = 1  MaxIntentos = 1  MaxAtascos = 0  Validez = 2  Cierre = 1
  MaxReloj = 1  MaxFallos = 0
INVARIANTS
  TypeOK
  TwoLiveLinksNeedTwoSenders
  RespondedMeansRecorded
PROPERTIES
  ChangeOfEmailKillsOlderLinks
SYMMETRY Simetria
CHECK_DEADLOCK FALSE
