SPECIFICATION Spec
CONSTANTS
  None = None  Igual = Igual  x = x  y = y
  Guests = {g1}  Emails = {x}  Invs = {i1}
  Senders = {s1}  Editors = {}  Responders = {r1}  Workers = {w1, w2}
  Cambios = {}  Respuestas <- RespuestasSolas
  Eventos <- EventosMC
  MaxCupo = 0  MaxIntentos = 2  MaxAtascos = 1  Validez = 1  Cierre = 5
  MaxReloj = 1  MaxFallos = 2
INVARIANTS
  SentMeansMailed
  FailedJobLinkIsDead
  NoticeMeansAdvanced
PROPERTIES
  StatusOnlyAdvances
  LinkNeverRevives
  ImplementsLifecycle
SYMMETRY Simetria
CHECK_DEADLOCK FALSE
