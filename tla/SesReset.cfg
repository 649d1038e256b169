SPECIFICATION FairSpec
CONSTANTS
  None = None
  Sesiones = {s1, s2}  Familias = {f1}  Peticiones = {p1}
  Fichas = {k1, k2}  Olvidos = {v1, v2}  Resets = {q1, q2}
  SoloCookie = FALSE
  Vida = 1  Ventana = 0  VidaFicha = 1  MaxReloj = 0  MaxFallos = 0
INVARIANTS
  OneChangePerToken
PROPERTIES
  RequestEnds
  ResetEnds
CHECK_DEADLOCK FALSE
