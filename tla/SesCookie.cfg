SPECIFICATION Spec
CONSTANTS
  None = None
  Sesiones = {s1, s2, s3}  Familias = {f1}  Peticiones = {p1, p2}
  Fichas = {}  Olvidos = {}  Resets = {}
  SoloCookie = TRUE
  Vida = 3  Ventana = 1  VidaFicha = 1  MaxReloj = 1  MaxFallos = 0
INVARIANT
  CookieIsLive
CHECK_DEADLOCK FALSE
