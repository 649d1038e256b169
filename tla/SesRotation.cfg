SPECIFICATION Spec
CONSTANTS
  None = None
  Sesiones = {s1, s2, s3, s4}  Familias = {f1}  Peticiones = {p1, p2}
  Fichas = {k1}  Olvidos = {v1}  Resets = {q1}
  SoloCookie = FALSE
  Vida = 1  Ventana = 0  VidaFicha = 1  MaxReloj = 1  MaxFallos = 1
INVARIANTS
  TypeOK
  OneLivePerFamily
  ReuseNeedsRevocation
PROPERTIES
  FamilyRevocationIsTotal
  DeadFamilyStaysDead
  ResetKillsListedFamilies
SYMMETRY Simetria
CHECK_DEADLOCK FALSE
