SPECIFICATION Spec
CONSTANTS
  m1 = m1 m2 = m2 g1 = g1 g2 = g2 b1 = b1 b2 = b2
  Mesas = {m1, m2} Invitados = {g1, g2} Filas <- MCFilas FilaInicial <- MCInicial
  MaxAsientos = 2 MaxMesas = 2 MaxAcompanantes = 1 SinDato <- MCSinDato
  Peticiones = {p1, p2} Iniciales <- MCIniciales Sentados <- MCSentados Nadie = Nadie MaxOperaciones = 3
  Usuarios = {ana, beto} Dueno = ana Solicitudes = {s1, s2} Cambios <- MCCambios MaxPeticiones = 3
  Contratos = {v1, v2} Gastos = {e1} Tramites = {t1, t2} Montos = {1} Externo = Externo Primero = v1 MaxTramites = 3
  Momentos = {i1} Instantes = {1, 2} SinFin = SinFin SinCambio = SinCambio Ediciones = {d1, d2} MaxEdiciones = 3
  Ids = {1, 2, 3} Horas = {1, 2} Limites = {1, 2} SinCursor = SinCursor MaxCambios = 2
  Fichas = {f1, f2, f3} Buzones = {b1, b2} SinCorreo = SinCorreo FilaMala = FilaMala Importadores = {q1, q2} Lotes <- MCLotes MaxAltas = 3
  Sockets = {c1} Personas = {ana, beto} JOINS_POR_MINUTO = 2 Recarga = 1 VidaToken = 1 MaxInstante = 1 MaxTomas = 2 MaxAvisos = 3
  Registrados = {u1} Pasos = {r1, r2} MaxEnlaces = 3 MaxPasos = 3
  Avatares = {a1, a2} NoValidas = {a2} Fotos = {h1, h2, h3} SinClave = SinClave Pedidos = {o1, o2} SinCandado = SinCandado MAX_FOTOS_PORTFOLIO = 2 MaxSubidas = 4 MaxPedidos = 3
INVARIANTS
  TypeOK
  EveryoneSeatedIsShown
  SeatIsFreeWhenTaken
  OwnerKeepsAccess
  AccessAgrees
  CheckNeverRejectsPatch
  AuditTellsTheStory
  WalkIsExact
  NoticesReachOnlyPlanners
  OneLiveLink
  AlreadyVerifiedIsTrue
  ShowcaseIsInOrder
PROPERTIES
  PublishesOnlyComplete
  ImplementsSeatingPlan
  SeatingRequestEnds
  LosesFieldsOnlyToStalePatch
  VendorLeavesNoHole
  ImportDoublesNoMailbox
  ReadingIsKept
CHECK_DEADLOCK FALSE
