SPECIFICATION ImagesSpec
CONSTANTS
  Avatares = {a1} NoValidas = {} Fotos = {h1} SinClave = SinClave Pedidos = {o1} SinCandado = SinCandado
  MAX_FOTOS_PORTFOLIO = 1 MaxSubidas = 2 MaxPedidos = 3
INVARIANT LimitDeletesOnlyOrphans
CHECK_DEADLOCK FALSE
