------------------------------- MODULE Images -------------------------------
(***************************************************************************)
(* The showcase of a user: avatar, portfolio, packages and state of the    *)
(* vendor profile (src/src/modules/users, vendors, storage).  The rows are *)
(* in Postgres and the pictures in a bucket of R2, that no transaction     *)
(* covers: the client PUTs to a signed URL, the use case looks at what     *)
(* arrived, writes its row, and deletes what the row no longer shows.  A   *)
(* deletion that fails is swallowed.                                       *)
(***************************************************************************)
EXTENDS Integers, FiniteSets, FiniteSetsExt

CONSTANTS Avatares,            \* keys under the prefix of avatars (random uuids)
          Fotos,               \* keys under the prefix of the portfolio
          NoValidas,           \* keys whose object has not the type or size asked for
          SinClave,            \* avatarKey null
          Pedidos,             \* concurrent requests of the owner
          SinCandado,               \* the row of the profile is not locked
          MAX_FOTOS_PORTFOLIO, \* limit of the portfolio
          MaxSubidas,          \* bound of the signed URLs
          MaxPedidos           \* bound of the requests

ASSUME SupuestosImagenes ==
  /\ SinClave \notin Avatares /\ Avatares \cap Fotos = {}
  /\ NoValidas \subseteq Avatares \cup Fotos
  /\ IsFiniteSet(Pedidos) /\ SinCandado \notin Pedidos
  /\ MAX_FOTOS_PORTFOLIO \in Nat \ {0} /\ MaxSubidas \in Nat /\ MaxPedidos \in Nat

VARIABLES
  firmadas,   \* keys with a signed URL
  bucket,     \* objects in R2
  avatarKey,  \* users.avatarKey
  portfolio,  \* vendor_portfolio_images: a function on the ids of its rows
  paquetes,   \* vendor_packages: the lists that are there, one of each request
  ficha,      \* vendor_profiles.status
  candado,    \* who holds the lock of bloquearFicha
  pedido,     \* state of each request
  porPedir    \* requests still to come

imagesVars == <<firmadas, bucket, avatarKey, portfolio, paquetes, ficha, candado, pedido, porPedir>>

SinPedido == [pc |-> "libre"]
deVitrina == <<avatarKey, portfolio, paquetes, ficha>>
deR2 == <<firmadas, bucket>>

ImagesInit ==
  /\ firmadas = {} /\ bucket = {} /\ avatarKey = SinClave /\ portfolio = << >> /\ paquetes = {}
  /\ ficha = "DRAFT" /\ candado = SinCandado
  /\ pedido = [p \in Pedidos |-> SinPedido] /\ porPedir \in {0, MaxPedidos}

Pide(p, e) == /\ pedido[p].pc = "libre" /\ porPedir > 0 /\ porPedir' = porPedir - 1
              /\ pedido' = [pedido EXCEPT ![p] = e]
Prosigue(p, e) == pedido' = [pedido EXCEPT ![p] = e] /\ UNCHANGED porPedir
Libera(p) == candado' = IF candado = p THEN SinCandado ELSE candado

-----------------------------------------------------------------------------
(* SubidaDeImagenes *)

\* preparar: a new key (which uuid it is makes no difference); not for a
\* portfolio that is full.
preparar(prefijo) ==
  /\ porPedir > 0 /\ Cardinality(firmadas) < MaxSubidas /\ prefijo \ firmadas # {}
  /\ prefijo = Fotos => Cardinality(DOMAIN portfolio) < MAX_FOTOS_PORTFOLIO
  /\ firmadas' = firmadas \cup {CHOOSE k \in prefijo \ firmadas : TRUE}
  /\ UNCHANGED <<bucket, deVitrina, candado, pedido, porPedir>>

\* The client PUTs what was signed, once or again while the URL lives.
Subir(k) ==
  /\ k \in firmadas \ bucket /\ porPedir > 0
  /\ bucket' = bucket \cup {k}
  /\ UNCHANGED <<firmadas, deVitrina, candado, pedido, porPedir>>

\* inspeccionar finds the object, its prefix is the owner's, and imagenValida ...
confirmar(prefijo, k) == k \in (prefijo \cap bucket) \ NoValidas

\* ... or is not, and the request deletes it and ends with SubidaNoValidaError.
confirmarNoValida(p, k) ==
  /\ k \in bucket \cap NoValidas
  /\ Pide(p, [pc |-> "borrar", key |-> k])
  /\ UNCHANGED <<deR2, deVitrina, candado>>

\* The object goes, or R2 fails and the object stays.
borrar(p) ==
  /\ pedido[p].pc = "borrar"
  /\ \E hecho \in BOOLEAN : bucket' = IF hecho THEN bucket \ {pedido[p].key} ELSE bucket
  /\ Prosigue(p, SinPedido)
  /\ UNCHANGED <<firmadas, deVitrina, candado>>

-----------------------------------------------------------------------------
(* Avatar *)

SetAvatar(p, k) ==
  /\ confirmar(Avatares, k)
  /\ Pide(p, [pc |-> "fijarAvatar", key |-> k])
  /\ UNCHANGED <<deR2, deVitrina, candado>>

RemoveAvatar(p) ==
  /\ Pide(p, [pc |-> "fijarAvatar", key |-> SinClave])
  /\ UNCHANGED <<deR2, deVitrina, candado>>

\* The row gives back what it showed, under its lock; that is deleted next.
fijarAvatar(p) ==
  /\ pedido[p].pc = "fijarAvatar"
  /\ avatarKey' = pedido[p].key
  /\ Prosigue(p, IF avatarKey \in {SinClave, pedido[p].key} THEN SinPedido
                 ELSE [pc |-> "borrar", key |-> avatarKey])
  /\ UNCHANGED <<deR2, portfolio, paquetes, ficha, candado>>

-----------------------------------------------------------------------------
(* Portfolio *)

AddPortfolioImage(p, k) ==
  /\ confirmar(Fotos, k)
  /\ Pide(p, [pc |-> "bloquearFicha", key |-> k, id |-> porPedir])
  /\ UNCHANGED <<deR2, deVitrina, candado>>

\* Mutant: bloquearFicha without FOR UPDATE.
SinBloqueo == Pedidos # {}

\* The transaction locks the profile and counts the photos: over the limit it
\* rolls back, and the object that was sent is deleted.
FichaLibre == candado = SinCandado
bloquearFicha(p) ==
  LET lleno == Cardinality(DOMAIN portfolio) >= MAX_FOTOS_PORTFOLIO
  IN /\ pedido[p].pc = "bloquearFicha" /\ FichaLibre
     /\ candado' = IF lleno THEN candado ELSE p
     /\ Prosigue(p, [pedido[p] EXCEPT !.pc = IF lleno THEN "borrar" ELSE "agregarFoto"])
     /\ UNCHANGED <<deR2, deVitrina>>

\* After the last; the unique index refuses a key that is in the portfolio.
agregarFoto(p) ==
  LET k == pedido[p].key
      posiciones == {portfolio[i].position : i \in DOMAIN portfolio}
  IN /\ pedido[p].pc = "agregarFoto"
     /\ portfolio' = IF \E i \in DOMAIN portfolio : portfolio[i].storageKey = k THEN portfolio
                     ELSE [i \in DOMAIN portfolio \cup {pedido[p].id} |->
                             IF i = pedido[p].id
                             THEN [storageKey |-> k, position |-> Max(posiciones \cup {-1}) + 1]
                             ELSE portfolio[i]]
     /\ Libera(p) /\ Prosigue(p, SinPedido)
     /\ UNCHANGED <<deR2, avatarKey, paquetes, ficha>>

\* borrarFoto: finds the row ...
RemovePortfolioImage(p, i) ==
  /\ i \in DOMAIN portfolio
  /\ Pide(p, [pc |-> "borrarFoto", id |-> i, key |-> portfolio[i].storageKey])
  /\ UNCHANGED <<deR2, deVitrina, candado>>

\* ... and deletes it, without the lock; Prisma throws if it is gone.
borrarFoto(p) ==
  LET i == pedido[p].id
  IN /\ pedido[p].pc = "borrarFoto"
     /\ portfolio' = [j \in DOMAIN portfolio \ {i} |-> portfolio[j]]
     /\ Prosigue(p, IF i \in DOMAIN portfolio THEN [pc |-> "borrar", key |-> pedido[p].key]
                    ELSE SinPedido)
     /\ UNCHANGED <<deR2, avatarKey, paquetes, ficha, candado>>

\* ReorderPortfolio, one transaction under the lock: every photo, once.
reordenarFotos(orden) ==
  /\ FichaLibre /\ porPedir > 0 /\ porPedir' = porPedir - 1
  /\ portfolio' = [i \in DOMAIN portfolio |-> [portfolio[i] EXCEPT !.position = orden[i]]]
  /\ UNCHANGED <<deR2, avatarKey, paquetes, ficha, candado, pedido>>
OrdenesFoto == {o \in [DOMAIN portfolio -> 0..(Cardinality(DOMAIN portfolio) - 1)] :
              \A i, j \in DOMAIN portfolio : o[i] = o[j] => i = j}

-----------------------------------------------------------------------------
(* Profile and packages *)

\* ReplacePackages deletes the lists its statement sees committed ...
ReplacePackages(p) ==
  /\ Pide(p, [pc |-> "reemplazarPaquetes", vistos |-> paquetes, lista |-> porPedir])
  /\ UNCHANGED <<deR2, deVitrina, candado>>

\* ... and inserts its own.  Nothing locks the profile.
reemplazarPaquetes(p) ==
  /\ pedido[p].pc = "reemplazarPaquetes"
  /\ paquetes' = (paquetes \ pedido[p].vistos) \cup {pedido[p].lista}
  /\ Prosigue(p, SinPedido)
  /\ UNCHANGED <<deR2, avatarKey, portfolio, ficha, candado>>

\* SetVendorMode: the state it reads decides ...
estadoAlCambiarModo(actual, activo) ==
  IF actual = "SUSPENDED" THEN "422" ELSE IF activo THEN "PUBLISHED" ELSE "DRAFT"
SetVendorMode(p, activo) ==
  /\ estadoAlCambiarModo(ficha, activo) # "422"
  /\ Pide(p, [pc |-> "fijarEstado", estado |-> estadoAlCambiarModo(ficha, activo)])
  /\ UNCHANGED <<deR2, deVitrina, candado>>

\* ... and the write asks nothing.
fijarEstado(p) ==
  /\ pedido[p].pc = "fijarEstado"
  /\ ficha' = pedido[p].estado
  /\ Prosigue(p, SinPedido)
  /\ UNCHANGED <<deR2, avatarKey, portfolio, paquetes, candado>>

\* The platform suspends, or forgives.
Suspender ==
  /\ porPedir > 0 /\ porPedir' = porPedir - 1
  /\ ficha' = IF ficha = "SUSPENDED" THEN "DRAFT" ELSE "SUSPENDED"
  /\ UNCHANGED <<deR2, avatarKey, portfolio, paquetes, candado, pedido>>

\* The process dies: the transaction it was in rolls back.
CaePedido(p) ==
  /\ pedido[p].pc # "libre"
  /\ Libera(p) /\ Prosigue(p, SinPedido)
  /\ UNCHANGED <<deR2, deVitrina>>

ImagesNext ==
  \/ \E prefijo \in {Avatares, Fotos} : preparar(prefijo)
  \/ \E k \in Avatares \cup Fotos : Subir(k)
  \/ \E p \in Pedidos :
       \/ \E k \in Avatares \cup Fotos : SetAvatar(p, k) \/ AddPortfolioImage(p, k)
                                            \/ confirmarNoValida(p, k)
       \/ \E i \in DOMAIN portfolio : RemovePortfolioImage(p, i)
       \/ \E activo \in BOOLEAN : SetVendorMode(p, activo)
       \/ RemoveAvatar(p) \/ fijarAvatar(p) \/ bloquearFicha(p) \/ agregarFoto(p)
       \/ borrarFoto(p) \/ borrar(p) \/ ReplacePackages(p) \/ reemplazarPaquetes(p)
       \/ fijarEstado(p) \/ CaePedido(p)
  \/ \E orden \in OrdenesFoto : reordenarFotos(orden)
  \/ Suspender

ImagesSpec == ImagesInit /\ [][ImagesNext]_imagesVars

-----------------------------------------------------------------------------
(* Properties *)

ImagesTypeOK ==
  /\ bucket \subseteq firmadas /\ firmadas \subseteq Avatares \cup Fotos
  /\ avatarKey \in Avatares \cup {SinClave}
  /\ portfolio \in [DOMAIN portfolio -> [storageKey: Fotos, position: Nat]]
  /\ ficha \in {"DRAFT", "PUBLISHED", "SUSPENDED"} /\ candado \in Pedidos \cup {SinCandado}

\* The public profile: never more photos than the limit and never two in one
\* place, though requests count, add, move and delete at once; and more than
\* one list of packages only from as many requests at once.
ShowcaseIsInOrder ==
  /\ Cardinality(DOMAIN portfolio) <= MAX_FOTOS_PORTFOLIO
  /\ \A i, j \in DOMAIN portfolio : portfolio[i].position = portfolio[j].position => i = j
  /\ Cardinality(paquetes) <= Cardinality(Pedidos)

\* "Lo subido no llego a guardarse: que no quede huerfano en R2"
\* (portfolio.use-cases.ts:72): what is deleted over the limit is not shown.
LimitDeletesOnlyOrphans ==
  \A p \in Pedidos : pedido[p].pc = "borrar" =>
    \A i \in DOMAIN portfolio : portfolio[i].storageKey # pedido[p].key
=============================================================================
