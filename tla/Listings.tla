------------------------------ MODULE Listings ------------------------------
(***************************************************************************)
(* Lists by cursor (src/src/shared/domain/cursor.ts): a client walks the   *)
(* pages of one listing while rows come, go and change.  Guests and the    *)
(* vendor catalogue go from the oldest row, expenses and notifications     *)
(* from the newest.  The four listings filter by different columns; here a *)
(* row matches the client's filter or does not ("casa").                   *)
(***************************************************************************)
EXTENDS Integers, FiniteSets

CONSTANTS Ids,       \* ids of the rows, compared as Postgres compares the uuids
          Horas,       \* instants of createdAt, in milliseconds
          Limites,     \* page sizes the client asks for
          SinCursor,   \* the first page, or no page after this one
          MaxCambios   \* bound of the changes of rows during the walk

ASSUME SupuestosListado ==
  /\ Ids \subseteq Int /\ IsFiniteSet(Ids) /\ Horas \subseteq Nat
  /\ SinCursor \notin [createdAt: Horas, id: Ids]
  /\ Limites \subseteq 1..100 /\ MaxCambios \in Nat

VARIABLES
  cualLista,  \* which of the four is walked
  tabla,      \* the rows that exist: a function on their ids
  recorrido,  \* the client: its cursor, and how often it was shown each row
  fieles,     \* rows that matched during the whole walk
  faltan      \* changes of rows still to come

listingsVars == <<cualLista, tabla, recorrido, fieles, faltan>>

FilaListada == [createdAt: Horas, casa: BOOLEAN]
Listados == {"guests", "catalogo", "expenses", "notifications"}

\* The order (createdAt, id), total since the id tells rows of one instant apart.
Antes(a, b) == \/ a.createdAt < b.createdAt
               \/ a.createdAt = b.createdAt /\ a.id < b.id

\* encodeCursor and decodeCursor carry the pair, to the millisecond.
Cursor(id) == [createdAt |-> tabla[id].createdAt, id |-> id]

\* Mutant: the cursor compares the instant alone.
trasInstante(f, c) == f.createdAt > c.createdAt

\* The WHERE of each listing after a cursor c.
trasInvitado(f, c) == Antes(c, f)
trasFicha(f, c) == Antes(c, f)
trasGasto(f, c) == Antes(f, c)
trasNotificacion(f, c) == Antes(f, c)
Tras(f, c) == CASE cualLista = "guests" -> trasInvitado(f, c)
                [] cualLista = "catalogo" -> trasFicha(f, c)
                [] cualLista = "expenses" -> trasGasto(f, c)
                [] cualLista = "notifications" -> trasNotificacion(f, c)

Candidatas(c) == {id \in DOMAIN tabla :
                    tabla[id].casa /\ (c = SinCursor \/ Tras(Cursor(id), c))}

\* ORDER BY and LIMIT: the candidates with less than limite of them before.
EnOrden(a, b) == IF cualLista \in {"guests", "catalogo"} THEN Antes(a, b) ELSE Antes(b, a)
Delante(id, c) == {x \in Candidatas(c) : EnOrden(Cursor(x), Cursor(id))}
Primeras(c, limite) == {id \in Candidatas(c) : Cardinality(Delante(id, c)) < limite}
ultima(items) == CHOOSE id \in items : \A x \in items : ~EnOrden(Cursor(id), Cursor(x))

\* The repository asks for one row more: if it comes, there is another page.
listar(c, limite) ==
  LET items == Primeras(c, limite)
  IN [items |-> items,
      nextCursor |-> IF items = Candidatas(c) THEN SinCursor ELSE Cursor(ultima(items))]

ListingsInit ==
  /\ faltan \in {0, MaxCambios}
  /\ cualLista \in IF faltan = 0 THEN {"guests"} ELSE Listados
  /\ tabla \in IF faltan = 0 THEN {<< >>}
               ELSE UNION {[S -> FilaListada] : S \in SUBSET Ids}
  /\ recorrido = [pc |-> "empieza", cursor |-> SinCursor, vistas |-> [id \in Ids |-> 0]]
  /\ fieles = {id \in DOMAIN tabla : tabla[id].casa}

PedirPagina(limite) ==
  LET pagina == listar(recorrido.cursor, limite)
  IN /\ recorrido.pc # "termina" /\ DOMAIN tabla # {}
     /\ recorrido' = [pc |-> IF pagina.nextCursor = SinCursor THEN "termina" ELSE "sigue",
                      cursor |-> pagina.nextCursor,
                      vistas |-> [id \in Ids |-> recorrido.vistas[id] + IF id \in pagina.items THEN 1 ELSE 0]]
     /\ UNCHANGED <<cualLista, tabla, fieles, faltan>>

CambiaFila == recorrido.pc = "sigue" /\ faltan > 0 /\ faltan' = faltan - 1 /\ UNCHANGED <<cualLista, recorrido>>

\* A row of a new uuid.  It may show after later ones: its transaction took the
\* time at its start.
InsertarFila(id, fila) ==
  /\ id \notin DOMAIN tabla /\ recorrido.vistas[id] = 0 /\ CambiaFila
  /\ tabla' = [x \in DOMAIN tabla \cup {id} |-> IF x = id THEN fila ELSE tabla[x]]
  /\ UNCHANGED fieles

\* An RSVP, a payment, a reading or a publication moves a row in or out of the filter.
CambiarFila(id) ==
  /\ id \in DOMAIN tabla /\ CambiaFila
  /\ tabla' = [tabla EXCEPT ![id].casa = ~tabla[id].casa]
  /\ fieles' = fieles \ {id}

BorrarFila(id) ==
  /\ id \in DOMAIN tabla /\ CambiaFila
  /\ tabla' = [x \in DOMAIN tabla \ {id} |-> tabla[x]]
  /\ fieles' = fieles \ {id}

ListingsNext ==
  \/ \E limite \in Limites : PedirPagina(limite)
  \/ \E id \in Ids : \/ \E fila \in FilaListada : InsertarFila(id, fila)
                       \/ CambiarFila(id) \/ BorrarFila(id)

ListingsSpec == ListingsInit /\ [][ListingsNext]_listingsVars

-----------------------------------------------------------------------------
(* Properties *)

ListingsTypeOK ==
  /\ cualLista \in Listados /\ fieles \subseteq DOMAIN tabla
  /\ DOMAIN tabla \subseteq Ids /\ tabla \in [DOMAIN tabla -> FilaListada]
  /\ recorrido \in [pc: {"empieza", "sigue", "termina"}, vistas: [Ids -> Nat],
                   cursor: [createdAt: Horas, id: Ids] \cup {SinCursor}]

\* "OFFSET salta filas cuando alguien inserta mientras paginas; el cursor es
\* exacto": a client that walks to the last page has seen every row that
\* matched all along, and no row twice, whatever came, went or changed and
\* however many rows share a millisecond.
WalkIsExact ==
  /\ \A id \in Ids : recorrido.vistas[id] <= 1
  /\ recorrido.pc = "termina" => \A id \in fieles : recorrido.vistas[id] = 1
=============================================================================
