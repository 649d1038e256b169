---------------------------- MODULE SeatingDomain ----------------------------
(***************************************************************************)
(* The pure rules of the seating plan (src/src/modules/seating/domain) and *)
(* the rows they speak of.                                                 *)
(***************************************************************************)
EXTENDS Integers, FiniteSets

CONSTANTS Mesas,             \* ids of seating_tables
          Invitados,         \* ids of guests
          Filas,             \* the guest rows considered, a subset of FilaSentable
          MaxAsientos,       \* MAX_ASIENTOS_POR_MESA
          MaxMesas,          \* MAX_MESAS_POR_EVENTO
          MaxAcompanantes,   \* MAX_INDICE_ACOMPANANTE
          SinDato            \* null

Acompanantes == 0..MaxAcompanantes
FilaSentable == [rsvp: {"CONFIRMED", "PENDING", "DECLINED"},
                 companionsAllowed: Acompanantes,
                 companionsConfirmed: Acompanantes \cup {SinDato}]

ASSUME SupuestosPlano ==
  /\ MaxAsientos \in Nat \ {0} /\ MaxMesas \in Nat /\ MaxAcompanantes \in Nat
  /\ SinDato \notin Nat /\ SinDato \in Int
  /\ Filas \subseteq FilaSentable
  /\ IsFiniteSet(Mesas) /\ Mesas \cap Invitados = {}

Asientos == 0..(MaxAsientos - 1)
Ocupante == [guestId: Invitados, companionIndex: Acompanantes]
Asignacion == [tableId: Mesas, seatIndex: Asientos, guestId: Invitados,
               companionIndex: Acompanantes]

\* `puesto` is the index given to posicionEnCuadricula and nombrePorDefecto.
FilaMesa == [minSeats: 1..MaxAsientos, seatCount: 1..MaxAsientos, maxSeats: 1..MaxAsientos,
             creada: Nat, puesto: Nat]

plazasDe(g) ==
  IF g.rsvp = "DECLINED" THEN 0
  ELSE 1 + (IF g.companionsConfirmed = SinDato THEN g.companionsAllowed
            ELSE g.companionsConfirmed)

\* ocupanteValido; its negation is esSobrante.
ocupanteValido(a, invitados) ==
  a.guestId \in DOMAIN invitados /\ a.companionIndex < plazasDe(invitados[a.guestId])

rangoAsientosValido(m) ==
  m.minSeats >= 1 /\ m.minSeats <= m.seatCount /\ m.seatCount <= m.maxSeats
    /\ m.maxSeats <= MaxAsientos

\* armarDistribucion: what GET /seating shows of a seat.
asientoVisto(m, i, asignaciones, invitados) ==
  {[guestId |-> a.guestId, companionIndex |-> a.companionIndex,
    sobrante |-> ~ocupanteValido(a, invitados)] :
      a \in {b \in asignaciones : b.tableId = m /\ b.seatIndex = i}}

MismaPersona(a, b) == a.guestId = b.guestId /\ a.companionIndex = b.companionIndex
MismoAsiento(a, b) == a.tableId = b.tableId /\ a.seatIndex = b.seatIndex

\* The unique indexes (tableId, seatIndex) and (guestId, companionIndex).
SinChoques(as) == \A a, b \in as : MismaPersona(a, b) \/ MismoAsiento(a, b) => a = b
Cabe(a, as) == a \notin as /\ SinChoques(as \cup {a})

\* The assignment of b's person to a's seat.
Trasladada(b, a) == [b EXCEPT !.tableId = a.tableId, !.seatIndex = a.seatIndex]

\* The table of rows f with those of n, new or changed, and without row x.
Con(f, n) == [y \in DOMAIN f \cup DOMAIN n |-> IF y \in DOMAIN n THEN n[y] ELSE f[y]]
Sin(f, x) == [y \in DOMAIN f \ {x} |-> f[y]]
=============================================================================
