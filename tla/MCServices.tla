----------------------------- MODULE MCServices -----------------------------
(***************************************************************************)
(* The services that share no state, each explored by itself: in an        *)
(* initial state one of them has its budget of requests and the others     *)
(* have none, so the reachable states are the sum of theirs.               *)
(***************************************************************************)
EXTENDS Seating, Events, Contracts, Schedule, Listings, GuestList, Realtime, Accounts, Images

CONSTANTS m1, m2, g1, g2, b1, b2

VARIABLE activo   \* the service explored, for the whole behaviour

\* Values of the CONSTANTS.
MCFilas == {[rsvp |-> "PENDING", companionsAllowed |-> 1, companionsConfirmed |-> -1],
            [rsvp |-> "DECLINED", companionsAllowed |-> 1, companionsConfirmed |-> -1]}
MCInicial == [rsvp |-> "PENDING", companionsAllowed |-> 1, companionsConfirmed |-> -1]
MCSinDato == -1
MCIniciales == <<m1, m2>>
MCSentados == {[tableId |-> m1, seatIndex |-> 0, guestId |-> g1, companionIndex |-> 0]}
MCCambios == {c \in CambiosEvento : \/ Cardinality({k \in CamposEvento : c[k] # "undefined"}) = 1
                                    \/ \A k \in CamposEvento : c[k] = "valor"}
MCLotes == {<<<<b1, "minusculas">>, <<b2, "minusculas">>>>,
            <<<<b1, "minusculas">>, <<b1, "Mayusculas">>>>,
            <<<<b1, "minusculas">>, SinCorreo>>, <<SinCorreo, FilaMala>>}

Presupuesto == [seating |-> quedan, events |-> restan, contracts |-> pendientes, schedule |-> porEditar,
                listings |-> faltan, guestList |-> altas, realtime |-> porVenir, accounts |-> porPasar,
                images |-> porPedir]

Init == /\ activo \in {"seating", "events", "contracts", "schedule", "listings", "guestList",
                       "realtime", "accounts", "images"}
        /\ SeatingInit /\ EventsInit /\ ContractsInit /\ ScheduleInit /\ ListingsInit
        /\ GuestListInit /\ RealtimeInit /\ AccountsInit /\ ImagesInit
        /\ \A c \in DOMAIN Presupuesto : Presupuesto[c] > 0 <=> c = activo

Next ==
  /\ UNCHANGED activo
  /\ \/ /\ activo = "seating" /\ SeatingNext
        /\ UNCHANGED <<eventsVars, contractsVars, scheduleVars, listingsVars,
                       guestListVars, realtimeVars, accountsVars, imagesVars>>
     \/ /\ activo = "events" /\ EventsNext
        /\ UNCHANGED <<seatingVars, contractsVars, scheduleVars, listingsVars,
                       guestListVars, realtimeVars, accountsVars, imagesVars>>
     \/ /\ activo = "contracts" /\ ContractsNext
        /\ UNCHANGED <<seatingVars, eventsVars, scheduleVars, listingsVars,
                       guestListVars, realtimeVars, accountsVars, imagesVars>>
     \/ /\ activo = "schedule" /\ ScheduleNext
        /\ UNCHANGED <<seatingVars, eventsVars, contractsVars, listingsVars,
                       guestListVars, realtimeVars, accountsVars, imagesVars>>
     \/ /\ activo = "listings" /\ ListingsNext
        /\ UNCHANGED <<seatingVars, eventsVars, contractsVars, scheduleVars,
                       guestListVars, realtimeVars, accountsVars, imagesVars>>
     \/ /\ activo = "guestList" /\ GuestListNext
        /\ UNCHANGED <<seatingVars, eventsVars, contractsVars, scheduleVars,
                       listingsVars, realtimeVars, accountsVars, imagesVars>>
     \/ /\ activo = "realtime" /\ RealtimeNext
        /\ UNCHANGED <<seatingVars, eventsVars, contractsVars, scheduleVars,
                       listingsVars, guestListVars, accountsVars, imagesVars>>
     \/ /\ activo = "accounts" /\ AccountsNext
        /\ UNCHANGED <<seatingVars, eventsVars, contractsVars, scheduleVars,
                       listingsVars, guestListVars, realtimeVars, imagesVars>>
     \/ /\ activo = "images" /\ ImagesNext
        /\ UNCHANGED <<seatingVars, eventsVars, contractsVars, scheduleVars,
                       listingsVars, guestListVars, realtimeVars, accountsVars>>

Spec == Init /\ [][Next]_<<activo, seatingVars, eventsVars, contractsVars, scheduleVars, listingsVars,
                           guestListVars, realtimeVars, accountsVars, imagesVars>> /\ SeatingEquidad

\* The tables keep their types and CHECKs, whatever requests interleave.
TypeOK == /\ SeatingTypeOK /\ EventsTypeOK /\ ContractsTypeOK /\ ScheduleTypeOK
          /\ ListingsTypeOK /\ GuestListTypeOK /\ RealtimeTypeOK /\ AccountsTypeOK /\ ImagesTypeOK
=============================================================================
