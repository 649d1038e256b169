------------------------------ MODULE Contracts ------------------------------
(***************************************************************************)
(* The vendors hired for one event and its expenses (src/src/modules/      *)
(* vendors and expenses).  Every use case reads, decides and writes in     *)
(* separate statements; each write is one statement or one transaction,    *)
(* and the foreign keys of the tables judge it.                            *)
(***************************************************************************)
EXTENDS Integers, FiniteSets, Sequences, FiniteSetsExt

CONSTANTS Contratos,    \* ids of event_vendors
          Gastos,       \* ids of expenses
          Tramites,     \* concurrent requests
          Montos,       \* amounts of expenses and budgets, in cents
          Externo,      \* the origin of an expense without a vendor of the event
          Primero,      \* the vendor hired at the start
          MaxTramites   \* bound of the requests

ASSUME SupuestosContratos ==
  /\ IsFiniteSet(Contratos) /\ IsFiniteSet(Gastos) /\ Externo \notin Contratos
  /\ Primero \in Contratos
  /\ Montos \subseteq Nat /\ MaxTramites \in Nat

VARIABLES
  contratados,  \* table event_vendors: a function on the ids that exist
  gastos,       \* table expenses: a function on the ids that exist
  auditoria,    \* AuditLog: the event_vendor.* actions, in order
  perfil,       \* status of the vendor profile that can be hired
  tramite,      \* state of each request
  pendientes    \* requests still to come

contractsVars == <<contratados, gastos, auditoria, perfil, tramite, pendientes>>

EstadosContrato == {"SHORTLISTED", "BOOKED", "CANCELLED"}
EstadosGasto == {"PENDING", "PAID"}
\* new Date(): requests are told apart by the moment they begin to write.
ahora == MaxTramites - pendientes
FilaContrato == [kind: {"linked", "external"}, status: EstadosContrato, assignedBudget: Montos \cup {0}]
FilaGasto == [origen: Contratos \cup {Externo}, status: EstadosGasto, paidAt: 0..MaxTramites,
              amount: Montos]
SinTramite == [pc |-> "libre"]
\* A change of amount or budget that is left undefined.
SinMonto == -1

ContractsInit ==
  /\ contratados = [v \in {Primero} |-> [kind |-> "linked", status |-> "SHORTLISTED", assignedBudget |-> 0]]
  /\ auditoria = <<<<"added", Primero>>>> /\ gastos = << >>
  /\ perfil = "PUBLISHED"
  /\ tramite = [t \in Tramites |-> SinTramite]
  /\ pendientes \in {0, MaxTramites}

Entra(t, e) == /\ tramite[t].pc = "libre" /\ pendientes > 0
               /\ pendientes' = pendientes - 1
               /\ tramite' = [tramite EXCEPT ![t] = e]
Sale(t) == tramite' = [tramite EXCEPT ![t] = SinTramite] /\ UNCHANGED pendientes
\* A check that passes, or the error that ends the request.
Sigue(t, bien, etapa) ==
  /\ tramite' = [tramite EXCEPT ![t] = IF bien THEN [tramite[t] EXCEPT !.pc = etapa] ELSE SinTramite]
  /\ UNCHANGED pendientes
deNegocio == <<contratados, gastos, auditoria, perfil>>
Puesto(f, x, e) == [y \in DOMAIN f \cup {x} |-> IF y = x THEN e ELSE f[y]]
Quitado(f, x) == [y \in DOMAIN f \ {x} |-> f[y]]
Auditar(accion, v) == auditoria' = Append(auditoria, <<accion, v>>)

\* The key expenses.eventVendorId, ON DELETE RESTRICT.
AdmiteClave(g) == g.origen \in DOMAIN contratados \cup {Externo}

-----------------------------------------------------------------------------
(* Expenses *)

proveedorExiste(origen) == origen \in DOMAIN contratados \cup {Externo}

\* CreateExpenseUseCase: the vendor must exist ...
CrearGasto(t, origen, status, monto) ==
  /\ proveedorExiste(origen)
  /\ Entra(t, [pc |-> "crearGasto",
               fila |-> [origen |-> origen, status |-> status, amount |-> monto,
                         paidAt |-> IF status = "PAID" THEN ahora + 1 ELSE 0]])
  /\ UNCHANGED deNegocio

\* ... and still exist when the row is inserted.
crearGasto(t) ==
  /\ tramite[t].pc = "crearGasto"
  /\ \E id \in Gastos \ DOMAIN gastos :
       gastos' = IF AdmiteClave(tramite[t].fila) THEN Puesto(gastos, id, tramite[t].fila) ELSE gastos
  /\ Sale(t)
  /\ UNCHANGED <<contratados, auditoria, perfil>>

\* UpdateExpenseUseCase: the row it reads.  A change names an origin, a status
\* and an amount, some of them ("undefined", SinMonto), or only other fields.
ActualizarGasto(t, id, origen, status, monto) ==
  /\ id \in DOMAIN gastos
  /\ Entra(t, [pc |-> "proveedor", id |-> id, leido |-> gastos[id], origen |-> origen,
               status |-> status, amount |-> monto, ahora |-> ahora + 1])
  /\ UNCHANGED deNegocio

ComprobarProveedor(t) ==
  /\ tramite[t].pc = "proveedor"
  /\ Sigue(t, tramite[t].origen = "undefined" \/ proveedorExiste(tramite[t].origen), "actualizarGasto")
  /\ UNCHANGED deNegocio

paidAtTrasCambio(leido, status, hoy) ==
  IF status = "PENDING" THEN 0
  ELSE IF leido.status = "PAID" /\ leido.paidAt # 0 THEN leido.paidAt ELSE hoy

\* Mutant: a PATCH without status writes back the paidAt it read.
cambiosConPaidAtLeido(fila, e) ==
  [fila EXCEPT !.origen = IF e.origen = "undefined" THEN @ ELSE e.origen,
               !.status = IF e.status = "undefined" THEN @ ELSE e.status,
               !.amount = IF e.amount = SinMonto THEN @ ELSE e.amount,
               !.paidAt = IF e.status = "undefined" THEN e.leido.paidAt
                          ELSE paidAtTrasCambio(e.leido, e.status, e.ahora)]

\* What the PATCH writes over the row, whatever the row is by now; paidAt only
\* with a status.
cambiosGasto(fila, e) ==
  [fila EXCEPT !.origen = IF e.origen = "undefined" THEN @ ELSE e.origen,
               !.status = IF e.status = "undefined" THEN @ ELSE e.status,
               !.amount = IF e.amount = SinMonto THEN @ ELSE e.amount,
               !.paidAt = IF e.status = "undefined" THEN @
                          ELSE paidAtTrasCambio(e.leido, e.status, e.ahora)]
AdmitePagado(g) == (g.status = "PAID") = (g.paidAt # 0)

actualizarGasto(t) ==
  LET e == tramite[t]
  IN /\ e.pc = "actualizarGasto"
     /\ gastos' = IF /\ e.id \in DOMAIN gastos
                     /\ AdmiteClave(cambiosGasto(gastos[e.id], e))
                     /\ AdmitePagado(cambiosGasto(gastos[e.id], e))
                  THEN [gastos EXCEPT ![e.id] = cambiosGasto(gastos[e.id], e)] ELSE gastos
     /\ Sale(t)
     /\ UNCHANGED <<contratados, auditoria, perfil>>

BorrarGasto(id) ==
  /\ id \in DOMAIN gastos /\ pendientes > 0
  /\ pendientes' = pendientes - 1
  /\ gastos' = Quitado(gastos, id)
  /\ UNCHANGED <<contratados, auditoria, perfil, tramite>>

Suma(f, S) == MapThenSumSet(LAMBDA x : f[x], S)
\* sumas and calcularResumen, of the tables at one instant: a request runs its two
\* statements at once (Promise.all), and may see another commit between them.
sumas == [assigned |-> Suma([v \in DOMAIN contratados |-> contratados[v].assignedBudget],
                            {v \in DOMAIN contratados : contratados[v].status # "CANCELLED"}),
          paid |-> Suma([g \in DOMAIN gastos |-> gastos[g].amount],
                        {g \in DOMAIN gastos : gastos[g].status = "PAID"}),
          pending |-> Suma([g \in DOMAIN gastos |-> gastos[g].amount],
                           {g \in DOMAIN gastos : gastos[g].status = "PENDING"})]
calcularResumen(total, s) == [unassigned |-> total - s.assigned,
                              remaining |-> total - s.paid - s.pending]

-----------------------------------------------------------------------------
(* Vendors of the event *)

\* Which of vendorProfileId, externalName, and externalEmail or externalPhone came.
parseVendorRef(enlazado, nombre, contacto) ==
  IF enlazado /\ (nombre \/ contacto) THEN "VENDOR_REF_AMBIGUA"
  ELSE IF ~enlazado /\ ~nombre THEN "VENDOR_REF_VACIA"
  ELSE IF enlazado THEN "linked" ELSE "external"

\* AddEventVendorUseCase: only a published profile can be hired ...
AgregarProveedor(t, kind, presupuesto) ==
  /\ kind \in {"linked", "external"}
  /\ kind = "linked" => perfil = "PUBLISHED"
  /\ Entra(t, [pc |-> "crearContrato", kind |-> kind, assignedBudget |-> presupuesto])
  /\ UNCHANGED deNegocio

\* ... by the read; the row and its audit entry are one transaction.
crearContrato(t) ==
  /\ tramite[t].pc = "crearContrato"
  /\ \E v \in Contratos \ {auditoria[i][2] : i \in DOMAIN auditoria} :
       /\ contratados' = Puesto(contratados, v, [kind |-> tramite[t].kind, status |-> "SHORTLISTED",
                                                 assignedBudget |-> tramite[t].assignedBudget])
       /\ Auditar("added", v)
  /\ Sale(t)
  /\ UNCHANGED <<gastos, perfil>>

\* UpdateEventVendorUseCase: a status, a budget, both or only other fields.
ActualizarProveedor(t, v, status, presupuesto) ==
  /\ v \in DOMAIN contratados
  /\ Entra(t, [pc |-> "actualizarContrato", v |-> v, status |-> status,
               assignedBudget |-> presupuesto])
  /\ UNCHANGED deNegocio

cambiosContrato(fila, e) ==
  [fila EXCEPT !.status = IF e.status = "undefined" THEN @ ELSE e.status,
               !.assignedBudget = IF e.assignedBudget = SinMonto THEN @ ELSE e.assignedBudget]

\* Mutant: the audit entry is written although no row was updated.
actualizarYAuditar(t) ==
  LET e == tramite[t]
  IN /\ e.pc = "actualizarContrato"
     /\ contratados' = IF e.v \in DOMAIN contratados
                       THEN [contratados EXCEPT ![e.v] = cambiosContrato(@, e)] ELSE contratados
     /\ Auditar("updated", e.v)
     /\ Sale(t)
     /\ UNCHANGED <<gastos, perfil>>

\* The row may be gone: then the transaction leaves no audit entry either.
actualizarContrato(t) ==
  LET e == tramite[t]
  IN /\ e.pc = "actualizarContrato"
     /\ IF e.v \in DOMAIN contratados
        THEN /\ contratados' = [contratados EXCEPT ![e.v] = cambiosContrato(@, e)]
             /\ Auditar("updated", e.v)
        ELSE UNCHANGED <<contratados, auditoria>>
     /\ Sale(t)
     /\ UNCHANGED <<gastos, perfil>>

\* RemoveEventVendorUseCase: it exists ...
QuitarProveedor(t, v) ==
  /\ v \in DOMAIN contratados
  /\ Entra(t, [pc |-> "tieneGastos", v |-> v])
  /\ UNCHANGED deNegocio

tieneGastos(v) == \E g \in DOMAIN gastos : gastos[g].origen = v

\* ... has no expenses ...
ComprobarGastos(t) ==
  /\ tramite[t].pc = "tieneGastos"
  /\ Sigue(t, ~tieneGastos(tramite[t].v), "eliminar")
  /\ UNCHANGED deNegocio

\* Mutant: ON DELETE CASCADE instead of RESTRICT.
EnCascada(v) == v \notin Contratos

\* ... and is deleted, if the keys of expenses allow it; the audit entry is
\* written although another request deleted the row before.
Restringe(v) == tieneGastos(v)
eliminar(t) ==
  LET v == tramite[t].v
  IN /\ tramite[t].pc = "eliminar"
     /\ IF Restringe(v) THEN UNCHANGED <<contratados, auditoria, gastos>>
        ELSE /\ contratados' = Quitado(contratados, v)
             /\ gastos' = [g \in {h \in DOMAIN gastos : gastos[h].origen # v} |-> gastos[g]]
             /\ Auditar("removed", v)
     /\ Sale(t)
     /\ UNCHANGED perfil

\* The vendor edits or an admin suspends the profile.
CambiarPerfil ==
  /\ pendientes > 0 /\ pendientes' = pendientes - 1
  /\ perfil' \in {"DRAFT", "PUBLISHED", "SUSPENDED"} \ {perfil}
  /\ UNCHANGED <<contratados, gastos, auditoria, tramite>>

\* The process dies between two statements.
CaeTramite(t) ==
  /\ tramite[t].pc # "libre"
  /\ Sale(t)
  /\ UNCHANGED deNegocio

ContractsNext ==
  \/ \E t \in Tramites :
       \/ \E origen \in Contratos \cup {Externo}, status \in EstadosGasto, monto \in Montos :
            CrearGasto(t, origen, status, monto)
       \/ \E id \in Gastos, origen \in Contratos \cup {Externo, "undefined"},
             status \in EstadosGasto \cup {"undefined"}, monto \in Montos \cup {SinMonto} :
            ActualizarGasto(t, id, origen, status, monto)
       \/ \E enlazado, nombre, contacto \in BOOLEAN, b \in Montos \cup {0} :
            AgregarProveedor(t, parseVendorRef(enlazado, nombre, contacto), b)
       \/ \E v \in Contratos, status \in EstadosContrato \cup {"undefined"},
             b \in Montos \cup {0, SinMonto} : ActualizarProveedor(t, v, status, b)
       \/ \E v \in Contratos : QuitarProveedor(t, v)
       \/ crearGasto(t) \/ ComprobarProveedor(t) \/ actualizarGasto(t)
       \/ crearContrato(t) \/ actualizarContrato(t) \/ ComprobarGastos(t) \/ eliminar(t)
       \/ CaeTramite(t)
  \/ \E id \in Gastos : BorrarGasto(id)
  \/ CambiarPerfil

ContractsSpec == ContractsInit /\ [][ContractsNext]_contractsVars

-----------------------------------------------------------------------------
(* Properties *)

ContractsTypeOK ==
  /\ DOMAIN contratados \subseteq Contratos /\ contratados \in [DOMAIN contratados -> FilaContrato]
  /\ DOMAIN gastos \subseteq Gastos /\ gastos \in [DOMAIN gastos -> FilaGasto]
  /\ auditoria \in Seq({"added", "updated", "removed"} \X Contratos)

\* What the tables say of the budget never forgets money: a vendor leaves only with its
\* assigned budget, no expense goes with it, and every expense names a vendor
\* that is still there, although one request checks and another writes between.
VendorLeavesNoHole ==
  [][LET antes == calcularResumen(0, sumas)
         despues == calcularResumen(0, sumas)'
     IN DOMAIN contratados' # DOMAIN contratados =>
          /\ despues.remaining = antes.remaining /\ gastos' = gastos
          /\ \A g \in DOMAIN gastos' : gastos'[g].origen \in DOMAIN contratados' \cup {Externo}
    ]_contractsVars

\* "expenses_pagado_con_fecha no puede romperse desde la API": the CHECK would
\* accept what any PATCH in flight is about to write, over the row as it is now
\* and not as it was read.
CheckNeverRejectsPatch ==
  \A t \in Tramites :
    tramite[t].pc \in {"proveedor", "actualizarGasto"} /\ tramite[t].id \in DOMAIN gastos =>
      AdmitePagado(cambiosGasto(gastos[tramite[t].id], tramite[t]))

\* The audit log tells the story of each row: hired once, changed only while it
\* is there, and present until it is removed.  (Two concurrent DELETEs may log
\* the removal twice.)
AuditTellsTheStory ==
  \A v \in Contratos :
    LET suyas == {i \in DOMAIN auditoria : auditoria[i][2] = v}
    IN /\ \A i \in suyas : auditoria[i][1] = "added" <=> \A j \in suyas : i <= j
       /\ \A i, j \in suyas : auditoria[i][1] = "removed" /\ i < j => auditoria[j][1] = "removed"
       /\ v \in DOMAIN contratados <=> suyas # {} /\ \A i \in suyas : auditoria[i][1] # "removed"
=============================================================================
