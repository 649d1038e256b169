------------------------------ MODULE GuestList ------------------------------
(***************************************************************************)
(* The guest list of one event apart from its invitations (src/src/modules *)
(* /guests): creation one by one, import of a file, change of the address  *)
(* and the summary.  The table has a unique index on the address as it is  *)
(* written; the import also compares without case.                         *)
(***************************************************************************)
EXTENDS Integers, FiniteSets, Sequences

CONSTANTS Fichas,       \* ids of guests
          Buzones,      \* mailboxes: an address apart from its case
          SinCorreo,    \* a guest without address
          Lotes,        \* files imported: sequences of addresses or FilaMala
          FilaMala,     \* a row that Zod rejects
          Importadores, \* concurrent imports
          MaxAltas      \* bound of creations, changes and imports

\* One mailbox written in two ways.
Correos == Buzones \X {"minusculas", "Mayusculas"}

ASSUME SupuestosLista ==
  /\ SinCorreo \notin Correos /\ MaxAltas \in Nat
  /\ Lotes \subseteq Seq(Correos \cup {SinCorreo, FilaMala})

VARIABLES
  lista,        \* table guests: the address of each guest there is
  importacion,  \* state of each import
  altas         \* creations, changes and imports still to come

guestListVars == <<lista, importacion, altas>>

SinImportar == [pc |-> "libre", lote |-> << >>, leidos |-> << >>]
Ocupa(l, correo) == correo # SinCorreo /\ \E g \in DOMAIN l : l[g] = correo

GuestListInit ==
  /\ lista = << >> /\ importacion = [p \in Importadores |-> SinImportar]
  /\ altas \in {0, MaxAltas}

Anota == altas > 0 /\ altas' = altas - 1

\* POST /guests: the index rejects an address that is taken.
CrearInvitado(g, correo) ==
  /\ Anota
  /\ g \notin DOMAIN lista /\ ~Ocupa(lista, correo)
  /\ lista' = [h \in DOMAIN lista \cup {g} |-> IF h = g THEN correo ELSE lista[h]]
  /\ UNCHANGED importacion

\* PATCH of the address.
CambiarCorreo(g, correo) ==
  /\ Anota
  /\ g \in DOMAIN lista /\ lista[g] # correo /\ ~Ocupa(lista, correo)
  /\ lista' = [lista EXCEPT ![g] = correo]
  /\ UNCHANGED importacion

BorrarFicha(g) ==
  /\ Anota
  /\ g \in DOMAIN lista
  /\ lista' = [h \in DOMAIN lista \ {g} |-> lista[h]]
  /\ UNCHANGED importacion

\* validarFilaImportacion: a row is good or not.
validas(lote) == {i \in DOMAIN lote : lote[i] # FilaMala}
ConCorreo(lote) == {i \in validas(lote) : lote[i] # SinCorreo}
buzon(correo) == correo[1]
repetidas(lote) == {i \in ConCorreo(lote) : \E j \in ConCorreo(lote) :
                      j < i /\ buzon(lote[j]) = buzon(lote[i])}
\* Mutant: only the addresses written in lower case are compared.
emailsEnMinusculas(l) ==
  {buzon(l[g]) : g \in {h \in DOMAIN l : l[h] # SinCorreo /\ l[h][2] = "minusculas"}}

emailsExistentes(l) == {buzon(l[g]) : g \in {h \in DOMAIN l : l[h] # SinCorreo}}

\* ImportGuestsUseCase: every error of the file, or none ...
errores(lote, l) ==
  (DOMAIN lote \ validas(lote)) \cup repetidas(lote)
    \cup {i \in ConCorreo(lote) : buzon(lote[i]) \in emailsExistentes(l)}
Importar(p, lote) ==
  /\ Anota
  /\ importacion[p].pc = "libre" /\ errores(lote, lista) = {}
  /\ importacion' = [importacion EXCEPT ![p] = [pc |-> "crearVarios", lote |-> lote,
                                               leidos |-> lista]]
  /\ UNCHANGED lista

\* ... and one INSERT of all its rows, which the index takes or rejects whole.
AdmiteLote(lote) ==
  \A i \in DOMAIN lote : /\ ~Ocupa(lista, lote[i])
                         /\ \A j \in DOMAIN lote : lote[j] = lote[i] /\ i # j => lote[i] = SinCorreo
ConLote(l, lote, ids) ==
  [g \in DOMAIN l \cup {ids[i] : i \in DOMAIN lote} |->
     IF g \in DOMAIN l THEN l[g] ELSE lote[CHOOSE i \in DOMAIN lote : ids[i] = g]]
crearVarios(p) ==
  LET lote == importacion[p].lote
  IN /\ importacion[p].pc = "crearVarios"
     /\ \E ids \in [DOMAIN lote -> Fichas \ DOMAIN lista] :
          /\ \A i, j \in DOMAIN lote : ids[i] = ids[j] => i = j
          /\ lista' = IF AdmiteLote(lote) THEN ConLote(lista, lote, ids) ELSE lista
     /\ importacion' = [importacion EXCEPT ![p] = SinImportar]
     /\ UNCHANGED altas

\* The process dies between the check and the INSERT.
CaeImportacion(p) ==
  /\ importacion[p].pc # "libre"
  /\ importacion' = [importacion EXCEPT ![p] = SinImportar]
  /\ UNCHANGED <<lista, altas>>

GuestListNext ==
  \/ \E g \in Fichas : \/ BorrarFicha(g)
                       \/ \E c \in Correos \cup {SinCorreo} : CrearInvitado(g, c) \/ CambiarCorreo(g, c)
  \/ \E p \in Importadores : \/ crearVarios(p) \/ CaeImportacion(p)
                             \/ \E lote \in Lotes : Importar(p, lote)

GuestListSpec == GuestListInit /\ [][GuestListNext]_guestListVars

-----------------------------------------------------------------------------
(* Properties *)

GuestListTypeOK ==
  /\ DOMAIN lista \subseteq Fichas
  /\ lista \in [DOMAIN lista -> Correos \cup {SinCorreo}]
  /\ \A p \in Importadores : importacion[p].lote \in Lotes \cup {<< >>}

\* An import takes in all its rows or none, and nobody it brings has the
\* mailbox, whatever the case, of another row of the file or of a guest who
\* was there when it checked and has not changed since.  (Somebody created in
\* between with another spelling does pass: the index compares the spelling.)
ImportDoublesNoMailbox ==
  [][\A p \in Importadores :
       importacion[p].pc = "crearVarios" /\ lista' # lista /\ importacion'[p].pc = "libre" =>
         LET nuevas == DOMAIN lista' \ DOMAIN lista
             leidos == importacion[p].leidos
             fijas == {g \in DOMAIN leidos \cap DOMAIN lista : lista[g] = leidos[g]}
         IN /\ Cardinality(nuevas) = Len(importacion[p].lote)
            /\ \A g \in nuevas, h \in nuevas \cup fijas :
                 g # h /\ SinCorreo \notin {lista'[g], lista'[h]} =>
                   buzon(lista'[g]) # buzon(lista'[h])]_guestListVars
=============================================================================
