--------------------------- MODULE ConfigStore ---------------------------
(***************************************************************************)
(* The configuration persisted in the database                             *)
(* (src/src/services/config_store.rs): the table config_settings, and the  *)
(* table config_generations that lets a configuration which prevents       *)
(* startup roll back on its own.                                           *)
(*                                                                         *)
(* Every operation of the store is one SQLite transaction, so each is one  *)
(* action here.  The module has no Next: the processes that call the store *)
(* are in ConfigBoot, which extends it.                                    *)
(***************************************************************************)
EXTENDS Naturals

CONSTANTS
  Fields,          \* the rows config_settings may hold, one per field name
  Storable,        \* those the parameter table marks Persist::Allowed
  Values,          \* raw stored values
  Absent,          \* "no row"
  MaxGenerations   \* bound: how many generations are ever opened

ASSUME StorableAssumption == Storable \subseteq Fields
ASSUME AbsentAssumption == Absent \notin Values
ASSUME BoundAssumption == MaxGenerations \in Nat

VARIABLES
  settings,        \* config_settings: field -> value or Absent
  generations,     \* config_generations: id -> row
  lastId           \* the AUTOINCREMENT counter of config_generations

storeVars == <<settings, generations, lastId>>

(***************************************************************************)
(* A layer is what a SELECT over config_settings returns.                  *)
(***************************************************************************)
Layer == [Fields -> Values \union {Absent}]

EmptyLayer == [f \in Fields |-> Absent]

\* Insert or replace some rows.
Overwrite(layer, updates) ==
  [f \in Fields |-> IF f \in DOMAIN updates THEN updates[f] ELSE layer[f]]

\* Remove one row.
Without(layer, field) == [layer EXCEPT ![field] = Absent]

\* The rows the service will read: one naming a field that must never be
\* stored is dropped, however it got there.
Honoured(layer) == [f \in Fields |-> IF f \in Storable THEN layer[f] ELSE Absent]

\* The bodies of a write: at least one field, each of them storable.
Updates == UNION {[fs -> Values] : fs \in (SUBSET Storable) \ {{}}}

-----------------------------------------------------------------------------
(***************************************************************************)
(* The generation table.  An id with status "none" has no row: it was      *)
(* never inserted, or it was pruned.                                       *)
(***************************************************************************)
GenId == 1 .. MaxGenerations

NoGeneration == 0

Row == [snapshot : Layer,
        status   : {"none", "pending", "confirmed", "rolled_back"},
        attempts : Nat]

NoRow == [snapshot |-> EmptyLayer, status |-> "none", attempts |-> 0]

Live == {i \in GenId : generations[i].status # "none"}

Confirmed == {i \in GenId : generations[i].status = "confirmed"}

\* ORDER BY id DESC LIMIT 1, over the whole table or over a status.
IsLast(i, ids) == i \in ids /\ \A j \in ids : j <= i

IsNewest(i) == IsLast(i, Live)

\* What a rollback restores: the newest confirmed snapshot, or nothing at all
\* when no configuration was ever confirmed.
KnownGoodLayer ==
  IF Confirmed = {}
    THEN EmptyLayer
    ELSE generations[CHOOSE i \in Confirmed : IsLast(i, Confirmed)].snapshot

StoreInit ==
  /\ settings \in {s \in Layer : \A f \in Storable : s[f] = Absent}
  /\ generations = [i \in GenId |-> NoRow]
  /\ lastId = 0

-----------------------------------------------------------------------------
(***************************************************************************)
(* Writes.  The generation snapshots the table after the write.            *)
(***************************************************************************)
OpenGeneration(layer) ==
  /\ lastId < MaxGenerations
  /\ lastId' = lastId + 1
  /\ generations' = [generations EXCEPT ![lastId + 1] =
                       [snapshot |-> layer, status |-> "pending", attempts |-> 0]]

\* Mutant: the snapshot is taken before the write instead of after it.
SetSnapshotsFirst(updates) ==
  /\ settings' = Overwrite(settings, updates)
  /\ OpenGeneration(settings)

Set(updates) ==
  /\ settings' = Overwrite(settings, updates)
  /\ OpenGeneration(settings')

\* Deleting a row that is not there changes nothing and opens no generation.
Unset(field) ==
  /\ settings[field] # Absent
  /\ settings' = Without(settings, field)
  /\ OpenGeneration(settings')

Clear ==
  /\ settings # EmptyLayer
  /\ settings' = EmptyLayer
  /\ OpenGeneration(settings')

-----------------------------------------------------------------------------
(***************************************************************************)
(* prepare_boot: what this start should do about the newest generation.    *)
(* Its four outcomes are four actions; the parameter is the id it returns. *)
(***************************************************************************)
\* Nothing was ever stored.
PrepareEmpty ==
  /\ Live = {}
  /\ UNCHANGED storeVars

\* The newest generation is settled, one way or the other.
PrepareClean(id) ==
  /\ IsNewest(id)
  /\ generations[id].status # "pending"
  /\ UNCHANGED storeVars

\* Mutant: the attempt is not counted, so every start believes it is the first.
PrepareTryingUncounted(id) ==
  /\ IsNewest(id)
  /\ generations[id].status = "pending"
  /\ generations[id].attempts = 0
  /\ UNCHANGED storeVars

\* The newest generation has never been tried: this start tries it.
PrepareTrying(id) ==
  /\ IsNewest(id)
  /\ generations[id].status = "pending"
  /\ generations[id].attempts = 0
  /\ generations' = [generations EXCEPT ![id].attempts = @ + 1]
  /\ UNCHANGED <<settings, lastId>>

\* Mutant: with nothing confirmed, the settings are left alone.
PrepareRollBackToNothing(id) ==
  /\ IsNewest(id)
  /\ generations[id].status = "pending"
  /\ generations[id].attempts # 0
  /\ settings' = IF Confirmed = {} THEN settings ELSE KnownGoodLayer
  /\ generations' = [generations EXCEPT ![id].status = "rolled_back"]
  /\ UNCHANGED lastId

\* Mutant: the settings are restored and the generation stays pending.
PrepareRollBackUnmarked(id) ==
  /\ IsNewest(id)
  /\ generations[id].status = "pending"
  /\ generations[id].attempts # 0
  /\ settings' = KnownGoodLayer
  /\ UNCHANGED <<generations, lastId>>

\* It was tried and never confirmed: restore what last worked.
PrepareRollBack(id) ==
  /\ IsNewest(id)
  /\ generations[id].status = "pending"
  /\ generations[id].attempts # 0
  /\ settings' = KnownGoodLayer
  /\ generations' = [generations EXCEPT ![id].status = "rolled_back"]
  /\ UNCHANGED lastId

-----------------------------------------------------------------------------
(***************************************************************************)
(* confirm: this id, and only while it is still pending.  Confirming makes *)
(* everything older unreachable, so it is pruned in the same transaction.  *)
(***************************************************************************)
\* Mutant: DELETE ... WHERE id <= ?.
PrunedInclusive(rows, id) == [i \in GenId |-> IF i <= id THEN NoRow ELSE rows[i]]

\* Mutant: everything but the newest row goes.
PrunedToNewest(rows, id) == [i \in GenId |-> IF i < lastId THEN NoRow ELSE rows[i]]

Pruned(rows, id) == [i \in GenId |-> IF i < id THEN NoRow ELSE rows[i]]

\* Mutant: UPDATE ... WHERE id = ?, whatever the row's status.
ConfirmAnyStatus(id) ==
  /\ generations' = Pruned([generations EXCEPT ![id].status = "confirmed"], id)
  /\ UNCHANGED <<settings, lastId>>

Confirm(id) ==
  /\ generations[id].status = "pending"
  /\ generations' = Pruned([generations EXCEPT ![id].status = "confirmed"], id)
  /\ UNCHANGED <<settings, lastId>>

\* The update matched no row: someone else settled or pruned this generation.
ConfirmNothing(id) ==
  /\ generations[id].status # "pending"
  /\ UNCHANGED storeVars

=============================================================================
