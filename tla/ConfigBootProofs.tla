------------------------- MODULE ConfigBootProofs -------------------------
(***************************************************************************)
(* Proofs about ConfigBoot, for every value of its constants.              *)
(***************************************************************************)
EXTENDS ConfigBoot, WellFoundedInduction, TLAPS

(***************************************************************************)
(* ORDER BY id DESC LIMIT 1 finds a row whenever there is one: a nonempty  *)
(* set of generation ids has a last element.                               *)
(***************************************************************************)
LEMMA LastExists ==
  ASSUME NEW S, S \subseteq GenId, S # {}
  PROVE  \E i \in S : IsLast(i, S)
<1> DEFINE T == {MaxGenerations - i : i \in S}
           Less == OpToRel(<, Nat)
<1>1. T \subseteq Nat /\ T # {}
  <2>1. ASSUME NEW i \in S PROVE MaxGenerations - i \in Nat
    BY BoundAssumption DEF GenId
  <2> QED
    BY <2>1
<1>2. PICK x \in T : \A y \in T : ~ (<<y, x>> \in Less)
  BY <1>1, WFMin, NatLessThanWellFounded
<1>3. PICK i \in S : x = MaxGenerations - i
  BY <1>2
<1>4. ASSUME NEW j \in S, ~(j <= i)
      PROVE  FALSE
  <2>1. MaxGenerations - j < MaxGenerations - i /\ MaxGenerations - j \in T
    BY <1>4, BoundAssumption DEF GenId
  <2>2. <<MaxGenerations - j, x>> \in Less
    BY <2>1, <1>1, <1>2, <1>3 DEF OpToRel
  <2> QED
    BY <2>1, <2>2, <1>2
<1> QED
  BY <1>4 DEF IsLast

\* The layer a rollback restores is a layer.
LEMMA KnownGoodIsLayer ==
  ASSUME generations \in [GenId -> Row]
  PROVE  KnownGoodLayer \in Layer
<1>1. EmptyLayer \in Layer
  BY DEF EmptyLayer, Layer
<1>2. ASSUME Confirmed # {}
      PROVE  (CHOOSE i \in Confirmed : IsLast(i, Confirmed)) \in GenId
  <2>1. \E i \in Confirmed : IsLast(i, Confirmed)
    BY <1>2, LastExists DEF Confirmed
  <2> QED
    BY <2>1 DEF Confirmed
<1> QED
  BY <1>1, <1>2 DEF KnownGoodLayer, Row

LEMMA OverwriteIsLayer ==
  ASSUME NEW l \in Layer, NEW updates \in Updates
  PROVE  Overwrite(l, updates) \in Layer
<1>1. PICK fs \in (SUBSET Storable) \ {{}} : updates \in [fs -> Values]
  BY DEF Updates
<1> QED
  BY <1>1 DEF Overwrite, Layer

-----------------------------------------------------------------------------
(***************************************************************************)
(* What a step may do to the two tables, whoever takes it.                 *)
(***************************************************************************)
Written == \E l \in Layer : settings' = l /\ OpenGeneration(l)

StoreStep ==
  \/ Written
  \/ \E id \in GenId : PrepareTrying(id)
  \/ \E id \in GenId : PrepareRollBack(id)
  \/ \E id \in GenId : Confirm(id)
  \/ UNCHANGED storeVars

StoreTypeOK ==
  /\ settings \in Layer
  /\ generations \in [GenId -> Row]
  /\ lastId \in 0 .. MaxGenerations

LEMMA StoreInitType == StoreInit => StoreTypeOK
<1>1. EmptyLayer \in Layer
  BY DEF EmptyLayer, Layer
<1>2. NoRow \in Row
  BY <1>1 DEF NoRow, Row
<1> QED
  BY <1>2, BoundAssumption DEF StoreInit, StoreTypeOK

\* Every operation of the store keeps its tables well formed.
LEMMA StoreStepType ==
  ASSUME StoreTypeOK, StoreStep
  PROVE  StoreTypeOK'
<1> USE DEF StoreTypeOK
<1>1. CASE Written
  <2>1. PICK l \in Layer : settings' = l /\ OpenGeneration(l)
    BY <1>1 DEF Written
  <2>2. [snapshot |-> l, status |-> "pending", attempts |-> 0] \in Row
    BY DEF Row
  <2>3. lastId' \in 0 .. MaxGenerations
    BY <2>1, BoundAssumption DEF OpenGeneration
  <2>4. generations' \in [GenId -> Row]
    BY <2>1, <2>2 DEF OpenGeneration
  <2> QED
    BY <2>1, <2>3, <2>4
<1>2. CASE \E id \in GenId : PrepareTrying(id)
  <2>1. PICK id \in GenId : PrepareTrying(id)
    BY <1>2
  <2>2. [generations[id] EXCEPT !.attempts = @ + 1] \in Row
    BY DEF Row
  <2> QED
    BY <2>1, <2>2 DEF PrepareTrying
<1>3. CASE \E id \in GenId : PrepareRollBack(id)
  <2>1. PICK id \in GenId : PrepareRollBack(id)
    BY <1>3
  <2>2. [generations[id] EXCEPT !.status = "rolled_back"] \in Row
    BY DEF Row
  <2> QED
    BY <2>1, <2>2, KnownGoodIsLayer DEF PrepareRollBack
<1>4. CASE \E id \in GenId : Confirm(id)
  <2>1. PICK id \in GenId : Confirm(id)
    BY <1>4
  <2>2. [generations[id] EXCEPT !.status = "confirmed"] \in Row
    BY DEF Row
  <2>3. NoRow \in Row
    BY DEF NoRow, Row, EmptyLayer, Layer
  <2> QED
    BY <2>1, <2>2, <2>3 DEF Confirm, Pruned
<1>5. CASE UNCHANGED storeVars
  BY <1>5 DEF storeVars
<1> QED
  BY <1>1, <1>2, <1>3, <1>4, <1>5 DEF StoreStep

LEMMA SetWrites ==
  ASSUME StoreTypeOK, NEW updates \in Updates, Set(updates)
  PROVE  Written
  BY OverwriteIsLayer DEF Set, Written, StoreTypeOK

LEMMA UnsetWrites ==
  ASSUME StoreTypeOK, NEW f \in Fields, Unset(f)
  PROVE  Written
  BY DEF Unset, Written, StoreTypeOK, Without, Layer

LEMMA ClearWrites ==
  ASSUME Clear
  PROVE  Written
  BY DEF Clear, Written, EmptyLayer, Layer

-----------------------------------------------------------------------------
(***************************************************************************)
(* Every step of the system does one of those things to the store, and a   *)
(* confirm only ever names a generation id.                                *)
(***************************************************************************)
ProcTypeOK ==
  /\ pc \in [Servers -> Stages]
  /\ shadow \in [Servers -> SUBSET Fields]
  /\ stored \in [Servers -> Layer]
  /\ boot \in [Servers -> Layer]
  /\ gen \in [Servers -> GenId \union {NoGeneration}]
  /\ timer \in [Servers -> {"off", "armed", "elapsed"}]
  /\ proved \subseteq Layer

LEMMA TypeOKParts == TypeOK <=> StoreTypeOK /\ ProcTypeOK
  BY DEF TypeOK, StoreTypeOK, ProcTypeOK

LEMMA NextIsStoreStep ==
  ASSUME TypeOK, TimerHasGeneration, [Next]_vars
  PROVE  StoreStep
<1> USE DEF StoreStep
<1>1. StoreTypeOK /\ ProcTypeOK
  BY TypeOKParts
<1>2. ASSUME NEW p \in Servers, Start(p) PROVE StoreStep
  BY <1>2 DEF Start
<1>3. ASSUME NEW p \in Servers, Prepare(p) PROVE StoreStep
  BY <1>3 DEF Prepare, BootEmpty, BootClean, BootTrying, BootRolledBack,
              PrepareEmpty, PrepareClean
<1>4. ASSUME NEW p \in Servers,
             IgnoreStored(p) \/ ApplyStored(p) \/ Serve(p) \/ SurviveLongEnough(p)
      PROVE  StoreStep
  BY <1>4 DEF IgnoreStored, ApplyStored, Serve, SurviveLongEnough
<1>5. ASSUME NEW p \in Servers, ConfirmGeneration(p) PROVE StoreStep
  <2>1. gen[p] \in GenId
    BY <1>1, <1>5 DEF ConfirmGeneration, TimerHasGeneration, ProcTypeOK
  <2> QED
    BY <1>5, <2>1 DEF ConfirmGeneration, ConfirmNothing
<1>6. ASSUME NEW p \in Servers, Disturb(p) \/ Exit(p) \/ FailToStart(p) PROVE StoreStep
  BY <1>6 DEF Disturb, Stop, Crash, Exit, FailToStart, Gone
<1>7. ASSUME NEW p \in Servers, Write(p) PROVE StoreStep
  BY <1>1, <1>7, SetWrites, UnsetWrites DEF Write, PutStored, DeleteStored, ReloadOnSighup
<1>8. CASE CliUnset \/ CliClear
  BY <1>1, <1>8, UnsetWrites, ClearWrites DEF CliUnset, CliClear
<1>9. CASE UNCHANGED vars
  BY <1>9 DEF vars, storeVars
<1> QED
  BY <1>2, <1>3, <1>4, <1>5, <1>6, <1>7, <1>8, <1>9 DEF Next, Advance

\* The processes' own variables stay well typed.
LEMMA ProcStepType ==
  ASSUME TypeOK, [Next]_vars
  PROVE  ProcTypeOK'
<1>1. StoreTypeOK /\ ProcTypeOK
  BY TypeOKParts
<1> USE DEF ProcTypeOK
<1>e. EmptyLayer \in Layer
  BY DEF EmptyLayer, Layer
<1>h. \A l \in Layer : Honoured(l) \in Layer
  BY StorableAssumption DEF Honoured, Layer
<1>2. ASSUME NEW p \in Servers, Start(p) PROVE ProcTypeOK'
  BY <1>1, <1>2, EnvironmentsAssumption DEF Start, At, Stages
<1>3. ASSUME NEW p \in Servers, NEW id \in GenId \union {NoGeneration}, Prepared(p, id)
      PROVE  ProcTypeOK'
  BY <1>1, <1>3 DEF Prepared, At, Stages
<1>4. ASSUME NEW p \in Servers, IgnoreStored(p) PROVE ProcTypeOK'
  BY <1>1, <1>4 DEF IgnoreStored, At, Stages
<1>5. ASSUME NEW p \in Servers, ApplyStored(p) PROVE ProcTypeOK'
  BY <1>1, <1>5, <1>e, <1>h DEF ApplyStored, At, Stages, StoreTypeOK
<1>6. ASSUME NEW p \in Servers, Serve(p) PROVE ProcTypeOK'
  BY <1>1, <1>6 DEF Serve, At, Stages
<1>7. ASSUME NEW p \in Servers, SurviveLongEnough(p) PROVE ProcTypeOK'
  BY <1>1, <1>7 DEF SurviveLongEnough
<1>8. ASSUME NEW p \in Servers, ConfirmGeneration(p) PROVE ProcTypeOK'
  BY <1>1, <1>8 DEF ConfirmGeneration
<1>9. ASSUME NEW p \in Servers, Stop(p) PROVE ProcTypeOK'
  BY <1>1, <1>9 DEF Stop, At, Stages
<1>10. ASSUME NEW p \in Servers, Gone(p) PROVE ProcTypeOK'
  BY <1>1, <1>10, <1>e DEF Gone, Stages
<1>11. ASSUME NEW p \in Servers, NEW l \in Layer, NEW h, AdoptStored(p, l, h) PROVE ProcTypeOK'
  BY <1>1, <1>11 DEF AdoptStored
<1>12. ASSUME NEW p \in Servers, Write(p) PROVE ProcTypeOK'
  <2>1. \A updates \in Updates : Overwrite(stored[p], updates) \in Layer
    BY <1>1, OverwriteIsLayer
  <2>2. \A f \in Fields : Without(stored[p], f) \in Layer
    BY <1>1 DEF Without, Layer
  <2>3. Honoured(settings) \in Layer
    BY <1>1, <1>h DEF StoreTypeOK
  <2> QED
    BY <1>11, <1>12, <2>1, <2>2, <2>3 DEF Write, PutStored, DeleteStored, ReloadOnSighup
<1>13. CASE CliUnset \/ CliClear
  BY <1>1, <1>13 DEF CliUnset, CliClear, procVars
<1>14. CASE UNCHANGED vars
  BY <1>1, <1>14 DEF vars, procVars
<1>15. ASSUME NEW p \in Servers, Advance(p) PROVE ProcTypeOK'
  BY <1>3, <1>4, <1>5, <1>6, <1>7, <1>8, <1>10, <1>15
     DEF Advance, Prepare, BootEmpty, BootClean, BootTrying, BootRolledBack, Exit, FailToStart
<1>16. ASSUME NEW p \in Servers, Disturb(p) PROVE ProcTypeOK'
  BY <1>9, <1>10, <1>16 DEF Disturb, Crash
<1> QED
  BY <1>2, <1>12, <1>13, <1>14, <1>15, <1>16 DEF Next

\* A process gains a confirm task only with a generation, and loses both together.
LEMMA TimerStep ==
  ASSUME TypeOK, TimerHasGeneration, [Next]_vars
  PROVE  TimerHasGeneration'
<1>1. ProcTypeOK
  BY TypeOKParts
<1> USE <1>1 DEF TimerHasGeneration, ProcTypeOK, Up
<1>2. ASSUME NEW p \in Servers, Start(p) PROVE TimerHasGeneration'
  BY <1>2 DEF Start, At
<1>3. ASSUME NEW p \in Servers, NEW id, Prepared(p, id) PROVE TimerHasGeneration'
  BY <1>3 DEF Prepared, At
<1>4. ASSUME NEW p \in Servers, IgnoreStored(p) PROVE TimerHasGeneration'
  BY <1>4 DEF IgnoreStored, At
<1>5. ASSUME NEW p \in Servers, ApplyStored(p) PROVE TimerHasGeneration'
  BY <1>5 DEF ApplyStored, At
<1>6. ASSUME NEW p \in Servers, Serve(p) PROVE TimerHasGeneration'
  BY <1>6 DEF Serve, At
<1>7. ASSUME NEW p \in Servers, SurviveLongEnough(p) PROVE TimerHasGeneration'
  BY <1>7 DEF SurviveLongEnough
<1>8. ASSUME NEW p \in Servers, ConfirmGeneration(p) PROVE TimerHasGeneration'
  BY <1>8 DEF ConfirmGeneration
<1>9. ASSUME NEW p \in Servers, Stop(p) PROVE TimerHasGeneration'
  BY <1>9 DEF Stop, At
<1>10. ASSUME NEW p \in Servers, Gone(p) PROVE TimerHasGeneration'
  BY <1>10 DEF Gone
<1>11. ASSUME NEW p \in Servers, NEW l, NEW h, AdoptStored(p, l, h) PROVE TimerHasGeneration'
  BY <1>11 DEF AdoptStored
<1>12. CASE CliUnset \/ CliClear
  BY <1>12 DEF CliUnset, CliClear, procVars
<1>13. CASE UNCHANGED vars
  BY <1>13 DEF vars, procVars
<1>14. ASSUME NEW p \in Servers, Advance(p) PROVE TimerHasGeneration'
  BY <1>3, <1>4, <1>5, <1>6, <1>7, <1>8, <1>10, <1>14
     DEF Advance, Prepare, BootEmpty, BootClean, BootTrying, BootRolledBack, Exit, FailToStart
<1>15. ASSUME NEW p \in Servers, Disturb(p) \/ Write(p) PROVE TimerHasGeneration'
  BY <1>9, <1>10, <1>11, <1>15
     DEF Disturb, Crash, Write, PutStored, DeleteStored, ReloadOnSighup
<1> QED
  BY <1>2, <1>12, <1>13, <1>14, <1>15 DEF Next

-----------------------------------------------------------------------------
(***************************************************************************)
(* The generation table.  StoreInv is inductive over the store's own       *)
(* operations, so it holds however many processes and edits interleave.    *)
(***************************************************************************)
StoreInv == NewestIsLastId /\ NewestDescribesTable /\ OnlyUnreachablePruned

\* The newest row is the one last inserted.
LEMMA LastOf ==
  ASSUME NEW n \in 0 .. MaxGenerations, NEW S, S \subseteq GenId,
         \A i \in S : i <= n, n # 0 => n \in S, NEW i \in GenId
  PROVE  IsLast(i, S) <=> i = n
<1>1. n \in Nat /\ i \in Nat /\ i # 0
  BY BoundAssumption DEF GenId
<1>2. ASSUME IsLast(i, S) PROVE i = n
  <2>1. i \in S /\ i <= n /\ n # 0
    BY <1>1, <1>2 DEF IsLast
  <2>2. n <= i
    BY <1>2, <2>1 DEF IsLast
  <2> QED
    BY <1>1, <2>1, <2>2
<1>3. ASSUME i = n PROVE IsLast(i, S)
  BY <1>1, <1>3 DEF IsLast
<1> QED
  BY <1>2, <1>3

LEMMA NewestId ==
  ASSUME StoreTypeOK, NewestIsLastId, NEW i \in GenId
  PROVE  IsNewest(i) <=> i = lastId
  BY LastOf DEF IsNewest, Live, NewestIsLastId, StoreTypeOK

\* NewestDescribesTable, once the newest row is known to be the last one.
LEMMA NewestDescribesTableIffLast ==
  ASSUME StoreTypeOK, NewestIsLastId
  PROVE  NewestDescribesTable <=>
           (lastId # 0 /\ generations[lastId].status # "rolled_back"
              => generations[lastId].snapshot = settings)
<1>1. lastId # 0 <=> lastId \in GenId
  BY BoundAssumption DEF StoreTypeOK, GenId
<1> QED
  BY <1>1, NewestId DEF NewestDescribesTable

LEMMA WrittenKeepsStoreInv ==
  ASSUME StoreTypeOK, StoreTypeOK', StoreInv, Written
  PROVE  StoreInv'
<1>1. PICK l \in Layer : settings' = l /\ OpenGeneration(l)
  BY DEF Written
<1> DEFINE n == lastId + 1
<1>2. n \in GenId /\ n = lastId' /\ lastId \in Nat /\ n # 0
  BY <1>1, BoundAssumption DEF OpenGeneration, StoreTypeOK, GenId
<1>3. /\ generations'[n] = [snapshot |-> l, status |-> "pending", attempts |-> 0]
      /\ \A i \in GenId \ {n} : generations'[i] = generations[i]
  BY <1>1, <1>2 DEF OpenGeneration, StoreTypeOK
<1>4. Live' = Live \union {n}
  BY <1>2, <1>3 DEF Live
<1>5. NewestIsLastId'
  <2>1. \A i \in Live' : i <= lastId'
    BY <1>2, <1>4, BoundAssumption DEF StoreInv, NewestIsLastId, Live, GenId
  <2> QED
    BY <1>2, <1>4, <2>1 DEF NewestIsLastId
<1>6. ASSUME NEW i \in GenId, IsNewest(i)'
      PROVE  generations'[i].snapshot = settings'
  <2>1. i = n
    BY <1>2, <1>5, <1>6, LastOf DEF IsNewest, Live, NewestIsLastId, StoreTypeOK
  <2> QED
    BY <1>1, <1>3, <2>1
<1>7. ASSUME NEW i \in 1 .. lastId', i \notin Live'
      PROVE  i # lastId' /\ \E j \in Confirmed' : j > i
  <2>1. i \in 1 .. lastId /\ i \notin Live /\ i # n
    BY <1>2, <1>4, <1>7
  <2>2. PICK j \in Confirmed : j > i
    BY <2>1 DEF StoreInv, OnlyUnreachablePruned
  <2>3. j \in Confirmed' \/ j = n
    BY <1>3 DEF Confirmed
  <2>4. j # n
    BY <1>2 DEF StoreInv, NewestIsLastId, Live, Confirmed
  <2> QED
    BY <1>2, <2>1, <2>2, <2>3, <2>4
<1> QED
  BY <1>5, <1>6, <1>7 DEF StoreInv, NewestDescribesTable, OnlyUnreachablePruned

\* A step that inserts and prunes nothing: it settles rows, or tries them.
LEMMA SettlingKeepsStoreInv ==
  ASSUME StoreTypeOK, StoreTypeOK', StoreInv, UNCHANGED lastId,
         Live' = Live, Confirmed \subseteq Confirmed',
         \A i \in GenId : generations'[i].snapshot = generations[i].snapshot,
         \A i \in GenId : generations'[i].status # "rolled_back"
                            => generations[i].status # "rolled_back",
         \/ UNCHANGED settings
         \/ lastId # 0 /\ generations'[lastId].status = "rolled_back"
  PROVE  StoreInv'
<1>1. NewestIsLastId'
  BY DEF StoreInv, NewestIsLastId
<1>2. OnlyUnreachablePruned'
  BY DEF StoreInv, OnlyUnreachablePruned
<1>3. ASSUME NEW i \in GenId, IsNewest(i)', generations'[i].status # "rolled_back"
      PROVE  generations'[i].snapshot = settings'
  <2>1. IsNewest(i) /\ i = lastId
    BY <1>1, <1>3, LastOf DEF IsNewest, Live, NewestIsLastId, StoreTypeOK
  <2> QED
    BY <1>3, <2>1 DEF StoreInv, NewestDescribesTable
<1> QED
  BY <1>1, <1>2, <1>3 DEF StoreInv, NewestDescribesTable

LEMMA ConfirmKeepsStoreInv ==
  ASSUME StoreTypeOK, StoreTypeOK', StoreInv, NEW id \in GenId, Confirm(id)
  PROVE  StoreInv'
<1>1. id \in Live /\ id \in Nat /\ lastId \in Nat /\ id <= lastId
  BY BoundAssumption DEF Confirm, Live, StoreInv, NewestIsLastId, StoreTypeOK, GenId
<1>2. /\ generations'[id] = [generations[id] EXCEPT !.status = "confirmed"]
      /\ \A i \in GenId : i > id => generations'[i] = generations[i]
      /\ \A i \in GenId : i < id => generations'[i] = NoRow
  BY BoundAssumption DEF Confirm, Pruned, StoreTypeOK, GenId
<1>3. Live' = {i \in Live : i >= id}
  <2>1. ASSUME NEW i \in GenId PROVE i \in Live' <=> i \in Live /\ i >= id
    <3>1. i < id \/ i = id \/ i > id
      BY BoundAssumption DEF GenId
    <3>2. CASE i < id
      BY <1>2, <3>2, BoundAssumption DEF Live, NoRow, GenId
    <3>3. CASE i = id
      BY <1>1, <1>2, <3>3 DEF Live, StoreTypeOK, Row
    <3>4. CASE i > id
      BY <1>2, <3>4, BoundAssumption DEF Live, GenId
    <3> QED
      BY <3>1, <3>2, <3>3, <3>4
  <2> QED
    BY <2>1 DEF Live
<1>4. id \in Confirmed'
  BY <1>2 DEF Confirmed, StoreTypeOK, Row
<1>5. NewestIsLastId'
  BY <1>1, <1>3 DEF Confirm, StoreInv, NewestIsLastId
<1>6. ASSUME NEW i \in GenId, IsNewest(i)', generations'[i].status # "rolled_back"
      PROVE  generations'[i].snapshot = settings'
  <2>1. i = lastId'
    BY <1>5, <1>6, LastOf DEF IsNewest, Live, NewestIsLastId, StoreTypeOK
  <2>2. IsNewest(i) /\ i >= id
    BY <1>1, <2>1, NewestId DEF Confirm, StoreInv
  <2>3. /\ generations'[i].snapshot = generations[i].snapshot
        /\ generations[i].status # "rolled_back"
    <3>1. CASE i = id
      BY <1>2, <3>1 DEF Confirm, StoreTypeOK, Row
    <3>2. CASE i > id
      BY <1>2, <1>6, <3>2
    <3> QED
      BY <1>1, <2>2, <3>1, <3>2 DEF GenId
  <2> QED
    BY <2>2, <2>3 DEF Confirm, StoreInv, NewestDescribesTable
<1>7. ASSUME NEW i \in 1 .. lastId', i \notin Live'
      PROVE  i # lastId' /\ \E j \in Confirmed' : j > i
  <2>1. i # lastId'
    BY <1>5, <1>7 DEF NewestIsLastId
  <2>2. CASE i < id
    BY <1>4, <2>1, <2>2, <1>1
  <2>3. CASE i >= id
    <3>1. i \notin Live /\ i \in 1 .. lastId
      BY <1>3, <1>7, <2>3 DEF Confirm
    <3>2. PICK j \in Confirmed : j > i
      BY <3>1 DEF StoreInv, OnlyUnreachablePruned
    <3>3. j \in Confirmed'
      BY <1>1, <1>2, <2>3, <3>1, <3>2, BoundAssumption DEF Confirmed, GenId
    <3> QED
      BY <2>1, <3>2, <3>3
  <2> QED
    BY <1>1, <2>2, <2>3
<1> QED
  BY <1>5, <1>6, <1>7 DEF StoreInv, NewestDescribesTable, OnlyUnreachablePruned

LEMMA StoreInvStep ==
  ASSUME StoreTypeOK, StoreInv, StoreStep
  PROVE  StoreInv'
<1>0. StoreTypeOK'
  BY StoreStepType
<1>1. CASE Written
  BY <1>0, <1>1, WrittenKeepsStoreInv
<1>2. ASSUME NEW id \in GenId, PrepareTrying(id) PROVE StoreInv'
  <2>1. \A i \in GenId : /\ generations'[i].status = generations[i].status
                         /\ generations'[i].snapshot = generations[i].snapshot
    BY <1>2 DEF PrepareTrying, StoreTypeOK, Row
  <2>2. Live' = Live /\ Confirmed' = Confirmed
    BY <2>1 DEF Live, Confirmed
  <2> QED
    BY <1>0, <1>2, <2>1, <2>2, SettlingKeepsStoreInv DEF PrepareTrying
<1>3. ASSUME NEW id \in GenId, PrepareRollBack(id) PROVE StoreInv'
  <2>1. /\ id = lastId /\ id # 0
        /\ generations'[id].status = "rolled_back"
        /\ generations'[id].snapshot = generations[id].snapshot
        /\ generations[id].status = "pending"
        /\ \A i \in GenId \ {id} : generations'[i] = generations[i]
    BY <1>3, NewestId DEF PrepareRollBack, StoreInv, StoreTypeOK, Row, GenId
  <2>2. Live' = Live /\ Confirmed' = Confirmed
    BY <2>1 DEF Live, Confirmed
  <2>3. UNCHANGED lastId
    BY <1>3 DEF PrepareRollBack
  <2> QED
    BY <1>0, <2>1, <2>2, <2>3, SettlingKeepsStoreInv
<1>4. ASSUME NEW id \in GenId, Confirm(id) PROVE StoreInv'
  BY <1>0, <1>4, ConfirmKeepsStoreInv
<1>5. CASE UNCHANGED storeVars
  BY <1>5 DEF storeVars, StoreInv, NewestIsLastId, NewestDescribesTable,
              OnlyUnreachablePruned, Live, Confirmed, IsNewest
<1> QED
  BY <1>1, <1>2, <1>3, <1>4, <1>5 DEF StoreStep

LEMMA StoreInitInv == StoreInit => StoreInv
<1> SUFFICES ASSUME StoreInit PROVE StoreInv
  OBVIOUS
<1>1. Live = {} /\ lastId = 0
  BY DEF StoreInit, Live, NoRow
<1> QED
  BY <1>1 DEF StoreInv, NewestIsLastId, NewestDescribesTable, OnlyUnreachablePruned,
              IsNewest, IsLast

-----------------------------------------------------------------------------
(***************************************************************************)
(* Trials.  Only the start that found a generation untried may confirm it. *)
(***************************************************************************)
\* A row never becomes pending again, nor untried, once it was opened.
LEMMA TriedStaysTried ==
  ASSUME StoreTypeOK, StoreInv, StoreStep, NEW i \in GenId, i <= lastId
  PROVE  /\ i <= lastId'
         /\ generations'[i].status = "pending" =>
              /\ generations[i].status = "pending"
              /\ generations[i].attempts # 0 => generations'[i].attempts # 0
<1>1. CASE Written
  <2>1. PICK l \in Layer : settings' = l /\ OpenGeneration(l)
    BY <1>1 DEF Written
  <2>2. generations'[i] = generations[i] /\ i <= lastId'
    BY <2>1, BoundAssumption DEF OpenGeneration, StoreTypeOK, GenId
  <2> QED
    BY <2>2
<1>2. CASE \E id \in GenId : PrepareTrying(id)
  BY <1>2 DEF PrepareTrying, StoreTypeOK, Row
<1>3. CASE \E id \in GenId : PrepareRollBack(id)
  BY <1>3 DEF PrepareRollBack, StoreTypeOK, Row
<1>4. CASE \E id \in GenId : Confirm(id)
  BY <1>4 DEF Confirm, Pruned, NoRow, StoreTypeOK, Row
<1>5. CASE UNCHANGED storeVars
  BY <1>5 DEF storeVars
<1> QED
  BY <1>1, <1>2, <1>3, <1>4, <1>5 DEF StoreStep

\* A process takes a generation to confirm from prepare_boot and nowhere else.
TakesTrial ==
  \E p \in Servers, id \in GenId :
    gen' = [gen EXCEPT ![p] = id] /\ (PrepareClean(id) \/ PrepareTrying(id))

LEMMA GenStep ==
  ASSUME TypeOK, [Next]_vars
  PROVE  \/ \A p \in Servers : gen'[p] \in {gen[p], NoGeneration}
         \/ TakesTrial
<1> DEFINE Kept == \A p \in Servers : gen'[p] \in {gen[p], NoGeneration}
<1>1. ProcTypeOK
  BY TypeOKParts
<1> USE <1>1 DEF ProcTypeOK
<1>2. ASSUME NEW p \in Servers, Start(p) PROVE Kept
  BY <1>2 DEF Start
<1>3. ASSUME NEW p \in Servers, Prepare(p) PROVE Kept \/ TakesTrial
  <2>1. CASE BootEmpty(p) \/ BootRolledBack(p)
    BY <2>1 DEF BootEmpty, BootRolledBack, Prepared
  <2>2. CASE BootClean(p) \/ BootTrying(p)
    BY <2>2 DEF BootClean, BootTrying, Prepared, TakesTrial
  <2> QED
    BY <1>3, <2>1, <2>2 DEF Prepare
<1>4. ASSUME NEW p \in Servers,
             IgnoreStored(p) \/ Serve(p) \/ SurviveLongEnough(p) \/ ConfirmGeneration(p) \/ Stop(p)
      PROVE  Kept
  BY <1>4 DEF IgnoreStored, Serve, SurviveLongEnough, ConfirmGeneration, Stop
<1>5. ASSUME NEW p \in Servers, ApplyStored(p) PROVE Kept
  BY <1>5 DEF ApplyStored
<1>6. ASSUME NEW p \in Servers, Gone(p) PROVE Kept
  BY <1>6 DEF Gone
<1>7. ASSUME NEW p \in Servers, Write(p) PROVE Kept
  BY <1>7 DEF Write, PutStored, DeleteStored, ReloadOnSighup, AdoptStored
<1>8. CASE CliUnset \/ CliClear
  BY <1>8 DEF CliUnset, CliClear, procVars
<1>9. CASE UNCHANGED vars
  BY <1>9 DEF vars, procVars
<1> QED
  BY <1>2, <1>3, <1>4, <1>5, <1>6, <1>7, <1>8, <1>9
     DEF Next, Advance, Disturb, Exit, FailToStart, Crash

LEMMA TrialsStep ==
  ASSUME TypeOK, BookkeepingInv, [Next]_vars
  PROVE  TrialsAreTried' /\ OneTrier'
<1>1. StoreTypeOK /\ ProcTypeOK /\ ProcTypeOK' /\ StoreInv
  BY TypeOKParts, ProcStepType DEF BookkeepingInv, StoreInv
<1>2. StoreStep
  BY NextIsStoreStep DEF BookkeepingInv
<1>3. ASSUME NEW p \in Servers, gen[p] # NoGeneration
      PROVE  /\ gen[p] \in GenId
             /\ gen[p] <= lastId'
             /\ generations'[gen[p]].status = "pending" =>
                  generations[gen[p]].status = "pending" /\ generations'[gen[p]].attempts # 0
  BY <1>1, <1>2, <1>3, TriedStaysTried DEF ProcTypeOK, BookkeepingInv, TrialsAreTried
<1>4. CASE \A p \in Servers : gen'[p] \in {gen[p], NoGeneration}
  BY <1>3, <1>4 DEF BookkeepingInv, TrialsAreTried, OneTrier
<1>5. CASE TakesTrial
  <2>1. PICK p \in Servers, id \in GenId :
               gen' = [gen EXCEPT ![p] = id] /\ (PrepareClean(id) \/ PrepareTrying(id))
    BY <1>5 DEF TakesTrial
  <2>2. id = lastId /\ UNCHANGED lastId
    BY <1>1, <2>1, NewestId DEF PrepareClean, PrepareTrying, StoreInv, storeVars
  <2>3. gen'[p] = id /\ \A q \in Servers \ {p} : gen'[q] = gen[q]
    BY <1>1, <2>1 DEF ProcTypeOK
  <2>4. id # NoGeneration /\ id \in Nat
    BY DEF GenId, NoGeneration
  <2>5. CASE PrepareClean(id)
    <3>1. generations'[id].status # "pending"
      BY <2>5 DEF PrepareClean, storeVars
    <3> QED
      BY <1>1, <1>3, <2>2, <2>3, <2>4, <3>1 DEF BookkeepingInv, TrialsAreTried, OneTrier
  <2>6. CASE PrepareTrying(id)
    <3>1. generations'[id].attempts # 0
      BY <1>1, <2>6 DEF PrepareTrying, StoreTypeOK, Row
    <3>2. \A q \in Servers : gen[q] # id
      BY <2>4, <2>6 DEF PrepareTrying, BookkeepingInv, TrialsAreTried
    <3> QED
      BY <1>1, <1>3, <2>2, <2>3, <2>4, <3>1, <3>2 DEF BookkeepingInv, TrialsAreTried, OneTrier
  <2> QED
    BY <2>1, <2>5, <2>6
<1> QED
  BY <1>4, <1>5, GenStep

LEMMA Bookkeeping == Spec => [](TypeOK /\ BookkeepingInv)
<1>1. Init => TypeOK /\ BookkeepingInv
  <2> SUFFICES ASSUME Init PROVE TypeOK /\ BookkeepingInv
    OBVIOUS
  <2>1. TypeOK
    BY StoreInitType DEF Init, TypeOK, StoreTypeOK, Stages, EmptyLayer, Layer
  <2>2. StoreInv
    BY StoreInitInv DEF Init
  <2>3. TimerHasGeneration /\ TrialsAreTried /\ OneTrier
    BY DEF Init, TimerHasGeneration, TrialsAreTried, OneTrier
  <2> QED
    BY <2>1, <2>2, <2>3 DEF BookkeepingInv, StoreInv
<1>2. TypeOK /\ BookkeepingInv /\ [Next]_vars => TypeOK' /\ BookkeepingInv'
  <2> SUFFICES ASSUME TypeOK, BookkeepingInv, [Next]_vars
               PROVE  TypeOK' /\ BookkeepingInv'
    OBVIOUS
  <2>1. StoreTypeOK /\ StoreInv /\ TimerHasGeneration
    BY TypeOKParts DEF BookkeepingInv, StoreInv
  <2>2. StoreStep
    BY <2>1, NextIsStoreStep
  <2>3. TypeOK'
    BY <2>1, <2>2, StoreStepType, ProcStepType DEF TypeOK, StoreTypeOK, ProcTypeOK
  <2>4. StoreInv'
    BY <2>1, <2>2, StoreInvStep
  <2>5. TimerHasGeneration'
    BY <2>1, TimerStep
  <2>6. TrialsAreTried' /\ OneTrier'
    BY TrialsStep
  <2> QED
    BY <2>3, <2>4, <2>5, <2>6 DEF BookkeepingInv, StoreInv
<1> QED
  BY <1>1, <1>2, PTL DEF Spec

\* The state is always well formed: the settings are a layer over the known
\* fields, every generation row is a proper row, and every process is at one
\* of the stages of main.
THEOREM TypeCorrect == Spec => []TypeOK
  BY Bookkeeping, PTL

\* However starts, confirms, crashes, admin writes and CLI edits interleave,
\* the newest generation that stands is a snapshot of the settings table.
THEOREM SnapshotIsTable == Spec => []NewestDescribesTable
  BY Bookkeeping, PTL DEF BookkeepingInv

\* Pruning on confirm only ever removes rows that no rollback can reach.
THEOREM PruningIsSafe == Spec => []OnlyUnreachablePruned
  BY Bookkeeping, PTL DEF BookkeepingInv

\* Two processes that start on one database are never trying the same
\* generation, with any number of processes and with the CLI editing live.
THEOREM TrialsAreExclusive == Spec => []OneTrier
  BY Bookkeeping, PTL DEF BookkeepingInv

-----------------------------------------------------------------------------
(***************************************************************************)
(* Action properties, from the same invariant.                             *)
(***************************************************************************)
LEMMA VerdictStep ==
  ASSUME StoreTypeOK, StoreInv, StoreStep, NEW i \in GenId,
         generations[i].status \in {"confirmed", "rolled_back"}
  PROVE  generations'[i].status \in {generations[i].status, "none"}
<1>1. CASE Written
  <2>1. i # lastId + 1
    BY BoundAssumption DEF StoreInv, NewestIsLastId, Live, StoreTypeOK, GenId
  <2> QED
    BY <1>1, <2>1 DEF Written, OpenGeneration, StoreTypeOK
<1>2. CASE \E id \in GenId : PrepareTrying(id)
  BY <1>2 DEF PrepareTrying, StoreTypeOK, Row
<1>3. CASE \E id \in GenId : PrepareRollBack(id)
  BY <1>3 DEF PrepareRollBack, StoreTypeOK
<1>4. CASE \E id \in GenId : Confirm(id)
  BY <1>4 DEF Confirm, Pruned, NoRow, StoreTypeOK
<1>5. CASE UNCHANGED storeVars
  BY <1>5 DEF storeVars
<1> QED
  BY <1>1, <1>2, <1>3, <1>4, <1>5 DEF StoreStep

LEMMA KnownGoodStep ==
  ASSUME StoreTypeOK, StoreInv, StoreStep, NEW i \in Confirmed
  PROVE  \E j \in Confirmed' : j >= i
<1>1. i \in GenId /\ i >= i
  BY DEF Confirmed, GenId
<1>2. CASE Written
  <2>1. i # lastId + 1
    BY BoundAssumption DEF StoreInv, NewestIsLastId, Live, Confirmed, StoreTypeOK, GenId
  <2>2. i \in Confirmed'
    BY <1>2, <2>1 DEF Written, OpenGeneration, StoreTypeOK, Confirmed
  <2> QED
    BY <1>1, <2>2
<1>3. CASE \E id \in GenId : PrepareTrying(id) \/ PrepareRollBack(id)
  <2>1. i \in Confirmed'
    BY <1>3 DEF PrepareTrying, PrepareRollBack, StoreTypeOK, Row, Confirmed
  <2> QED
    BY <1>1, <2>1
<1>4. CASE \E id \in GenId : Confirm(id)
  <2>1. PICK id \in GenId : Confirm(id)
    BY <1>4
  <2>2. id \in Confirmed'
    BY <2>1 DEF Confirm, Pruned, Confirmed, StoreTypeOK, Row, GenId
  <2>3. CASE i <= id
    BY <2>2, <2>3, <1>1, <2>1 DEF GenId
  <2>4. CASE i > id
    <3>1. i \in Confirmed'
      BY <2>1, <2>4 DEF Confirm, Pruned, Confirmed, StoreTypeOK, GenId
    <3> QED
      BY <1>1, <3>1
  <2> QED
    BY <1>1, <2>1, <2>3, <2>4 DEF GenId
<1>5. CASE UNCHANGED storeVars
  BY <1>1, <1>5 DEF storeVars, Confirmed
<1> QED
  BY <1>2, <1>3, <1>4, <1>5 DEF StoreStep

\* No interleaving of starts, late confirms and writes takes a verdict back.
THEOREM VerdictsStand == Spec => VerdictIsFinal
<1>1. TypeOK /\ BookkeepingInv /\ [Next]_vars =>
        [\A i \in GenId :
           generations[i].status \in {"confirmed", "rolled_back"}
             => generations'[i].status \in {generations[i].status, "none"}]_vars
  BY TypeOKParts, NextIsStoreStep, VerdictStep DEF BookkeepingInv, StoreInv
<1> QED
  BY <1>1, Bookkeeping, PTL DEF Spec, VerdictIsFinal

\* What a rollback would restore only ever gets newer.
THEOREM KnownGoodNeverRegresses == Spec => KnownGoodAdvances
<1>1. TypeOK /\ BookkeepingInv /\ [Next]_vars =>
        [\A i \in Confirmed : \E j \in Confirmed' : j >= i]_vars
  BY TypeOKParts, NextIsStoreStep, KnownGoodStep DEF BookkeepingInv, StoreInv
<1> QED
  BY <1>1, Bookkeeping, PTL DEF Spec, KnownGoodAdvances

-----------------------------------------------------------------------------
(***************************************************************************)
(* One server, and no edit between prepare_boot and load: what is          *)
(* confirmed was run.  TrialInv is inductive only under that assumption;   *)
(* the run MCConfigBootRace shows what happens without it.                 *)
(***************************************************************************)
\* The fate of a row that was opened: it is pruned, or keeps its snapshot.
LEMMA SnapshotsStand ==
  ASSUME StoreTypeOK, StoreInv, StoreStep, NEW i \in GenId, i <= lastId,
         generations'[i].status # "none"
  PROVE  generations'[i].snapshot = generations[i].snapshot
<1>1. CASE Written
  <2>1. i # lastId + 1
    BY BoundAssumption DEF StoreTypeOK, GenId
  <2> QED
    BY <1>1, <2>1 DEF Written, OpenGeneration, StoreTypeOK
<1>2. CASE \E id \in GenId : PrepareTrying(id) \/ PrepareRollBack(id)
  BY <1>2 DEF PrepareTrying, PrepareRollBack, StoreTypeOK, Row
<1>3. CASE \E id \in GenId : Confirm(id)
  BY <1>3 DEF Confirm, Pruned, NoRow, StoreTypeOK, Row
<1>4. CASE UNCHANGED storeVars
  BY <1>4 DEF storeVars
<1> QED
  BY <1>1, <1>2, <1>3, <1>4 DEF StoreStep

\* What a step may do to the boot layer of a process that has one on trial.
TrialStep(p) ==
  \/ gen'[p] = NoGeneration
  \/ gen'[p] = gen[p] /\ pc'[p] # "prepared" /\ pc[p] # "prepared" /\ boot'[p] = boot[p]
  \/ gen'[p] = gen[p] /\ UNCHANGED <<storeVars, pc, boot>>
  \/ gen'[p] = gen[p] /\ pc'[p] # "prepared" /\ pc[p] = "prepared"
       /\ boot'[p] = Honoured(settings) /\ UNCHANGED storeVars
  \/ gen'[p] \in GenId /\ (PrepareClean(gen'[p]) \/ PrepareTrying(gen'[p])) /\ pc'[p] = "prepared"

\* With one server nothing else happens to its trial.
LEMMA TrialSteps ==
  ASSUME Undisturbed, TypeOK, TimerHasGeneration, [Next]_vars, NEW p \in Servers
  PROVE  TrialStep(p)
<1>1. ProcTypeOK /\ \A q \in Servers : q = p
  BY TypeOKParts DEF Undisturbed
<1> USE <1>1 DEF ProcTypeOK
<1>2. CASE Start(p) \/ IgnoreStored(p) \/ Serve(p) \/ Stop(p)
  BY <1>2 DEF Start, IgnoreStored, Serve, Stop, At, TrialStep
<1>3. CASE Prepare(p)
  <2>1. CASE BootEmpty(p) \/ BootRolledBack(p)
    BY <2>1 DEF BootEmpty, BootRolledBack, Prepared, TrialStep
  <2>2. CASE BootClean(p) \/ BootTrying(p)
    BY <2>2 DEF BootClean, BootTrying, Prepared, At, TrialStep
  <2> QED
    BY <1>3, <2>1, <2>2 DEF Prepare
<1>4. CASE ApplyStored(p)
  BY <1>4 DEF ApplyStored, At, TrialStep
<1>5. CASE SurviveLongEnough(p) \/ ConfirmGeneration(p)
  <2>1. pc[p] # "prepared" /\ UNCHANGED <<pc, gen, boot>>
    BY <1>5 DEF SurviveLongEnough, ConfirmGeneration, TimerHasGeneration, Up
  <2> QED
    BY <2>1 DEF TrialStep
<1>6. CASE Gone(p)
  BY <1>6 DEF Gone, TrialStep
<1>7. CASE Write(p)
  BY <1>7 DEF Write, PutStored, DeleteStored, ReloadOnSighup, AdoptStored, Up, TrialStep
<1>8. CASE CliUnset \/ CliClear
  BY <1>8 DEF CliUnset, CliClear, CliAllowed, Undisturbed, procVars, TrialStep
<1>9. CASE UNCHANGED vars
  BY <1>9 DEF vars, procVars, TrialStep
<1> QED
  BY <1>2, <1>3, <1>4, <1>5, <1>6, <1>7, <1>8, <1>9
     DEF Next, Advance, Disturb, Exit, FailToStart, Crash

LEMMA TrialIsLoadedStep ==
  ASSUME Undisturbed, TypeOK, BookkeepingInv, TrialIsLoaded, [Next]_vars
  PROVE  TrialIsLoaded'
<1> SUFFICES ASSUME NEW p \in Servers, gen'[p] # NoGeneration,
                    generations'[gen'[p]].status = "pending"
             PROVE  IF pc'[p] = "prepared"
                      THEN generations'[gen'[p]].snapshot = settings'
                      ELSE Honoured(generations'[gen'[p]].snapshot) = boot'[p]
  BY DEF TrialIsLoaded
<1>1. StoreTypeOK /\ ProcTypeOK /\ StoreInv /\ StoreStep /\ TrialStep(p)
  BY TypeOKParts, NextIsStoreStep, TrialSteps DEF BookkeepingInv, StoreInv
<1>2. CASE gen'[p] = gen[p]
  <2>1. gen[p] \in GenId /\ gen[p] <= lastId
    BY <1>1, <1>2 DEF ProcTypeOK, BookkeepingInv, TrialsAreTried
  <2>2. /\ generations[gen[p]].status = "pending"
        /\ generations'[gen[p]].snapshot = generations[gen[p]].snapshot
    BY <1>1, <1>2, <2>1, TriedStaysTried, SnapshotsStand
  <2>3. IF pc[p] = "prepared"
          THEN generations[gen[p]].snapshot = settings
          ELSE Honoured(generations[gen[p]].snapshot) = boot[p]
    BY <1>2, <2>2 DEF TrialIsLoaded
  <2>4. CASE PrepareTrying(gen'[p]) /\ pc'[p] = "prepared"
    BY <1>1, <1>2, <2>1, <2>2, <2>4
       DEF PrepareTrying, BookkeepingInv, TrialsAreTried
  <2>5. CASE PrepareClean(gen'[p]) /\ pc'[p] = "prepared"
    BY <1>2, <2>2, <2>5 DEF PrepareClean
  <2> QED
    BY <1>1, <1>2, <2>2, <2>3, <2>4, <2>5 DEF TrialStep, storeVars
<1>3. CASE gen'[p] # gen[p]
  <2>1. PrepareTrying(gen'[p]) /\ gen'[p] \in GenId /\ pc'[p] = "prepared"
    BY <1>1, <1>3 DEF TrialStep, PrepareClean, storeVars
  <2>2. generations[gen'[p]].snapshot = settings
    BY <2>1 DEF PrepareTrying, BookkeepingInv, NewestDescribesTable
  <2> QED
    BY <1>1, <2>1, <2>2 DEF PrepareTrying, StoreTypeOK, Row
<1> QED
  BY <1>2, <1>3

\* What a step may do to the confirm task of the one server and to the history.
LEMMA ElapsedStep ==
  ASSUME Undisturbed, TypeOK, TimerHasGeneration, ElapsedWasServed, [Next]_vars
  PROVE  ElapsedWasServed' /\ proved \subseteq proved'
<1> SUFFICES ASSUME NEW p \in Servers, \A q \in Servers : q = p
             PROVE  /\ timer'[p] = "elapsed" => boot'[p] \in proved'
                    /\ proved \subseteq proved'
  <2>1. CASE Servers = {}
    <3>1. UNCHANGED proved
      BY <2>1 DEF Next, CliUnset, CliClear, vars
    <3> QED
      BY <2>1, <3>1 DEF ElapsedWasServed
  <2>2. CASE Servers # {}
    BY <2>2 DEF Undisturbed, ElapsedWasServed
  <2> QED
    BY <2>1, <2>2
<1>1. ProcTypeOK
  BY TypeOKParts
<1> USE <1>1 DEF ProcTypeOK, ElapsedWasServed
<1>2. CASE Start(p) \/ Prepare(p) \/ IgnoreStored(p)
  BY <1>2 DEF Start, Prepare, BootEmpty, BootClean, BootTrying, BootRolledBack, Prepared,
              IgnoreStored
<1>3. CASE ApplyStored(p)
  BY <1>3 DEF ApplyStored, At, TimerHasGeneration, Up
<1>4. CASE Serve(p) \/ Stop(p)
  BY <1>4 DEF Serve, Stop
<1>5. CASE SurviveLongEnough(p)
  BY <1>5 DEF SurviveLongEnough
<1>6. CASE ConfirmGeneration(p) \/ Gone(p)
  BY <1>6 DEF ConfirmGeneration, Gone
<1>7. CASE Write(p)
  BY <1>7 DEF Write, PutStored, DeleteStored, ReloadOnSighup, AdoptStored
<1>8. CASE CliUnset \/ CliClear
  BY <1>8 DEF CliUnset, CliClear, procVars
<1>9. CASE UNCHANGED vars
  BY <1>9 DEF vars, procVars
<1> QED
  BY <1>2, <1>3, <1>4, <1>5, <1>6, <1>7, <1>8, <1>9
     DEF Next, Advance, Disturb, Exit, FailToStart, Crash

\* Only the confirm task of a live process confirms, and only its own trial.
ConfirmStep(p) ==
  /\ timer[p] = "elapsed"
  /\ gen[p] \in GenId
  /\ Confirm(gen[p])
  /\ UNCHANGED <<pc, boot, gen, proved>>

LEMMA ConfirmSteps ==
  ASSUME TypeOK, TimerHasGeneration, [Next]_vars
  PROVE  \/ Written
         \/ \E id \in GenId : PrepareTrying(id)
         \/ \E id \in GenId : PrepareRollBack(id)
         \/ \E p \in Servers : ConfirmStep(p)
         \/ UNCHANGED storeVars
<1>1. StoreTypeOK /\ ProcTypeOK
  BY TypeOKParts
<1>2. ASSUME NEW p \in Servers, ConfirmGeneration(p)
      PROVE  ConfirmStep(p) \/ UNCHANGED storeVars
  BY <1>1, <1>2 DEF ConfirmGeneration, ConfirmStep, ConfirmNothing, TimerHasGeneration, ProcTypeOK
<1>3. ASSUME NEW p \in Servers, Prepare(p)
      PROVE  \/ \E id \in GenId : PrepareTrying(id)
             \/ \E id \in GenId : PrepareRollBack(id)
             \/ UNCHANGED storeVars
  BY <1>3 DEF Prepare, BootEmpty, BootClean, BootTrying, BootRolledBack, PrepareEmpty, PrepareClean
<1>4. ASSUME NEW p \in Servers,
             \/ Start(p) \/ IgnoreStored(p) \/ ApplyStored(p) \/ Serve(p)
             \/ SurviveLongEnough(p) \/ Stop(p) \/ Gone(p)
      PROVE  UNCHANGED storeVars
  BY <1>4 DEF Start, IgnoreStored, ApplyStored, Serve, SurviveLongEnough, Stop, Gone
<1>5. ASSUME NEW p \in Servers, Write(p)
      PROVE  Written \/ UNCHANGED storeVars
  BY <1>1, <1>5, SetWrites, UnsetWrites DEF Write, PutStored, DeleteStored, ReloadOnSighup
<1>6. CASE CliUnset \/ CliClear
  BY <1>1, <1>6, UnsetWrites, ClearWrites DEF CliUnset, CliClear
<1>7. CASE UNCHANGED vars
  BY <1>7 DEF vars
<1> QED
  BY <1>2, <1>3, <1>4, <1>5, <1>6, <1>7 DEF Next, Advance, Disturb, Exit, FailToStart, Crash

LEMMA ConfirmedWasRunStep ==
  ASSUME Undisturbed, TypeOK, BookkeepingInv, TrialIsLoaded, ElapsedWasServed, ConfirmedWasRun,
         [Next]_vars
  PROVE  ConfirmedWasRun'
<1>1. StoreTypeOK /\ ProcTypeOK /\ StoreInv /\ StoreStep /\ proved \subseteq proved'
  BY TypeOKParts, NextIsStoreStep, ElapsedStep DEF BookkeepingInv, StoreInv
<1> SUFFICES ASSUME NEW i \in Confirmed'
             PROVE  Honoured(generations'[i].snapshot) \in proved'
  BY DEF ConfirmedWasRun
<1>2. i \in GenId
  BY DEF Confirmed
<1>3. CASE i \in Confirmed
  <2>1. i <= lastId /\ generations'[i].status # "none"
    BY <1>3 DEF Confirmed, Live, BookkeepingInv, NewestIsLastId
  <2>2. generations'[i].snapshot = generations[i].snapshot
    BY <1>1, <1>2, <2>1, SnapshotsStand
  <2> QED
    BY <1>1, <1>3, <2>2 DEF ConfirmedWasRun
<1>4. CASE i \notin Confirmed
  <2>1. PICK p \in Servers : ConfirmStep(p) /\ i = gen[p]
    <3>1. ~ Written
      <4>1. ASSUME Written PROVE generations'[i] = generations[i] \/ generations'[i].status = "pending"
        BY <1>1, <1>2, <4>1 DEF Written, OpenGeneration, StoreTypeOK
      <4> QED
        BY <1>4, <4>1 DEF Confirmed
    <3>2. ~ \E id \in GenId : PrepareTrying(id)
      BY <1>1, <1>4 DEF PrepareTrying, StoreTypeOK, Row, Confirmed
    <3>3. ~ \E id \in GenId : PrepareRollBack(id)
      BY <1>1, <1>4 DEF PrepareRollBack, StoreTypeOK, Row, Confirmed
    <3>4. ~ UNCHANGED storeVars
      BY <1>4 DEF storeVars, Confirmed
    <3>5. PICK p \in Servers : ConfirmStep(p)
      BY <3>1, <3>2, <3>3, <3>4, ConfirmSteps DEF BookkeepingInv
    <3>6. i = gen[p]
      BY <1>1, <1>2, <1>4, <3>5 DEF ConfirmStep, Confirm, Pruned, NoRow, StoreTypeOK, Confirmed
    <3> QED
      BY <3>5, <3>6
  <2>2. /\ timer[p] = "elapsed" /\ gen[p] # NoGeneration /\ pc[p] # "prepared"
        /\ generations[i].status = "pending"
    BY <2>1 DEF ConfirmStep, Confirm, BookkeepingInv, TimerHasGeneration, Up
  <2>3. Honoured(generations[i].snapshot) = boot[p] /\ boot[p] \in proved
    BY <2>1, <2>2 DEF TrialIsLoaded, ElapsedWasServed
  <2>4. generations'[i].snapshot = generations[i].snapshot
    <3>1. ~(i < i)
      BY <1>2 DEF GenId
    <3> QED
      BY <1>1, <2>1, <3>1 DEF ConfirmStep, Confirm, Pruned, StoreTypeOK, Row
  <2> QED
    BY <1>1, <2>3, <2>4
<1> QED
  BY <1>3, <1>4

\* The process that rolls back remembers no generation.
LEMMA RollBackForgets ==
  ASSUME TypeOK, TimerHasGeneration, [Next]_vars, NEW id \in GenId, PrepareRollBack(id)
  PROVE  \E p \in Servers : gen' = [gen EXCEPT ![p] = NoGeneration]
<1>1. StoreTypeOK /\ ProcTypeOK
  BY TypeOKParts
<1>2. /\ generations[id].status = "pending" /\ generations[id].attempts # 0
      /\ generations'[id].status = "rolled_back" /\ lastId' = lastId
  BY <1>1 DEF PrepareRollBack, StoreTypeOK, Row
<1>3. ~ UNCHANGED storeVars
  BY <1>2 DEF storeVars
<1>4. ~ Written
  <2>1. lastId \in Nat
    BY <1>1, BoundAssumption DEF StoreTypeOK
  <2>2. Written => lastId' = lastId + 1
    BY DEF Written, OpenGeneration
  <2> QED
    BY <1>2, <2>1, <2>2
<1>5. ASSUME NEW j \in GenId PROVE ~ PrepareTrying(j)
  BY <1>1, <1>2 DEF PrepareTrying, StoreTypeOK, Row
<1>6. ASSUME NEW p \in Servers PROVE ~ ConfirmGeneration(p)
  BY <1>1, <1>2, <1>3 DEF ConfirmGeneration, Confirm, ConfirmNothing, Pruned, NoRow, StoreTypeOK, Row
<1>7. ASSUME NEW p \in Servers, Prepare(p)
      PROVE  gen' = [gen EXCEPT ![p] = NoGeneration]
  BY <1>3, <1>5, <1>7 DEF Prepare, BootEmpty, BootClean, BootTrying, BootRolledBack,
                          PrepareEmpty, PrepareClean, Prepared
<1>8. ASSUME NEW p \in Servers,
             \/ Start(p) \/ IgnoreStored(p) \/ ApplyStored(p) \/ Serve(p)
             \/ SurviveLongEnough(p) \/ Stop(p) \/ Gone(p)
      PROVE  FALSE
  BY <1>3, <1>8 DEF Start, IgnoreStored, ApplyStored, Serve, SurviveLongEnough, Stop, Gone
<1>9. ASSUME NEW p \in Servers PROVE ~ Write(p)
  BY <1>1, <1>3, <1>4, SetWrites, UnsetWrites DEF Write, PutStored, DeleteStored, ReloadOnSighup
<1>10. ~ (CliUnset \/ CliClear)
  BY <1>1, <1>4, UnsetWrites, ClearWrites DEF CliUnset, CliClear
<1>11. ~ UNCHANGED vars
  BY <1>3 DEF vars
<1> QED
  BY <1>6, <1>7, <1>8, <1>9, <1>10, <1>11 DEF Next, Advance, Disturb, Exit, FailToStart, Crash

\* With one server, the start that rolls back leaves nothing to confirm, so
\* what it restored stays the known good layer until the next write.
LEMMA RolledBackStep ==
  ASSUME Undisturbed, TypeOK, BookkeepingInv, RolledBackIsQuiet, RolledBackToKnownGood,
         [Next]_vars
  PROVE  RolledBackIsQuiet' /\ RolledBackToKnownGood'
<1>1. StoreTypeOK /\ StoreTypeOK' /\ ProcTypeOK /\ ProcTypeOK' /\ StoreInv /\ StoreInv' /\ StoreStep
  BY TypeOKParts, NextIsStoreStep, StoreStepType, ProcStepType, StoreInvStep
     DEF BookkeepingInv, StoreInv
<1> SUFFICES ASSUME NEW i \in GenId, IsNewest(i)', generations'[i].status = "rolled_back"
             PROVE  /\ settings' = KnownGoodLayer'
                    /\ \A p \in Servers : gen'[p] # NoGeneration
                                            => generations'[gen'[p]].status # "pending"
  BY DEF RolledBackIsQuiet, RolledBackToKnownGood
<1>2. i = lastId' /\ lastId' \in GenId
  BY <1>1, LastOf DEF StoreInv, IsNewest, Live, NewestIsLastId, StoreTypeOK
<1>3. CASE Written
  <2>1. generations'[lastId'].status = "pending"
    BY <1>1, <1>2, <1>3 DEF Written, OpenGeneration, StoreTypeOK
  <2> QED
    BY <1>2, <2>1
<1>4. ASSUME NEW id \in GenId, PrepareTrying(id) PROVE FALSE
  <2>1. id = lastId /\ lastId' = lastId
    BY <1>1, <1>4, NewestId DEF PrepareTrying, StoreInv
  <2> QED
    BY <1>1, <1>2, <1>4, <2>1 DEF PrepareTrying, StoreTypeOK, Row
<1>5. ASSUME NEW id \in GenId, PrepareRollBack(id)
      PROVE  /\ settings' = KnownGoodLayer'
             /\ \A p \in Servers : gen'[p] # NoGeneration
                                     => generations'[gen'[p]].status # "pending"
  <2>1. /\ Confirmed' = Confirmed
        /\ \A j \in GenId : generations'[j].snapshot = generations[j].snapshot
    BY <1>1, <1>5 DEF PrepareRollBack, StoreTypeOK, Row, Confirmed
  <2>2. KnownGoodLayer' = KnownGoodLayer
    <3>1. CASE Confirmed = {}
      BY <2>1, <3>1 DEF KnownGoodLayer
    <3>2. CASE Confirmed # {}
      <4>1. PICK j \in Confirmed : IsLast(j, Confirmed)
        BY <3>2, LastExists DEF Confirmed
      <4>2. (CHOOSE k \in Confirmed : IsLast(k, Confirmed)) \in GenId
        BY <4>1 DEF Confirmed
      <4> QED
        BY <2>1, <3>2, <4>2 DEF KnownGoodLayer
    <3> QED
      BY <3>1, <3>2
  <2>3. ASSUME NEW p \in Servers PROVE gen'[p] = NoGeneration
    <3>1. PICK q \in Servers : gen' = [gen EXCEPT ![q] = NoGeneration]
      BY <1>1, <1>5, RollBackForgets DEF BookkeepingInv
    <3> QED
      BY <1>1, <3>1 DEF Undisturbed, ProcTypeOK
  <2> QED
    BY <1>5, <2>2, <2>3 DEF PrepareRollBack
<1>6. ASSUME NEW p \in Servers, ConfirmStep(p) PROVE FALSE
  <2>1. IsNewest(i) /\ generations[i].status = "rolled_back"
    BY <1>1, <1>2, <1>6, NewestId DEF ConfirmStep, Confirm, Pruned, NoRow, StoreInv, StoreTypeOK, Row
  <2> QED
    BY <1>6, <2>1 DEF ConfirmStep, Confirm, RolledBackIsQuiet, NoGeneration, GenId
<1>7. CASE UNCHANGED storeVars
  <2>1. /\ IsNewest(i) /\ generations[i].status = "rolled_back"
        /\ KnownGoodLayer' = KnownGoodLayer
    BY <1>7 DEF storeVars, IsNewest, Live, KnownGoodLayer, Confirmed
  <2>2. settings' = KnownGoodLayer'
    BY <1>7, <2>1 DEF storeVars, RolledBackToKnownGood
  <2>3. ASSUME NEW p \in Servers, gen'[p] # NoGeneration
        PROVE  generations'[gen'[p]].status # "pending"
    <3>1. CASE gen'[p] = gen[p]
      BY <1>7, <2>1, <2>3, <3>1 DEF storeVars, RolledBackIsQuiet
    <3>2. CASE TakesTrial
      BY <1>1, <1>7, <2>1, <2>3, <3>1, <3>2
         DEF TakesTrial, PrepareClean, PrepareTrying, storeVars, ProcTypeOK, StoreTypeOK, Row
    <3> QED
      BY <2>3, <3>1, <3>2, GenStep
  <2> QED
    BY <2>2, <2>3
<1> QED
  BY <1>3, <1>4, <1>5, <1>6, <1>7, ConfirmSteps DEF BookkeepingInv

LEMMA TrialsAreRun ==
  ASSUME Undisturbed
  PROVE  Spec => []TrialInv
<1>1. Init => TrialInv
  <2> SUFFICES ASSUME Init PROVE TrialInv
    OBVIOUS
  <2>1. Confirmed = {} /\ \A i \in GenId : generations[i].status = "none"
    BY DEF Init, StoreInit, Confirmed, NoRow
  <2> QED
    BY <2>1 DEF Init, TrialInv, TrialIsLoaded, ElapsedWasServed, ConfirmedWasRun,
                RolledBackIsQuiet, RolledBackToKnownGood
<1>2. TypeOK /\ BookkeepingInv /\ TrialInv /\ [Next]_vars => TrialInv'
  BY TrialIsLoadedStep, ElapsedStep, ConfirmedWasRunStep, RolledBackStep
     DEF TrialInv, BookkeepingInv
<1> QED
  BY <1>1, <1>2, Bookkeeping, PTL DEF Spec

\* With one server on the database and no CLI edits while it is up, only
\* settings that some process actually managed to run are ever confirmed.
THEOREM OnlyRunSettingsAreConfirmed ==
  ASSUME Undisturbed
  PROVE  Spec => []ConfirmedWasRun
  BY TrialsAreRun, PTL DEF TrialInv

\* Under the same assumption, after a rollback and until the next write the
\* table holds exactly the last known good settings.
THEOREM RollbackRestoresKnownGood ==
  ASSUME Undisturbed
  PROVE  Spec => []RolledBackToKnownGood
  BY TrialsAreRun, PTL DEF TrialInv

-----------------------------------------------------------------------------
(***************************************************************************)
(* The start after a failed trial.                                         *)
(***************************************************************************)
\* What a start that consults the store can have found: it is prepare_boot
\* that takes a process from "opened" to "prepared", and nothing else.
LEMMA ConsultedIsPrepared ==
  ASSUME TypeOK, [Next]_vars, NEW p \in Servers, pc[p] = "opened", pc'[p] = "prepared"
  PROVE  Prepare(p)
<1>1. ProcTypeOK
  BY TypeOKParts
<1> USE <1>1 DEF ProcTypeOK, Stages
<1>2. ASSUME NEW q \in Servers, Prepare(q) PROVE q = p
  BY <1>2 DEF Prepare, BootEmpty, BootClean, BootTrying, BootRolledBack, Prepared, At
<1>3. ASSUME NEW q \in Servers,
             Start(q) \/ IgnoreStored(q) \/ ApplyStored(q) \/ Serve(q) \/ Stop(q) \/ Gone(q)
      PROVE  FALSE
  BY <1>3 DEF Start, IgnoreStored, ApplyStored, Serve, Stop, Gone, At
<1>4. ASSUME NEW q \in Servers, SurviveLongEnough(q) \/ ConfirmGeneration(q) \/ Write(q)
      PROVE  FALSE
  BY <1>4 DEF SurviveLongEnough, ConfirmGeneration, Write, PutStored, DeleteStored,
              ReloadOnSighup, AdoptStored
<1>5. ~ (CliUnset \/ CliClear) /\ ~ UNCHANGED vars
  BY DEF CliUnset, CliClear, procVars, vars
<1> QED
  BY <1>2, <1>3, <1>4, <1>5 DEF Next, Advance, Disturb, Exit, FailToStart, Crash

\* `The next start rolls it back`: whatever else runs on the database, a start
\* that consults the store settles the newest generation if its trial ended
\* with its process.
THEOREM FailedTrialIsRolledBack == Spec => NextStartRollsBack
<1> DEFINE Settled(i) ==
      /\ IsNewest(i)
      /\ generations[i].status = "pending" /\ generations[i].attempts # 0
      /\ \A p \in Servers : gen[p] # i
      /\ \E p \in Servers : pc[p] = "opened" /\ pc'[p] = "prepared"
      => generations'[i].status = "rolled_back"
<1>1. TypeOK /\ BookkeepingInv /\ [Next]_vars => [\A i \in GenId : Settled(i)]_vars
  <2> SUFFICES ASSUME TypeOK, BookkeepingInv, [Next]_vars, NEW i \in GenId, IsNewest(i),
                      generations[i].status = "pending", generations[i].attempts # 0,
                      NEW p \in Servers, pc[p] = "opened", pc'[p] = "prepared"
               PROVE  generations'[i].status = "rolled_back"
    OBVIOUS
  <2>1. Prepare(p) /\ StoreTypeOK /\ NewestIsLastId
    BY ConsultedIsPrepared, TypeOKParts DEF BookkeepingInv
  <2>2. \A id \in GenId : IsNewest(id) => id = i
    BY <2>1, NewestId
  <2>3. ~ BootEmpty(p)
    BY DEF BootEmpty, PrepareEmpty, IsNewest, IsLast
  <2>4. ~ BootClean(p) /\ ~ BootTrying(p)
    BY <2>2 DEF BootClean, BootTrying, PrepareClean, PrepareTrying
  <2>5. PrepareRollBack(i)
    BY <2>1, <2>2, <2>3, <2>4 DEF Prepare, BootRolledBack, PrepareRollBack
  <2> QED
    BY <2>1, <2>5 DEF PrepareRollBack, StoreTypeOK, Row
<1> QED
  BY <1>1, Bookkeeping, PTL DEF Spec, NextStartRollsBack

-----------------------------------------------------------------------------
(***************************************************************************)
(* The refinement: one server and its generation table implement two slots *)
(* and one trial.  The lemmas read the abstract state off the concrete.    *)
(***************************************************************************)
\* What a step does to the store and to what the processes would confirm.
Refined(p) ==
  \/ /\ pc[p] = "opened"
     /\ \E id \in GenId : /\ PrepareTrying(id) \/ PrepareClean(id)
                         /\ gen' = [gen EXCEPT ![p] = id]
  \/ /\ pc[p] = "opened" /\ gen' = [gen EXCEPT ![p] = NoGeneration]
     /\ \E id \in GenId : PrepareRollBack(id)
  \/ ConfirmStep(p)
  \/ UNCHANGED storeVars /\ gen' = [gen EXCEPT ![p] = NoGeneration]

LEMMA RefinedSteps ==
  ASSUME TypeOK, TimerHasGeneration, [Next]_vars
  PROVE  \/ /\ Written \/ UNCHANGED storeVars
            /\ UNCHANGED gen
         \/ \E p \in Servers : Refined(p)
<1>1. StoreTypeOK /\ ProcTypeOK
  BY TypeOKParts
<1>2. ASSUME NEW p \in Servers, ConfirmGeneration(p)
      PROVE  Refined(p) \/ UNCHANGED <<storeVars, gen>>
  BY <1>1, <1>2 DEF ConfirmGeneration, ConfirmStep, ConfirmNothing, TimerHasGeneration,
                    ProcTypeOK, Refined
<1>3. ASSUME NEW p \in Servers, Prepare(p) PROVE Refined(p)
  BY <1>3 DEF Prepare, BootEmpty, BootClean, BootTrying, BootRolledBack, PrepareEmpty, Prepared,
              At, Refined
<1>4. ASSUME NEW p \in Servers,
             Start(p) \/ IgnoreStored(p) \/ Serve(p) \/ SurviveLongEnough(p) \/ Stop(p)
      PROVE  UNCHANGED storeVars /\ UNCHANGED gen
  BY <1>4 DEF Start, IgnoreStored, Serve, SurviveLongEnough, Stop
<1>5. ASSUME NEW p \in Servers, ApplyStored(p) \/ Gone(p)
      PROVE  Refined(p) \/ UNCHANGED <<storeVars, gen>>
  <2>1. CASE ApplyStored(p) /\ Resolves(Honoured(settings), shadow[p])
    BY <1>1, <2>1 DEF ApplyStored, ProcTypeOK
  <2>2. CASE ApplyStored(p) /\ ~ Resolves(Honoured(settings), shadow[p])
    <3>1. UNCHANGED storeVars /\ gen' = [gen EXCEPT ![p] = NoGeneration]
      BY <2>2 DEF ApplyStored
    <3> QED
      BY <3>1 DEF Refined
  <2>3. CASE Gone(p)
    <3>1. UNCHANGED storeVars /\ gen' = [gen EXCEPT ![p] = NoGeneration]
      BY <2>3 DEF Gone
    <3> QED
      BY <3>1 DEF Refined
  <2> QED
    BY <1>5, <2>1, <2>2, <2>3
<1>6. ASSUME NEW p \in Servers, Write(p)
      PROVE  (Written \/ UNCHANGED storeVars) /\ UNCHANGED gen
  BY <1>1, <1>6, SetWrites, UnsetWrites
     DEF Write, PutStored, DeleteStored, ReloadOnSighup, AdoptStored
<1>7. CASE CliUnset \/ CliClear
  BY <1>1, <1>7, UnsetWrites, ClearWrites DEF CliUnset, CliClear, procVars
<1>8. CASE UNCHANGED vars
  BY <1>8 DEF vars, procVars
<1> QED
  BY <1>2, <1>3, <1>4, <1>5, <1>6, <1>7, <1>8 DEF Next, Advance, Disturb, Exit, FailToStart, Crash

\* A process has something to confirm only after prepare_boot.
LEMMA AfreshStep ==
  ASSUME TypeOK, TimerHasGeneration, StartsAfresh, [Next]_vars
  PROVE  StartsAfresh'
<1>1. ProcTypeOK
  BY TypeOKParts
<1> USE <1>1 DEF ProcTypeOK, StartsAfresh
<1>2. ASSUME NEW p \in Servers, Start(p) \/ IgnoreStored(p) \/ Serve(p) \/ Stop(p)
      PROVE  StartsAfresh'
  BY <1>2 DEF Start, IgnoreStored, Serve, Stop, At
<1>3. ASSUME NEW p \in Servers, NEW id, Prepared(p, id) PROVE StartsAfresh'
  BY <1>3 DEF Prepared, At
<1>4. ASSUME NEW p \in Servers, ApplyStored(p) PROVE StartsAfresh'
  BY <1>4 DEF ApplyStored, At
<1>5. ASSUME NEW p \in Servers, SurviveLongEnough(p) \/ ConfirmGeneration(p) \/ Write(p)
      PROVE  StartsAfresh'
  BY <1>5 DEF SurviveLongEnough, ConfirmGeneration, Write, PutStored, DeleteStored,
              ReloadOnSighup, AdoptStored
<1>6. ASSUME NEW p \in Servers, Gone(p) PROVE StartsAfresh'
  BY <1>6 DEF Gone
<1>7. CASE CliUnset \/ CliClear
  BY <1>7 DEF CliUnset, CliClear, procVars
<1>8. CASE UNCHANGED vars
  BY <1>8 DEF vars, procVars
<1> QED
  BY <1>2, <1>3, <1>4, <1>5, <1>6, <1>7, <1>8
     DEF Next, Advance, Prepare, BootEmpty, BootClean, BootTrying, BootRolledBack,
         Disturb, Exit, FailToStart, Crash

\* Every later generation is new while a trial lasts: only a start tries or
\* rolls back, and the one server that is up has started.
LEMMA LaterOnesStep ==
  ASSUME Undisturbed, TypeOK, BookkeepingInv, LaterOnesWait, [Next]_vars
  PROVE  LaterOnesWait'
<1>1. StoreTypeOK /\ ProcTypeOK /\ ProcTypeOK' /\ StoreInv /\ StoreInv' /\ StoreStep
  BY TypeOKParts, NextIsStoreStep, ProcStepType, StoreInvStep DEF BookkeepingInv, StoreInv
<1> SUFFICES ASSUME NEW p \in Servers, NEW i \in Live', gen'[p] # NoGeneration,
                    generations'[gen'[p]].status = "pending", i > gen'[p]
             PROVE  generations'[i].status = "pending" /\ generations'[i].attempts = 0
  BY DEF LaterOnesWait
<1>2. i \in GenId /\ gen'[p] \in GenId /\ \A q \in Servers : q = p
  BY <1>1 DEF Live, ProcTypeOK, Undisturbed
<1>3. ASSUME gen'[p] = gen[p], generations'[i] = generations[i],
             generations'[gen[p]] = generations[gen[p]]
      PROVE  generations'[i].status = "pending" /\ generations'[i].attempts = 0
  BY <1>2, <1>3 DEF LaterOnesWait, Live
<1>4. CASE Written /\ UNCHANGED gen
  <2>1. PICK l \in Layer : OpenGeneration(l)
    BY <1>4 DEF Written
  <2>2. gen[p] # lastId + 1
    BY <1>1, <1>2, <1>4, BoundAssumption
       DEF BookkeepingInv, TrialsAreTried, StoreTypeOK, GenId
  <2>3. generations'[gen[p]] = generations[gen[p]]
    BY <1>1, <1>2, <1>4, <2>1, <2>2 DEF OpenGeneration, StoreTypeOK
  <2>4. CASE i = lastId + 1
    BY <1>1, <1>2, <2>1, <2>4 DEF OpenGeneration, StoreTypeOK
  <2>5. CASE i # lastId + 1
    BY <1>1, <1>2, <1>3, <1>4, <2>1, <2>3, <2>5 DEF OpenGeneration, StoreTypeOK
  <2> QED
    BY <2>4, <2>5
<1>5. CASE UNCHANGED storeVars /\ UNCHANGED gen
  BY <1>3, <1>5 DEF storeVars
<1>6. ASSUME Refined(p)
      PROVE  generations'[i].status = "pending" /\ generations'[i].attempts = 0
  <2>1. ASSUME NEW id \in GenId, PrepareTrying(id) \/ PrepareClean(id),
               gen' = [gen EXCEPT ![p] = id]
        PROVE  FALSE
    <3>1. gen'[p] = lastId /\ lastId' = lastId
      BY <1>1, <2>1, NewestId DEF PrepareTrying, PrepareClean, ProcTypeOK, StoreInv, storeVars
    <3>2. i <= lastId
      BY <1>1, <3>1 DEF StoreInv, NewestIsLastId
    <3> QED
      BY <1>1, <1>2, <3>1, <3>2, BoundAssumption DEF StoreTypeOK, GenId
  <2>2. gen' # [gen EXCEPT ![p] = NoGeneration]
    BY <1>1 DEF ProcTypeOK
  <2>3. ~ ConfirmStep(p)
    <3>1. ASSUME ConfirmStep(p) PROVE generations'[gen[p]].status # "pending"
      BY <1>1, <3>1 DEF ConfirmStep, Confirm, Pruned, StoreTypeOK, Row, NoRow
    <3> QED
      BY <3>1 DEF ConfirmStep
  <2> QED
    BY <1>6, <2>1, <2>2, <2>3 DEF Refined
<1> QED
  BY <1>2, <1>4, <1>5, <1>6, RefinedSteps DEF BookkeepingInv

\* The verdict on the current configuration is that on the last row opened.
VerdictIsOnLast ==
  Verdict = IF lastId # 0 /\ generations[lastId].status = "pending"
              THEN IF generations[lastId].attempts = 0 THEN "untried" ELSE "tried"
              ELSE "settled"

LEMMA VerdictOfLast == StoreTypeOK /\ NewestIsLastId => VerdictIsOnLast
<1> SUFFICES ASSUME StoreTypeOK, NewestIsLastId PROVE VerdictIsOnLast
  OBVIOUS
<1>1. lastId # 0 <=> lastId \in GenId
  BY BoundAssumption DEF StoreTypeOK, GenId
<1>2. \A i \in GenId : IsNewest(i) <=> i = lastId
  BY NewestId
<1> QED
  BY <1>1, <1>2 DEF Verdict, VerdictIsOnLast

\* What one server has on trial.
LEMMA TrialOfOne ==
  ASSUME ProcTypeOK, NEW p \in Servers, \A q \in Servers : q = p
  PROVE  OnTrial = IF gen[p] # NoGeneration /\ generations[gen[p]].status = "pending"
                     THEN generations[gen[p]].snapshot ELSE NoLayer
<1>1. gen[p] # NoGeneration <=> gen[p] \in GenId
  BY DEF ProcTypeOK, GenId, NoGeneration
<1>2. CASE gen[p] # NoGeneration /\ generations[gen[p]].status = "pending"
  <2>1. Trials = {gen[p]}
    BY <1>1, <1>2 DEF Trials
  <2> QED
    BY <1>2, <2>1 DEF OnTrial
<1>3. CASE ~ (gen[p] # NoGeneration /\ generations[gen[p]].status = "pending")
  <2>1. Trials = {}
    BY <1>1, <1>3 DEF Trials
  <2> QED
    BY <1>3, <2>1 DEF OnTrial
<1> QED
  BY <1>2, <1>3

\* A step that confirms and prunes nothing keeps what is known good.
LEMMA KnownGoodStands ==
  ASSUME Confirmed' = Confirmed,
         \A i \in Confirmed : generations'[i].snapshot = generations[i].snapshot
  PROVE  KnownGoodLayer' = KnownGoodLayer
<1>1. CASE Confirmed = {}
  BY <1>1 DEF KnownGoodLayer
<1>2. CASE Confirmed # {}
  <2>1. PICK j \in Confirmed : IsLast(j, Confirmed)
    BY <1>2, LastExists DEF Confirmed
  <2>2. (CHOOSE k \in Confirmed : IsLast(k, Confirmed)) \in Confirmed
    BY <2>1
  <2> QED
    BY <1>2, <2>2 DEF KnownGoodLayer
<1> QED
  BY <1>1, <1>2

\* A write makes an untried configuration current and touches nothing else.
LEMMA WriteRefines ==
  ASSUME Undisturbed, TypeOK, BookkeepingInv, Written, UNCHANGED gen
  PROVE  KG!Write
<1>1. StoreTypeOK /\ ProcTypeOK /\ StoreInv /\ StoreTypeOK' /\ StoreInv'
  BY TypeOKParts, StoreStepType, StoreInvStep DEF BookkeepingInv, StoreInv, StoreStep
<1>2. PICK l \in Layer : settings' = l /\ OpenGeneration(l)
  BY DEF Written
<1> DEFINE n == lastId + 1
<1>3. n \in GenId /\ n = lastId' /\ n # 0 /\ n \notin Live /\ lastId \in Nat
  BY <1>1, <1>2, BoundAssumption
     DEF OpenGeneration, StoreTypeOK, GenId, StoreInv, NewestIsLastId
<1>4. /\ generations'[n] = [snapshot |-> l, status |-> "pending", attempts |-> 0]
      /\ \A i \in GenId \ {n} : generations'[i] = generations[i]
  BY <1>1, <1>2, <1>3 DEF OpenGeneration, StoreTypeOK
<1>5. Verdict' = "untried"
  <2>1. lastId' # 0 /\ generations'[lastId'].status = "pending" /\ generations'[lastId'].attempts = 0
    BY <1>3, <1>4
  <2>2. VerdictIsOnLast'
    BY <1>1, VerdictOfLast, PTL DEF StoreInv
  <2> QED
    BY <2>1, <2>2 DEF VerdictIsOnLast
<1>6. KnownGoodLayer' = KnownGoodLayer
  <2>1. Confirmed' = Confirmed /\ \A i \in Confirmed : generations'[i] = generations[i]
    BY <1>3, <1>4 DEF Confirmed, Live
  <2> QED
    BY <2>1, KnownGoodStands
<1>7. OnTrial' = OnTrial
  <2>1. \A p \in Servers : gen[p] # n
    BY <1>1, <1>3, BoundAssumption DEF BookkeepingInv, TrialsAreTried, ProcTypeOK, GenId, NoGeneration
  <2>2. Trials' = Trials /\ \A i \in Trials : generations'[i] = generations[i]
    BY <1>4, <2>1 DEF Trials
  <2>3. Trials # {} => (CHOOSE i \in Trials : TRUE) \in Trials
    OBVIOUS
  <2> QED
    BY <2>2, <2>3 DEF OnTrial
<1> QED
  BY <1>2, <1>5, <1>6, <1>7 DEF KG!Write

\* The first start that finds a configuration untried puts it on trial.
LEMMA TryRefines ==
  ASSUME Undisturbed, TypeOK, TypeOK', BookkeepingInv, BookkeepingInv', StartsAfresh,
         NEW p \in Servers, pc[p] = "opened",
         NEW id \in GenId, PrepareTrying(id), gen' = [gen EXCEPT ![p] = id]
  PROVE  KG!Try
<1>1. StoreTypeOK /\ ProcTypeOK /\ StoreTypeOK' /\ ProcTypeOK'
  BY TypeOKParts DEF TypeOK, StoreTypeOK, ProcTypeOK
<1>2. id = lastId /\ id # 0 /\ lastId' = lastId /\ settings' = settings /\ IsNewest(id)
  BY <1>1, NewestId DEF PrepareTrying, BookkeepingInv, GenId
<1>3. \A q \in Servers : q = p
  BY DEF Undisturbed
<1>4. /\ generations[id].status = "pending" /\ generations[id].attempts = 0
      /\ generations'[id].status = "pending" /\ generations'[id].attempts = 1
      /\ \A i \in GenId : /\ generations'[i].snapshot = generations[i].snapshot
                         /\ generations'[i].status = generations[i].status
  BY <1>1 DEF PrepareTrying, StoreTypeOK, Row
<1>5. gen'[p] = id /\ gen[p] = NoGeneration /\ id # NoGeneration
  BY <1>1, <1>2 DEF ProcTypeOK, StartsAfresh, NoGeneration
<1>6. Verdict = "untried" /\ Verdict' = "tried"
  <2>1. Verdict = "untried"
    BY <1>1, <1>2, <1>4, VerdictOfLast DEF BookkeepingInv, VerdictIsOnLast
  <2>2. VerdictIsOnLast'
    BY <1>1, VerdictOfLast, PTL DEF BookkeepingInv
  <2> QED
    BY <1>2, <1>4, <2>1, <2>2 DEF VerdictIsOnLast
<1>7. OnTrial = NoLayer
  BY <1>1, <1>3, <1>5, TrialOfOne
<1>8. OnTrial' = settings
  <2>1. Trials' = {id}
    BY <1>3, <1>4, <1>5 DEF Trials
  <2>2. OnTrial' = generations'[id].snapshot
    BY <2>1 DEF OnTrial
  <2> QED
    BY <1>2, <1>4, <2>2 DEF BookkeepingInv, NewestDescribesTable
<1>9. KnownGoodLayer' = KnownGoodLayer
  BY <1>4, KnownGoodStands DEF Confirmed
<1> QED
  BY <1>2, <1>6, <1>7, <1>8, <1>9 DEF KG!Try

\* The start after it goes back to what was known good.
LEMMA RevertRefines ==
  ASSUME Undisturbed, TypeOK, TypeOK', BookkeepingInv, BookkeepingInv', StartsAfresh,
         NEW p \in Servers, pc[p] = "opened", gen' = [gen EXCEPT ![p] = NoGeneration],
         NEW id \in GenId, PrepareRollBack(id)
  PROVE  KG!Revert
<1>1. StoreTypeOK /\ ProcTypeOK /\ StoreTypeOK' /\ ProcTypeOK'
  BY TypeOKParts DEF TypeOK, StoreTypeOK, ProcTypeOK
<1>2. id = lastId /\ id # 0 /\ lastId' = lastId /\ settings' = KnownGoodLayer
  BY <1>1, NewestId DEF PrepareRollBack, BookkeepingInv, GenId
<1>3. \A q \in Servers : q = p
  BY DEF Undisturbed
<1>4. /\ generations[id].status = "pending" /\ generations[id].attempts # 0
      /\ generations'[id].status = "rolled_back"
      /\ \A i \in GenId : generations'[i].snapshot = generations[i].snapshot
      /\ \A i \in GenId \ {id} : generations'[i] = generations[i]
  BY <1>1 DEF PrepareRollBack, StoreTypeOK, Row
<1>5. gen'[p] = NoGeneration /\ gen[p] = NoGeneration
  BY <1>1 DEF ProcTypeOK, StartsAfresh
<1>6. Verdict = "tried" /\ Verdict' = "settled"
  <2>1. Verdict = "tried"
    BY <1>1, <1>2, <1>4, VerdictOfLast DEF BookkeepingInv, VerdictIsOnLast
  <2>2. VerdictIsOnLast'
    BY <1>1, VerdictOfLast, PTL DEF BookkeepingInv
  <2> QED
    BY <1>2, <1>4, <2>1, <2>2 DEF VerdictIsOnLast
<1>7. OnTrial = NoLayer /\ OnTrial' = NoLayer
  <2>1. Trials = {} /\ Trials' = {}
    BY <1>3, <1>5 DEF Trials, GenId, NoGeneration
  <2> QED
    BY <2>1 DEF OnTrial
<1>8. KnownGoodLayer' = KnownGoodLayer
  <2>1. Confirmed' = Confirmed
    BY <1>4 DEF Confirmed
  <2> QED
    BY <1>4, <2>1, KnownGoodStands DEF Confirmed
<1> QED
  BY <1>2, <1>6, <1>7, <1>8 DEF KG!Revert

\* A confirm makes the trial the known good configuration, and settles the
\* current one only if it is still the one that was tried.
LEMMA PromoteRefines ==
  ASSUME Undisturbed, TypeOK, TypeOK', BookkeepingInv, BookkeepingInv', LaterOnesWait,
         NEW p \in Servers, ConfirmStep(p)
  PROVE  KG!Promote
<1> DEFINE id == gen[p]
<1>1. StoreTypeOK /\ ProcTypeOK /\ StoreTypeOK' /\ ProcTypeOK'
  BY TypeOKParts DEF TypeOK, StoreTypeOK, ProcTypeOK
<1>2. /\ id \in GenId /\ id # NoGeneration /\ gen' = gen /\ id <= lastId
      /\ settings' = settings /\ lastId' = lastId
      /\ generations[id].status = "pending" /\ generations[id].attempts # 0
  BY DEF ConfirmStep, Confirm, BookkeepingInv, TrialsAreTried, GenId, NoGeneration
<1>3. /\ generations'[id].status = "confirmed"
      /\ generations'[id].snapshot = generations[id].snapshot
      /\ \A i \in GenId : i > id => generations'[i] = generations[i]
      /\ \A i \in GenId : i < id => generations'[i].status = "none"
  <2>1. id \in Nat
    BY <1>2 DEF GenId
  <2>2. \A i \in GenId : i < id \/ i = id \/ i > id
    BY <2>1 DEF GenId
  <2> QED
    BY <1>1, <1>2, <2>1, <2>2, BoundAssumption
       DEF ConfirmStep, Confirm, Pruned, NoRow, StoreTypeOK, Row, GenId
<1>4. \A q \in Servers : q = p
  BY DEF Undisturbed
<1>5. OnTrial = generations[id].snapshot /\ OnTrial # NoLayer
  BY <1>1, <1>2, <1>4, TrialOfOne, NoLayerAssumption DEF StoreTypeOK, Row
<1>6. OnTrial' = NoLayer
  <2>1. Trials' = {}
    BY <1>2, <1>3, <1>4 DEF Trials
  <2> QED
    BY <2>1 DEF OnTrial
<1>7. KnownGoodLayer' = generations[id].snapshot
  <2>1. Confirmed' = {id}
    <3>1. ASSUME NEW i \in GenId, i > id PROVE generations'[i].status # "confirmed"
      <4>1. CASE i \in Live
        BY <1>2, <1>3, <3>1, <4>1 DEF LaterOnesWait
      <4>2. CASE i \notin Live
        BY <1>3, <3>1, <4>2 DEF Live
      <4> QED
        BY <4>1, <4>2
    <3>2. \A i \in GenId : i < id \/ i = id \/ i > id
      BY <1>2 DEF GenId
    <3> QED
      BY <1>2, <1>3, <3>1, <3>2 DEF Confirmed
  <2>2. IsLast(id, Confirmed')
    BY <1>2, <2>1 DEF IsLast, GenId
  <2>3. (CHOOSE i \in Confirmed' : IsLast(i, Confirmed')) = id
    BY <2>1, <2>2
  <2>4. KnownGoodLayer' = generations'[id].snapshot
    BY <2>1, <2>3 DEF KnownGoodLayer
  <2> QED
    BY <1>3, <2>4
<1>8. Verdict' = IF Verdict = "tried" THEN "settled" ELSE Verdict
  <2>1. VerdictIsOnLast /\ VerdictIsOnLast'
    BY <1>1, VerdictOfLast, PTL DEF BookkeepingInv
  <2>2. lastId \in GenId /\ lastId # 0 /\ lastId \in Live
    BY <1>1, <1>2, BoundAssumption DEF StoreTypeOK, GenId, BookkeepingInv, NewestIsLastId
  <2>3. CASE id = lastId
    BY <1>2, <1>3, <2>1, <2>2, <2>3 DEF VerdictIsOnLast
  <2>4. CASE id # lastId
    <3>1. lastId > id /\ id \in Nat
      BY <1>2, <2>2, <2>4 DEF GenId
    <3>2. generations[lastId].status = "pending" /\ generations[lastId].attempts = 0
      BY <1>2, <2>2, <3>1 DEF LaterOnesWait
    <3>3. generations'[lastId] = generations[lastId]
      BY <1>3, <2>2, <3>1
    <3> QED
      BY <1>2, <2>1, <2>2, <3>2, <3>3 DEF VerdictIsOnLast
  <2> QED
    BY <2>3, <2>4
<1> QED
  BY <1>2, <1>5, <1>6, <1>7, <1>8 DEF KG!Promote

\* With the store as it was, the only thing left that can change is that the
\* process lets its trial go.
LEMMA QuietRefines ==
  ASSUME Undisturbed, TypeOK, TypeOK', BookkeepingInv, StartsAfresh,
         UNCHANGED storeVars, NEW p \in Servers,
         \/ UNCHANGED gen
         \/ gen' = [gen EXCEPT ![p] = NoGeneration]
         \/ /\ pc[p] = "opened"
            /\ \E id \in GenId : PrepareClean(id) /\ gen' = [gen EXCEPT ![p] = id]
  PROVE  KG!Abandon \/ UNCHANGED KG!kgVars
<1>1. StoreTypeOK /\ ProcTypeOK /\ StoreTypeOK' /\ ProcTypeOK'
  BY TypeOKParts DEF TypeOK, StoreTypeOK, ProcTypeOK
<1>2. settings' = settings /\ generations' = generations /\ lastId' = lastId
  BY DEF storeVars
<1>3. Verdict' = Verdict /\ KnownGoodLayer' = KnownGoodLayer
  BY <1>2 DEF Verdict, KnownGoodLayer, Confirmed, IsNewest, Live
<1>4. \A q \in Servers : q = p
  BY DEF Undisturbed
<1>5. CASE UNCHANGED gen
  BY <1>2, <1>3, <1>5 DEF OnTrial, Trials, KG!kgVars
<1>6. CASE gen' = [gen EXCEPT ![p] = NoGeneration]
  <2>1. gen'[p] = NoGeneration
    BY <1>1, <1>6 DEF ProcTypeOK
  <2>2. Trials' = {}
    BY <1>4, <2>1 DEF Trials, GenId, NoGeneration
  <2>3. OnTrial' = NoLayer
    BY <2>2 DEF OnTrial
  <2> QED
    BY <1>2, <1>3, <2>3 DEF KG!Abandon, KG!kgVars
<1>7. ASSUME pc[p] = "opened", NEW id \in GenId, PrepareClean(id),
             gen' = [gen EXCEPT ![p] = id]
      PROVE  UNCHANGED KG!kgVars
  <2>1. gen[p] = NoGeneration /\ gen'[p] = id /\ generations[id].status # "pending"
    BY <1>1, <1>7 DEF ProcTypeOK, StartsAfresh, PrepareClean
  <2>2. Trials = {} /\ Trials' = {}
    BY <1>2, <1>4, <2>1 DEF Trials, GenId, NoGeneration
  <2>3. OnTrial' = OnTrial
    BY <2>2 DEF OnTrial
  <2> QED
    BY <1>2, <1>3, <2>3 DEF KG!kgVars
<1> QED
  BY <1>5, <1>6, <1>7

LEMMA OneTrialHolds ==
  ASSUME Undisturbed
  PROVE  Spec => []OneTrialInv
<1>1. Init => OneTrialInv
  BY DEF Init, OneTrialInv, StartsAfresh, LaterOnesWait
<1>2. TypeOK /\ BookkeepingInv /\ OneTrialInv /\ [Next]_vars => OneTrialInv'
  BY AfreshStep, LaterOnesStep DEF OneTrialInv, BookkeepingInv
<1> QED
  BY <1>1, <1>2, Bookkeeping, PTL DEF Spec

\* With one server on the database and no CLI edits while it is up, the
\* settings table, the generation table and the confirm task amount to a
\* current configuration, a known good one and one trial: a start goes back
\* only after a failed trial and only to what was known good, and nothing
\* becomes known good that was not on trial.
THEOREM BootImplementsKnownGood ==
  ASSUME Undisturbed
  PROVE  Spec => ImplementsKnownGood
<1>1. Init => KG!Init
  <2> SUFFICES ASSUME Init PROVE KG!Init
    OBVIOUS
  <2>1. settings \in Layer /\ Live = {} /\ Confirmed = {} /\ Trials = {}
    BY DEF Init, StoreInit, Live, Confirmed, Trials, NoRow
  <2>2. Verdict = "settled"
    BY <2>1 DEF Verdict, IsNewest, IsLast
  <2>3. KnownGoodLayer = EmptyLayer /\ OnTrial = NoLayer
    BY <2>1 DEF KnownGoodLayer, OnTrial
  <2> QED
    BY <2>1, <2>2, <2>3 DEF KG!Init
<1>2. /\ TypeOK /\ BookkeepingInv /\ OneTrialInv /\ [Next]_vars
      /\ TypeOK' /\ BookkeepingInv'
      => [KG!Next]_KG!kgVars
  <2> SUFFICES ASSUME TypeOK, BookkeepingInv, OneTrialInv, [Next]_vars,
                      TypeOK', BookkeepingInv'
               PROVE  [KG!Next]_KG!kgVars
    OBVIOUS
  <2> USE DEF KG!Next
  <2>1. CASE (Written \/ UNCHANGED storeVars) /\ UNCHANGED gen
    <3>1. CASE Written
      BY <2>1, <3>1, WriteRefines
    <3>2. CASE UNCHANGED storeVars
      BY <2>1, <3>2 DEF storeVars, KG!kgVars, Verdict, KnownGoodLayer, Confirmed, IsNewest,
                        Live, OnTrial, Trials
    <3> QED
      BY <2>1, <3>1, <3>2
  <2>2. ASSUME NEW p \in Servers, Refined(p) PROVE [KG!Next]_KG!kgVars
    <3>1. ASSUME pc[p] = "opened", NEW id \in GenId, PrepareTrying(id),
                 gen' = [gen EXCEPT ![p] = id]
          PROVE  KG!Next
      BY <3>1, TryRefines DEF OneTrialInv
    <3>2. ASSUME pc[p] = "opened", NEW id \in GenId, PrepareClean(id),
                 gen' = [gen EXCEPT ![p] = id]
          PROVE  [KG!Next]_KG!kgVars
      BY <3>2, QuietRefines DEF OneTrialInv, PrepareClean
    <3>3. ASSUME pc[p] = "opened", gen' = [gen EXCEPT ![p] = NoGeneration],
                 NEW id \in GenId, PrepareRollBack(id)
          PROVE  KG!Next
      BY <3>3, RevertRefines DEF OneTrialInv
    <3>4. CASE ConfirmStep(p)
      BY <3>4, PromoteRefines DEF OneTrialInv
    <3>5. CASE UNCHANGED storeVars /\ gen' = [gen EXCEPT ![p] = NoGeneration]
      BY <3>5, QuietRefines DEF OneTrialInv
    <3> QED
      BY <2>2, <3>1, <3>2, <3>3, <3>4, <3>5 DEF Refined
  <2> QED
    BY <2>1, <2>2, RefinedSteps DEF BookkeepingInv
<1> QED
  BY <1>1, <1>2, Bookkeeping, OneTrialHolds, PTL DEF Spec, ImplementsKnownGood, KG!Spec
=============================================================================
