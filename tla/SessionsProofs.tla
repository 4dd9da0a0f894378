-------------------------- MODULE SessionsProofs --------------------------
(***************************************************************************)
(* Proofs about Sessions, for every value of its constants.                *)
(***************************************************************************)
EXTENDS Sessions, FiniteSetTheorems, TLAPS

LEMMA LimitIsNat ==
  ASSUME NEW l \in Limits
  PROVE  l \in Nat /\ l <= MaxLimit
  BY LimitsAssumption

(***************************************************************************)
(* Requests: what each of them carries, by the statement it is at.         *)
(***************************************************************************)
LEMMA RequestKinds ==
  ASSUME TypeOK, NEW c \in Callers
  PROVE  /\ req[c].at = "idle" <=> req[c] = Idle
         /\ req[c].at = "insert" => req[c] \in Creating
         /\ req[c].at \in {"look", "delete"} => req[c] \in Reading
         /\ req[c].at = "evict" => req[c] \in Reading \union Validating
         /\ req[c].at \in {"select", "refuse", "accept", "charge"} => req[c] \in Validating
         /\ req[c] # Idle => req[c].id \in Ids
  BY DEF TypeOK, Idle, Creating, Reading, Validating

\* A request that goes on to its next statement is still well formed.
LEMMA GoesOn ==
  ASSUME TypeOK, NEW c \in Callers, NEW to \in {"evict", "refuse", "accept", "charge"},
         req[c].at = "select" \/ (req[c].at = "look" /\ to = "evict"), Goes(c, to)
  PROVE  req' \in [Callers -> {Idle} \union Creating \union Reading \union Validating]
<1>1. [req[c] EXCEPT !.at = to] \in Reading \union Validating
  BY RequestKinds DEF Reading, Validating
<1>2. req' = [req EXCEPT ![c] = [req[c] EXCEPT !.at = to]]
  BY DEF Goes
<1> QED
  BY <1>1, <1>2 DEF TypeOK

LEMMA DoneIsIdle ==
  ASSUME TypeOK, NEW c \in Callers, Done(c)
  PROVE  req' \in [Callers -> {Idle} \union Creating \union Reading \union Validating]
  BY DEF Done, TypeOK

LEMMA RemoveType ==
  ASSUME TypeOK, NEW id \in Ids, Remove(id) \/ Increment(id) \/ UNCHANGED rows
  PROVE  rows' \in [Ids -> Row \union {NoRow}]
<1>1. CASE Increment(id)
  <2>1. Present(id) => [rows[id] EXCEPT !.attempts = @ + 1] \in Row
    BY DEF TypeOK, Row, Present
  <2> QED
    BY <1>1, <2>1 DEF Increment, TypeOK
<1>2. CASE Remove(id) \/ UNCHANGED rows
  BY <1>2 DEF Remove, TypeOK
<1> QED
  BY <1>1, <1>2

LEMMA InsertType ==
  ASSUME TypeOK, NEW c \in Callers, req[c].at = "insert",
         rows' = [rows EXCEPT ![req[c].id] = [expires |-> req[c].expires, attempts |-> 0]]
  PROVE  rows' \in [Ids -> Row \union {NoRow}]
<1>1. [expires |-> req[c].expires, attempts |-> 0] \in Row
  BY RequestKinds DEF Creating, Row
<1> QED
  BY <1>1 DEF TypeOK

LEMMA TypeStep ==
  ASSUME TypeOK, [Next]_vars
  PROVE  TypeOK'
<1>1. ASSUME NEW c \in Callers, BeginCreate(c) PROVE TypeOK'
  <2>1. PICK id \in Ids \ issued, ttl \in Ttls :
          /\ issued' = issued \union {id}
          /\ req' = [req EXCEPT ![c] = [at |-> "insert", id |-> id, expires |-> clock + ttl]]
    BY <1>1 DEF BeginCreate
  <2>2. [at |-> "insert", id |-> id, expires |-> clock + ttl] \in Creating
    BY TtlsAssumption, ClockAssumption DEF TypeOK, Creating
  <2> QED
    BY <1>1, <2>1, <2>2 DEF BeginCreate, TypeOK, history
<1>2. ASSUME NEW c \in Callers, Insert(c) PROVE TypeOK'
  BY <1>2, InsertType, DoneIsIdle DEF Insert, TypeOK, history
<1>3. ASSUME NEW c \in Callers, BeginRead(c) \/ BeginDelete(c) PROVE TypeOK'
  BY <1>3 DEF BeginRead, BeginDelete, TypeOK, history, Reading
<1>4. ASSUME NEW c \in Callers, Look(c) PROVE TypeOK'
  BY <1>4, GoesOn, DoneIsIdle DEF Look, TypeOK, history
<1>5. ASSUME NEW c \in Callers, Evict(c) PROVE TypeOK'
  BY <1>5, RequestKinds, RemoveType, DoneIsIdle DEF Evict, TypeOK, history, Idle
<1>6. ASSUME NEW c \in Callers, BeginValidate(c) PROVE TypeOK'
  <2>1. PICK id \in issued, right \in BOOLEAN :
          req' = [req EXCEPT ![c] = [at |-> "select", id |-> id, limit |-> limit,
                                     right |-> right, floor |-> refused[id]]]
    BY <1>6 DEF BeginValidate
  <2>2. [at |-> "select", id |-> id, limit |-> limit, right |-> right, floor |-> refused[id]]
          \in Validating
    BY DEF TypeOK, Validating
  <2> QED
    BY <1>6, <2>1, <2>2 DEF BeginValidate, TypeOK, history
<1>7. ASSUME NEW c \in Callers, Select(c) PROVE TypeOK'
  <2>1. Verdict(req[c]) \in {"refuse", "accept", "charge"}
    BY DEF Verdict
  <2>2. PICK to \in {"evict", "refuse", "accept", "charge"} : Done(c) \/ Goes(c, to)
    BY <1>7, <2>1 DEF Select
  <2>3. req' \in [Callers -> {Idle} \union Creating \union Reading \union Validating]
    <3>1. req[c].at = "select"
      BY <1>7 DEF Select
    <3>2. CASE Done(c)
      BY <3>2, DoneIsIdle
    <3>3. CASE Goes(c, to)
      BY <3>1, <3>3, GoesOn
    <3> QED
      BY <2>2, <3>2, <3>3
  <2> QED
    BY <1>7, <2>3 DEF Select, TypeOK, history
<1>8. ASSUME NEW c \in Callers, Refuse(c) PROVE TypeOK'
  <2>1. req[c].id \in Ids /\ req[c].limit \in Nat
    <3>1. req[c] \in Validating
      BY <1>8, RequestKinds DEF Refuse
    <3> QED
      <4>1. req[c].id \in Ids /\ req[c].limit \in Limits
        BY <3>1 DEF Validating
      <4> QED
        BY <4>1, LimitIsNat
  <2> QED
    BY <1>8, <2>1, RemoveType, DoneIsIdle DEF Refuse, TypeOK
<1>9. ASSUME NEW c \in Callers, Accept(c) \/ Charge(c) PROVE TypeOK'
  <2>1. req[c].id \in Ids
    BY <1>9, RequestKinds DEF Accept, Charge, Idle
  <2> QED
    BY <1>9, <2>1, RemoveType, DoneIsIdle DEF Accept, Charge, TypeOK
<1>10. ASSUME NEW c \in Callers, Abandon(c) PROVE TypeOK'
  BY <1>10, RequestKinds, RemoveType, InsertType, DoneIsIdle DEF Abandon, TypeOK, history
<1>11. ASSUME NEW c \in Callers, Delete(c) PROVE TypeOK'
  BY <1>11, RequestKinds, RemoveType, DoneIsIdle DEF Delete, TypeOK, history, Idle
<1>12. CASE Cleanup
  BY <1>12 DEF Cleanup, TypeOK, history
<1>13. CASE Tick
  BY <1>13, ClockAssumption DEF Tick, TypeOK, history
<1>14. CASE Reload \/ Stop \/ Drained \/ Start
  BY <1>14 DEF Reload, Stop, Drained, Start, TypeOK, history
<1>15. CASE Crash
  BY <1>15 DEF Crash, TypeOK, history
<1>16. CASE UNCHANGED vars
  BY <1>16 DEF vars, TypeOK, history
<1> QED
  BY <1>1, <1>2, <1>3, <1>4, <1>5, <1>6, <1>7, <1>8, <1>9, <1>10, <1>11, <1>12, <1>13,
     <1>14, <1>15, <1>16 DEF Next, Begin, Continue

-----------------------------------------------------------------------------
(***************************************************************************)
(* What a step does to a request other than the one that takes it, and to  *)
(* the row and the history of an id other than the one it is about.        *)
(***************************************************************************)
\* The end of a request, with what it may have done to its row.
Ends(c) ==
  /\ req[c] # Idle
  /\ Done(c)
  /\ \/ UNCHANGED rows
     \/ /\ req[c].at = "insert"
        /\ rows' = [rows EXCEPT ![req[c].id] = [expires |-> req[c].expires, attempts |-> 0]]
     \/ req[c].at \in {"evict", "refuse", "accept", "delete"} /\ Remove(req[c].id)
     \/ req[c].at = "charge" /\ Increment(req[c].id)
  /\ UNCHANGED <<issued, clock, limit, life>>

\* A step of the table alone: rows only go.
OnlyRemoves == \A id \in Ids : rows'[id] \in {rows[id], NoRow}

LEMMA Steps ==
  ASSUME TypeOK, [Next]_vars
  PROVE  \/ \E c \in Callers : BeginCreate(c)
         \/ \E c \in Callers : BeginRead(c) \/ BeginDelete(c) \/ BeginValidate(c)
         \/ \E c \in Callers : (Look(c) \/ Select(c)) /\ ~Done(c)
         \/ \E c \in Callers : Ends(c) /\ (UNCHANGED history \/ Refuse(c) \/ Accept(c) \/ Charge(c))
         \/ OnlyRemoves /\ UNCHANGED <<req, issued, history>> /\ clock' >= clock
         \/ Crash
<1>1. ASSUME NEW c \in Callers,
             Insert(c) \/ Evict(c) \/ Delete(c) \/ Refuse(c) \/ Accept(c) \/ Charge(c)
      PROVE  Ends(c) /\ (UNCHANGED history \/ Refuse(c) \/ Accept(c) \/ Charge(c))
  BY <1>1 DEF Insert, Evict, Delete, Refuse, Accept, Charge, Ends, Idle
<1>2. ASSUME NEW c \in Callers, Abandon(c) PROVE Ends(c) /\ UNCHANGED history
  BY <1>2 DEF Abandon, Ends
<1>3. ASSUME NEW c \in Callers, Look(c) \/ Select(c), Done(c)
      PROVE  Ends(c) /\ UNCHANGED history
  BY <1>3 DEF Look, Select, Ends, Idle
<1>4. clock \in Nat
  BY ClockAssumption DEF TypeOK
<1>5. CASE Cleanup
  BY <1>4, <1>5 DEF Cleanup, OnlyRemoves
<1>6. CASE Tick \/ Reload \/ Stop \/ Drained \/ Start
  BY <1>4, <1>6 DEF Tick, Reload, Stop, Drained, Start, OnlyRemoves
<1>7. CASE UNCHANGED vars
  BY <1>4, <1>7 DEF vars, OnlyRemoves
<1> QED
  BY <1>1, <1>2, <1>3, <1>5, <1>6, <1>7 DEF Next, Begin, Continue

\* A request that goes on keeps everything but the statement it is at.
LEMMA MovesOn ==
  ASSUME TypeOK, NEW c \in Callers, Look(c) \/ Select(c), ~Done(c)
  PROVE  /\ \A d \in Callers \ {c} : req'[d] = req[d]
         /\ req'[c].at \in {"evict", "refuse", "accept", "charge"}
         /\ req'[c].id = req[c].id
         /\ req[c].at = "look" => req'[c].at = "evict"
         /\ req[c].at = "select" =>
              /\ req'[c].limit = req[c].limit /\ req'[c].floor = req[c].floor
              /\ IF Expired(req[c].id) THEN req'[c].at = "evict"
                                       ELSE req'[c].at = Verdict(req[c])
<1>1. PICK to \in {"evict", "refuse", "accept", "charge"} :
        /\ Goes(c, to)
        /\ req[c].at = "look" => to = "evict"
        /\ req[c].at = "select" => to = IF Expired(req[c].id) THEN "evict" ELSE Verdict(req[c])
  <2>1. Verdict(req[c]) \in {"refuse", "accept", "charge"}
    BY DEF Verdict
  <2> QED
    BY <2>1 DEF Look, Select
<1>2. req'[c] = [req[c] EXCEPT !.at = to] /\ \A d \in Callers \ {c} : req'[d] = req[d]
  BY <1>1 DEF Goes, TypeOK
<1>3. req[c] \in Reading \union Validating
  BY RequestKinds DEF Look, Select
<1>4. CASE req[c] \in Reading
  BY <1>1, <1>2, <1>4 DEF Reading, Select
<1>5. CASE req[c] \in Validating
  BY <1>1, <1>2, <1>5 DEF Validating, Look
<1> QED
  BY <1>3, <1>4, <1>5

LEMMA FreshStep ==
  ASSUME TypeOK, TypeOK', IdsAreFresh, [Next]_vars
  PROVE  IdsAreFresh'
<1> USE DEF IdsAreFresh, At
<1>1. ASSUME NEW c \in Callers, BeginCreate(c) PROVE IdsAreFresh'
  <2>1. PICK id \in Ids \ issued, ttl \in Ttls :
          /\ issued' = issued \union {id}
          /\ req' = [req EXCEPT ![c] = [at |-> "insert", id |-> id, expires |-> clock + ttl]]
    BY <1>1 DEF BeginCreate
  <2>2. \A i \in Ids : Untouched(i)' <=> Untouched(i)
    BY <1>1 DEF BeginCreate, Untouched, Present, history
  <2>3. /\ req'[c] # Idle /\ req'[c].at = "insert" /\ req'[c].id = id
        /\ \A d \in Callers \ {c} : req'[d] = req[d]
    BY <2>1 DEF TypeOK, Idle
  <2>4. \A d \in Callers : req[d] # Idle => req[d].id # id
    BY <2>1
  <2> QED
    BY <2>1, <2>2, <2>3, <2>4, RequestKinds
<1>2. ASSUME NEW c \in Callers, BeginRead(c) \/ BeginDelete(c) \/ BeginValidate(c) PROVE IdsAreFresh'
  <2>1. \A i \in Ids : Untouched(i)' <=> Untouched(i)
    BY <1>2 DEF BeginRead, BeginDelete, BeginValidate, Untouched, Present, history
  <2>2. /\ req'[c] # Idle /\ req'[c].at \in {"look", "delete", "select"} /\ req'[c].id \in issued
        /\ \A d \in Callers \ {c} : req'[d] = req[d]
    BY <1>2 DEF BeginRead, BeginDelete, BeginValidate, TypeOK, Idle
  <2>3. UNCHANGED issued
    BY <1>2 DEF BeginRead, BeginDelete, BeginValidate
  <2> QED
    BY <2>1, <2>2, <2>3, RequestKinds
<1>3. ASSUME NEW c \in Callers, Look(c) \/ Select(c), ~Done(c) PROVE IdsAreFresh'
  <2>1. \A i \in Ids : Untouched(i)' <=> Untouched(i)
    BY <1>3 DEF Look, Select, Untouched, Present, history
  <2>2. Present(req[c].id) /\ req[c] # Idle /\ UNCHANGED issued
    BY <1>3 DEF Look, Select, Expired, Idle
  <2>3. /\ req'[c].id = req[c].id /\ req'[c].at # "insert"
        /\ \A d \in Callers \ {c} : req'[d] = req[d]
    BY <1>3, MovesOn
  <2>4. \A d \in Callers : req[d].at = "insert" => req[d].id # req[c].id
    BY <2>2 DEF Untouched
  <2> QED
    BY <2>1, <2>2, <2>3, <2>4, RequestKinds
<1>4. ASSUME NEW c \in Callers, Ends(c), UNCHANGED history \/ Refuse(c) \/ Accept(c) \/ Charge(c)
      PROVE  IdsAreFresh'
  <2>1. /\ UNCHANGED issued /\ req[c].id \in issued /\ req'[c] = Idle
        /\ \A d \in Callers \ {c} : req'[d] = req[d]
    BY <1>4 DEF Ends, Done, TypeOK
  <2>2. \A i \in Ids \ {req[c].id} : Untouched(i)' <=> Untouched(i)
    BY <1>4 DEF Ends, Remove, Increment, Refuse, Accept, Charge, Untouched, Present, history, TypeOK
  <2>3. req[c].id \in Ids
    BY <1>4, RequestKinds DEF Ends
  <2>4. CASE req[c].at \in {"look", "delete", "select"}
    <3>1. OnlyRemoves /\ UNCHANGED history
      BY <1>4, <2>3, <2>4 DEF Ends, Remove, OnlyRemoves, Refuse, Accept, Charge, TypeOK
    <3>2. \A i \in Ids : Untouched(i) => Untouched(i)'
      BY <3>1 DEF OnlyRemoves, Untouched, Present, history
    <3> QED
      BY <2>1, <3>2, RequestKinds DEF Idle
  <2>5. CASE req[c].at \notin {"look", "delete", "select"}
    <3>1. \A d \in Callers \ {c} : req[d].at = "insert" => req[d].id # req[c].id
      BY <1>4, <2>5 DEF Ends
    <3> QED
      BY <2>1, <2>2, <2>3, <3>1, RequestKinds DEF Idle
  <2> QED
    BY <2>4, <2>5
<1>5. CASE OnlyRemoves /\ UNCHANGED <<req, issued, history>>
  <2>1. \A i \in Ids : Untouched(i) => Untouched(i)'
    BY <1>5 DEF OnlyRemoves, Untouched, Present, history
  <2> QED
    BY <1>5, <2>1, RequestKinds DEF Idle
<1>6. CASE Crash
  BY <1>6 DEF Crash, Untouched, Present, history, Idle
<1> QED
  BY <1>1, <1>2, <1>3, <1>4, <1>5, <1>6, Steps

-----------------------------------------------------------------------------
(***************************************************************************)
(* How a row may change in a step: it goes, it is inserted, or it is the   *)
(* row it was with no fewer attempts.                                      *)
(***************************************************************************)
Carried(id) ==
  /\ Present(id)
  /\ rows'[id].expires = rows[id].expires
  /\ rows'[id].attempts >= rows[id].attempts

Inserted(id) ==
  \E c \in Callers : Ends(c) /\ req[c].at = "insert" /\ req[c].id = id

LEMMA RowsMove ==
  ASSUME TypeOK, [Next]_vars, NEW id \in Ids, Present(id)'
  PROVE  clock' >= clock /\ (Carried(id) \/ Inserted(id))
<1>1. clock \in Nat
  BY ClockAssumption DEF TypeOK
<1>2. Present(id) => rows[id] \in Row
  BY DEF TypeOK, Present
<1>3. Present(id) => rows[id].attempts \in Nat
  BY <1>2 DEF Row
<1>4. ASSUME rows'[id] = rows[id] PROVE Carried(id)
  BY <1>3, <1>4 DEF Carried, Present
<1>5. ASSUME NEW c \in Callers, Ends(c) PROVE clock' = clock /\ (Carried(id) \/ Inserted(id))
  <2>1. req[c].id \in Ids \/ req[c].at \notin {"insert", "evict", "refuse", "accept", "delete", "charge"}
    BY <1>5, RequestKinds DEF Ends
  <2>2. clock' = clock
    BY <1>5 DEF Ends
  <2>3. CASE UNCHANGED rows
    BY <1>4, <2>2, <2>3
  <2>4. CASE req[c].at = "insert" /\ ~UNCHANGED rows
    <3>1. rows' = [rows EXCEPT ![req[c].id] = [expires |-> req[c].expires, attempts |-> 0]]
      BY <1>5, <2>4 DEF Ends
    <3>2. CASE req[c].id = id
      BY <1>5, <2>2, <2>4, <3>2 DEF Inserted
    <3>3. CASE req[c].id # id
      BY <1>4, <2>2, <3>1, <3>3 DEF TypeOK
    <3> QED
      BY <3>2, <3>3
  <2>5. CASE Remove(req[c].id)
    <3>1. rows'[id] = rows[id]
      BY <2>5 DEF Remove, Present, TypeOK
    <3> QED
      BY <1>4, <2>2, <3>1
  <2>6. CASE req[c].at = "charge" /\ Increment(req[c].id)
    <3>1. CASE req[c].id = id /\ Present(id)
      <4>1. rows'[id] = [rows[id] EXCEPT !.attempts = @ + 1]
        BY <2>6, <3>1 DEF Increment, TypeOK
      <4>2. rows'[id].expires = rows[id].expires /\ rows'[id].attempts = rows[id].attempts + 1
        BY <1>2, <3>1, <4>1 DEF Row
      <4> QED
        BY <1>3, <2>2, <3>1, <4>2 DEF Carried
    <3>2. CASE ~(req[c].id = id /\ Present(id))
      <4>1. rows'[id] = rows[id]
        BY <2>6, <3>2 DEF Increment, TypeOK
      <4> QED
        BY <1>4, <2>2, <4>1
    <3> QED
      BY <3>1, <3>2
  <2> QED
    BY <1>5, <2>3, <2>4, <2>5, <2>6 DEF Ends
<1>6. CASE OnlyRemoves /\ clock' >= clock
  BY <1>4, <1>6 DEF OnlyRemoves, Present
<1>7. CASE UNCHANGED <<rows, clock>>
  BY <1>1, <1>4, <1>7
<1>8. ASSUME NEW c \in Callers,
             BeginCreate(c) \/ BeginRead(c) \/ BeginDelete(c) \/ BeginValidate(c) \/ Look(c) \/ Select(c) \/ Crash
      PROVE  UNCHANGED <<rows, clock>>
  BY <1>8 DEF BeginCreate, BeginRead, BeginDelete, BeginValidate, Look, Select, Crash
<1>9. Callers # {}
  BY CallersAssumption
<1> QED
  BY <1>1, <1>5, <1>6, <1>7, <1>8, <1>9, Steps

\* An inserted row is the first thing to happen to its id.
LEMMA InsertedIsNew ==
  ASSUME TypeOK, IdsAreFresh, [Next]_vars, NEW id \in Ids, Inserted(id)
  PROVE  /\ Untouched(id)
         /\ \A d \in Callers : req'[d] # Idle /\ req'[d].id = id => req[d].at \in {"look", "delete", "select"}
<1>1. PICK c \in Callers : Ends(c) /\ req[c].at = "insert" /\ req[c].id = id
  BY DEF Inserted
<1>2. req'[c] = Idle /\ \A d \in Callers \ {c} : req'[d] = req[d]
  BY <1>1 DEF Ends, Done, TypeOK
<1>3. Untouched(id)
  BY <1>1 DEF IdsAreFresh, At
<1> QED
  BY <1>1, <1>2, <1>3 DEF IdsAreFresh, At

\* A request in flight after a step was there before it, at that statement or
\* about to take it, or has just arrived.
Arrives(c) ==
  /\ BeginCreate(c) \/ BeginRead(c) \/ BeginDelete(c) \/ BeginValidate(c)
  /\ req'[c].at \in {"insert", "look", "delete", "select"}

LEMMA RequestMoves ==
  ASSUME TypeOK, [Next]_vars, NEW c \in Callers, req'[c] # Idle
  PROVE  req'[c] = req[c] \/ ((Look(c) \/ Select(c)) /\ ~Done(c)) \/ Arrives(c)
<1>1. ASSUME NEW d \in Callers, BeginCreate(d) \/ BeginRead(d) \/ BeginDelete(d) \/ BeginValidate(d)
      PROVE  req'[c] = req[c] \/ Arrives(c)
  <2>1. CASE d = c
    BY <1>1, <2>1 DEF BeginCreate, BeginRead, BeginDelete, BeginValidate, Arrives, TypeOK
  <2>2. CASE d # c
    BY <1>1, <2>2 DEF BeginCreate, BeginRead, BeginDelete, BeginValidate, TypeOK
  <2> QED
    BY <2>1, <2>2
<1>2. ASSUME NEW d \in Callers, Look(d) \/ Select(d), ~Done(d)
      PROVE  req'[c] = req[c] \/ d = c
  BY <1>2, MovesOn
<1>3. ASSUME NEW d \in Callers, Ends(d) PROVE req'[c] = req[c]
  BY <1>3 DEF Ends, Done, TypeOK
<1>4. ~Crash
  BY DEF Crash
<1>5. CASE UNCHANGED req
  BY <1>5
<1> QED
  BY <1>1, <1>2, <1>3, <1>4, <1>5, Steps

\* What a client may have been told about an id only changes when a request
\* about it is answered.
LEMMA HistoryMoves ==
  ASSUME TypeOK, [Next]_vars
  PROVE  UNCHANGED history \/ \E c \in Callers : Refuse(c) \/ Accept(c) \/ Charge(c)
<1>1. ASSUME NEW c \in Callers,
             BeginCreate(c) \/ BeginRead(c) \/ BeginDelete(c) \/ BeginValidate(c) \/ Look(c) \/ Select(c) \/ Crash
      PROVE  UNCHANGED history
  BY <1>1 DEF BeginCreate, BeginRead, BeginDelete, BeginValidate, Look, Select, Crash
<1>2. Callers # {}
  BY CallersAssumption
<1> QED
  BY <1>1, <1>2, Steps

LEMMA RefusedMoves ==
  ASSUME TypeOK, [Next]_vars, NEW id \in Ids
  PROVE  \/ refused'[id] = refused[id]
         \/ \E c \in Callers : /\ Refuse(c) /\ req[c].id = id
                               /\ refused'[id] = req[c].limit /\ req[c].limit > refused[id]
<1>1. CASE UNCHANGED history
  BY <1>1 DEF history
<1>2. ASSUME NEW c \in Callers, Accept(c) \/ Charge(c) PROVE refused'[id] = refused[id]
  BY <1>2 DEF Accept, Charge
<1>3. ASSUME NEW c \in Callers, Refuse(c)
      PROVE  \/ refused'[id] = refused[id]
             \/ /\ req[c].id = id
                /\ refused'[id] = req[c].limit /\ req[c].limit > refused[id]
  BY <1>3 DEF Refuse, TypeOK
<1> QED
  BY <1>1, <1>2, <1>3, HistoryMoves

LEMMA CapturedNumbers ==
  ASSUME TypeOK, NEW c \in Callers, req[c].at \in {"select", "refuse", "accept", "charge"}
  PROVE  req[c].id \in Ids /\ req[c].limit \in Limits /\ req[c].limit \in Nat /\ req[c].floor \in Nat
<1>1. req[c] \in Validating
  BY RequestKinds
<1>2. req[c].id \in Ids /\ req[c].limit \in Limits /\ req[c].floor \in Nat
  BY <1>1 DEF Validating
<1> QED
  BY <1>2, LimitIsNat

LEMMA StaleStep ==
  ASSUME TypeOK, TypeOK', IdsAreFresh, StaleReadsHold, [Next]_vars
  PROVE  StaleReadsHold'
<1>1. ASSUME NEW c \in Callers, req'[c].at = "evict", NEW id \in Ids, req'[c].id = id,
             Present(id)'
      PROVE  Expired(id)'
  <2>1. req'[c] # Idle
    BY <1>1 DEF Idle
  <2>2. clock \in Nat /\ clock' \in Nat
    BY ClockAssumption DEF TypeOK
  <2>3. ~Arrives(c)
    BY <1>1 DEF Arrives
  <2>4. CASE req'[c] = req[c]
    <3>1. ~Inserted(id)
      BY <1>1, <2>1, <2>4, InsertedIsNew
    <3>2. Carried(id) /\ clock' >= clock
      BY <1>1, <2>1, <3>1, RowsMove
    <3>3. clock > rows[id].expires /\ rows'[id].expires = rows[id].expires
      BY <1>1, <2>4, <3>2 DEF StaleReadsHold, At, Carried, Expired
    <3>4. rows[id].expires \in Nat
      BY <2>1, <3>2 DEF Carried, Present, TypeOK, Row
    <3> QED
      BY <1>1, <2>2, <3>2, <3>3, <3>4 DEF Expired
  <2>5. CASE (Look(c) \/ Select(c)) /\ ~Done(c)
    <3>1. req[c].id = id /\ UNCHANGED <<rows, clock>>
      BY <1>1, <2>5, MovesOn DEF Look, Select
    <3>2. Expired(req[c].id)
      <4>1. CASE Look(c)
        BY <2>5, <4>1 DEF Look
      <4>2. CASE Select(c)
        BY <1>1, <2>5, <4>2, MovesOn DEF Select, Verdict
      <4> QED
        BY <2>5, <4>1, <4>2
    <3> QED
      BY <3>1, <3>2 DEF Expired, Present
  <2> QED
    BY <2>1, <2>3, <2>4, <2>5, RequestMoves
<1>2. ASSUME NEW c \in Callers, req'[c].at = "refuse", NEW id \in Ids, req'[c].id = id,
             Present(id)'
      PROVE  rows'[id].attempts >= req'[c].limit
  <2>1. req'[c] # Idle
    BY <1>2 DEF Idle
  <2>2. ~Arrives(c)
    BY <1>2 DEF Arrives
  <2>3. CASE req'[c] = req[c]
    <3>1. ~Inserted(id)
      BY <1>2, <2>1, <2>3, InsertedIsNew
    <3>2. Carried(id)
      BY <1>2, <2>1, <3>1, RowsMove
    <3>3. rows[id].attempts >= req[c].limit
      BY <1>2, <2>3, <3>2 DEF StaleReadsHold, At, Carried
    <3>4. rows[id].attempts \in Nat /\ rows'[id].attempts \in Nat
      BY <1>2, <2>1, <3>2 DEF Carried, Present, TypeOK, Row
    <3>5. req[c].limit \in Nat
      BY <1>2, <2>3, CapturedNumbers
    <3> QED
      BY <2>3, <3>2, <3>3, <3>4, <3>5 DEF Carried
  <2>4. CASE (Look(c) \/ Select(c)) /\ ~Done(c)
    <3>1. Select(c) /\ req[c].at = "select" /\ UNCHANGED rows
      BY <1>2, <2>4, MovesOn DEF Look, Select
    <3>2. req[c].id = id /\ req'[c].limit = req[c].limit /\ Verdict(req[c]) = "refuse"
      BY <1>2, <2>4, <3>1, MovesOn
    <3> QED
      BY <3>1, <3>2 DEF Verdict
  <2> QED
    BY <2>1, <2>2, <2>3, <2>4, RequestMoves
<1>3. ASSUME NEW id \in Ids, Present(id)' PROVE rows'[id].attempts >= refused'[id]
  <2>1. rows'[id].attempts \in Nat /\ refused[id] \in Nat /\ refused'[id] \in Nat
    BY <1>3 DEF TypeOK, Present, Row
  <2>2. CASE \E c \in Callers : /\ Refuse(c) /\ req[c].id = id
                                /\ refused'[id] = req[c].limit
    <3>1. PICK c \in Callers : Refuse(c) /\ req[c].id = id /\ refused'[id] = req[c].limit
      BY <2>2
    <3>2. rows' = rows
      BY <1>3, <3>1 DEF Refuse, Remove, Present, TypeOK
    <3> QED
      BY <1>3, <3>1, <3>2 DEF StaleReadsHold, At, Refuse, Present
  <2>3. CASE refused'[id] = refused[id] /\ Carried(id)
    <3>1. rows[id].attempts \in Nat /\ rows[id].attempts >= refused[id]
      BY <2>3 DEF Carried, Present, StaleReadsHold, TypeOK, Row
    <3> QED
      BY <2>1, <2>3, <3>1 DEF Carried
  <2>4. CASE refused'[id] = refused[id] /\ Inserted(id)
    BY <2>1, <2>4, InsertedIsNew DEF Untouched
  <2> QED
    BY <1>3, <2>2, <2>3, <2>4, RefusedMoves, RowsMove
<1>4. ASSUME NEW c \in Callers, req'[c].at = "select", NEW id \in Ids, req'[c].id = id
      PROVE  req'[c].floor <= refused'[id]
  <2>1. req'[c] # Idle
    BY <1>4 DEF Idle
  <2>2. refused[id] \in Nat /\ refused'[id] \in Nat
    BY <2>1 DEF TypeOK
  <2>3. refused'[id] >= refused[id]
    BY <2>1, <2>2, RefusedMoves
  <2>4. CASE req'[c] = req[c]
    <3>1. req[c].floor <= refused[id] /\ req[c].floor \in Nat
      BY <1>4, <2>4, CapturedNumbers DEF StaleReadsHold, At
    <3> QED
      BY <2>2, <2>3, <2>4, <3>1
  <2>5. CASE Arrives(c)
    <3>1. req'[c].floor = refused[id]
      BY <1>4, <2>5 DEF Arrives, BeginCreate, BeginRead, BeginDelete, BeginValidate, TypeOK
    <3> QED
      BY <2>2, <2>3, <3>1
  <2>6. ~((Look(c) \/ Select(c)) /\ ~Done(c))
    BY <1>4, MovesOn
  <2> QED
    BY <2>1, <2>4, <2>5, <2>6, RequestMoves
<1>5. \A c \in Callers : req'[c].at \in {"evict", "refuse", "select"} => req'[c].id \in Ids
  BY DEF TypeOK, Idle, Creating, Reading, Validating
<1> QED
  BY <1>1, <1>2, <1>3, <1>4, <1>5 DEF StaleReadsHold, At

-----------------------------------------------------------------------------
(***************************************************************************)
(* The safety invariants, each from the ones above.                        *)
(***************************************************************************)
LEMMA CountedStep ==
  ASSUME TypeOK, TypeOK', IdsAreFresh, NoFreeGuess, [Next]_vars
  PROVE  NoFreeGuess'
<1> SUFFICES ASSUME NEW id \in Ids, Present(id)' PROVE rows'[id].attempts >= wrong'[id]
  BY DEF NoFreeGuess
<1>1. rows'[id].attempts \in Nat /\ wrong[id] \in Nat /\ wrong'[id] \in Nat
  BY DEF TypeOK, Present, Row
<1>2. CASE wrong'[id] = wrong[id]
  <2>1. CASE Carried(id)
    <3>1. rows[id].attempts \in Nat /\ rows[id].attempts >= wrong[id]
      BY <2>1 DEF Carried, Present, NoFreeGuess, TypeOK, Row
    <3> QED
      BY <1>1, <1>2, <2>1, <3>1 DEF Carried
  <2>2. CASE Inserted(id)
    BY <1>1, <1>2, <2>2, InsertedIsNew DEF Untouched
  <2> QED
    BY <2>1, <2>2, RowsMove
<1>3. ASSUME NEW c \in Callers, Charge(c), wrong'[id] # wrong[id]
      PROVE  rows'[id].attempts >= wrong'[id]
  <2>1. req[c].id = id /\ wrong'[id] = wrong[id] + 1 /\ Increment(id)
    BY <1>3 DEF Charge, TypeOK
  <2>2. Present(id)
    BY <2>1 DEF Increment, Present
  <2>3. rows[id] \in Row /\ rows[id].attempts >= wrong[id]
    BY <2>2 DEF TypeOK, Present, NoFreeGuess
  <2>4. rows'[id] = [rows[id] EXCEPT !.attempts = @ + 1]
    BY <2>1, <2>2 DEF Increment, TypeOK
  <2>5. rows[id].attempts \in Nat /\ rows'[id].attempts = rows[id].attempts + 1
    BY <2>3, <2>4 DEF Row
  <2> QED
    BY <1>1, <2>1, <2>3, <2>5
<1>4. ASSUME NEW c \in Callers, Refuse(c) \/ Accept(c) PROVE wrong' = wrong
  BY <1>4 DEF Refuse, Accept
<1>5. CASE UNCHANGED history
  BY <1>2, <1>5 DEF history
<1> QED
  BY <1>2, <1>3, <1>4, <1>5, HistoryMoves

LEMMA SolvedStep ==
  ASSUME TypeOK, TypeOK', IdsAreFresh, SolvedIsGone, [Next]_vars
  PROVE  SolvedIsGone'
<1> SUFFICES ASSUME NEW id \in Ids, id \in solved', Present(id)' PROVE FALSE
  BY DEF SolvedIsGone, TypeOK
<1>1. ASSUME id \in solved PROVE FALSE
  BY <1>1, RowsMove, InsertedIsNew DEF SolvedIsGone, Carried, Untouched
<1>2. ASSUME NEW c \in Callers, Accept(c) PROVE id \in solved
  BY <1>2 DEF Accept, Remove, Present, TypeOK
<1>3. ASSUME NEW c \in Callers, Refuse(c) \/ Charge(c) PROVE id \in solved
  BY <1>3 DEF Refuse, Charge
<1>4. CASE UNCHANGED history
  BY <1>1, <1>4 DEF history
<1> QED
  BY <1>1, <1>2, <1>3, <1>4, HistoryMoves

LEMMA RefusalStep ==
  ASSUME TypeOK, StaleReadsHold, RefusalStands, [Next]_vars
  PROVE  RefusalStands'
<1> SUFFICES ASSUME NEW c \in Callers, req'[c].at \in {"accept", "charge"}
             PROVE  req'[c].limit > req'[c].floor
  BY DEF RefusalStands
<1>1. req'[c] # Idle /\ ~Arrives(c)
  BY DEF Idle, Arrives
<1>2. CASE req'[c] = req[c]
  BY <1>2 DEF RefusalStands
<1>3. CASE (Look(c) \/ Select(c)) /\ ~Done(c)
  <2>1. Select(c) /\ req[c].at = "select"
    BY <1>3, MovesOn DEF Look, Select
  <2>2. /\ req'[c].limit = req[c].limit /\ req'[c].floor = req[c].floor
        /\ Verdict(req[c]) # "refuse"
    BY <1>3, <2>1, MovesOn
  <2>3. Present(req[c].id)
    BY <1>3, <2>1 DEF Select
  <2>4. req[c].id \in Ids /\ req[c].limit \in Nat /\ req[c].floor \in Nat
    BY <2>1, CapturedNumbers
  <2>5. rows[req[c].id].attempts \in Nat /\ refused[req[c].id] \in Nat
    BY <2>3, <2>4 DEF Present, TypeOK, Row
  <2>6. /\ rows[req[c].id].attempts >= refused[req[c].id]
        /\ req[c].floor <= refused[req[c].id]
    BY <2>1, <2>3, <2>4 DEF StaleReadsHold, At
  <2>7. ~(rows[req[c].id].attempts >= req[c].limit)
    BY <2>2 DEF Verdict
  <2> QED
    BY <2>2, <2>4, <2>5, <2>6, <2>7
<1> QED
  BY <1>1, <1>2, <1>3, RequestMoves

-----------------------------------------------------------------------------
(***************************************************************************)
(* Guesses in flight.                                                      *)
(***************************************************************************)
LEMMA CallerSets ==
  ASSUME NEW S \in SUBSET Callers
  PROVE  /\ IsFiniteSet(S) /\ Cardinality(S) \in Nat /\ Cardinality(Callers) \in Nat
         /\ Cardinality(S) <= Cardinality(Callers)
         /\ \A T \in SUBSET S : Cardinality(T) \in Nat /\ Cardinality(T) <= Cardinality(S)
         /\ \A c \in S : Cardinality(S \ {c}) = Cardinality(S) - 1
<1>1. IsFiniteSet(S) /\ IsFiniteSet(Callers) /\ Cardinality(S) <= Cardinality(Callers)
  BY CallersAssumption, FS_Subset
<1>2. \A T \in SUBSET S : IsFiniteSet(T) /\ Cardinality(T) <= Cardinality(S)
  BY <1>1, FS_Subset
<1>3. \A c \in S : Cardinality(S \ {c}) = Cardinality(S) - 1
  BY <1>1, FS_RemoveElement
<1> QED
  BY <1>1, <1>2, <1>3, FS_CardinalityType

LEMMA InFlightStep ==
  ASSUME TypeOK, TypeOK', NoFreeGuess, GuessesInFlightBounded, [Next]_vars
  PROVE  GuessesInFlightBounded'
<1> SUFFICES ASSUME NEW id \in Ids
             PROVE  wrong'[id] + Cardinality(Charging(id)') <= MaxLimit + Cardinality(Callers) - 1
  BY DEF GuessesInFlightBounded
<1>1. /\ Charging(id) \in SUBSET Callers /\ Charging(id)' \in SUBSET Callers
      /\ wrong[id] \in Nat /\ wrong'[id] \in Nat /\ MaxLimit \in Nat
  BY LimitsAssumption DEF Charging, At, TypeOK
<1>2. wrong[id] + Cardinality(Charging(id)) <= MaxLimit + Cardinality(Callers) - 1
  BY DEF GuessesInFlightBounded
<1>3. CASE \E c \in Charging(id)' : c \notin Charging(id)
  <2>1. PICK c \in Callers : /\ req'[c].at = "charge" /\ req'[c].id = id
                             /\ ~(req[c].at = "charge" /\ req[c].id = id)
    BY <1>3 DEF Charging, At
  <2>2. (Look(c) \/ Select(c)) /\ ~Done(c)
    BY <2>1, RequestMoves DEF Idle, Arrives
  <2>3. Select(c) /\ req[c].at = "select" /\ req[c].id = id /\ Verdict(req[c]) = "charge"
    BY <2>1, <2>2, MovesOn DEF Look, Select
  <2>4. Present(id) /\ UNCHANGED wrong
    BY <2>2, <2>3 DEF Select, history
  <2>5. req[c].limit \in Nat /\ req[c].limit <= MaxLimit
    BY <2>3, CapturedNumbers, LimitIsNat
  <2>6. rows[id].attempts \in Nat /\ rows[id].attempts >= wrong[id]
    BY <2>4 DEF Present, NoFreeGuess, TypeOK, Row
  <2>7. rows[id].attempts < req[c].limit
    BY <2>3, <2>5, <2>6 DEF Verdict
  <2>8. wrong'[id] <= MaxLimit - 1
    BY <1>1, <2>4, <2>5, <2>6, <2>7
  <2>9. /\ Cardinality(Charging(id)') <= Cardinality(Callers)
        /\ Cardinality(Charging(id)') \in Nat /\ Cardinality(Callers) \in Nat
    BY <1>1, CallerSets
  <2> QED
    BY <1>1, <2>8, <2>9
<1>4. CASE Charging(id)' \subseteq Charging(id) /\ wrong'[id] = wrong[id]
  <2>1. /\ Cardinality(Charging(id)') <= Cardinality(Charging(id))
        /\ Cardinality(Charging(id)') \in Nat /\ Cardinality(Charging(id)) \in Nat
        /\ Cardinality(Callers) \in Nat
    BY <1>1, <1>4, CallerSets
  <2> QED
    BY <1>1, <1>2, <1>4, <2>1
<1>5. ASSUME NEW c \in Callers, Charge(c), Charging(id)' \subseteq Charging(id),
             wrong'[id] # wrong[id]
      PROVE  wrong'[id] + Cardinality(Charging(id)') <= MaxLimit + Cardinality(Callers) - 1
  <2>1. req[c].id = id /\ wrong'[id] = wrong[id] + 1
    BY <1>5 DEF Charge, TypeOK
  <2>2. c \in Charging(id) /\ c \notin Charging(id)'
    BY <1>5, <2>1 DEF Charge, Charging, At, Done, Idle, TypeOK
  <2>3. Charging(id)' \in SUBSET (Charging(id) \ {c}) /\ Charging(id) \ {c} \in SUBSET Callers
    BY <1>1, <1>5, <2>2
  <2>4. /\ Cardinality(Charging(id)') <= Cardinality(Charging(id) \ {c})
        /\ Cardinality(Charging(id)') \in Nat /\ Cardinality(Charging(id) \ {c}) \in Nat
    BY <2>3, CallerSets
  <2>5. /\ Cardinality(Charging(id) \ {c}) = Cardinality(Charging(id)) - 1
        /\ Cardinality(Charging(id)) \in Nat /\ Cardinality(Callers) \in Nat
    BY <1>1, <2>2, CallerSets
  <2> QED
    BY <1>1, <1>2, <2>1, <2>4, <2>5
<1>6. ASSUME NEW c \in Callers, Refuse(c) \/ Accept(c) PROVE wrong' = wrong
  BY <1>6 DEF Refuse, Accept
<1>7. CASE UNCHANGED history
  BY <1>3, <1>4, <1>7 DEF history
<1> QED
  BY <1>3, <1>4, <1>5, <1>6, <1>7, HistoryMoves

-----------------------------------------------------------------------------
LEMMA InitHolds ==
  ASSUME Init
  PROVE  TypeOK /\ SessionInv
<1>1. TypeOK
  BY ClockAssumption DEF Init, TypeOK
<1>2. \A c \in Callers : req[c] = Idle
  BY DEF Init
<1>3. IdsAreFresh /\ StaleReadsHold /\ NoFreeGuess /\ SolvedIsGone /\ RefusalStands
  BY <1>2 DEF Init, IdsAreFresh, Untouched, Present, StaleReadsHold, NoFreeGuess, SolvedIsGone,
     RefusalStands, At, Idle
<1>4. GuessesInFlightBounded
  <2>1. \A id \in Ids : Charging(id) = {}
    BY <1>2 DEF Charging, At, Idle
  <2>2. Cardinality({}) = 0 /\ Cardinality(Callers) \in Nat /\ Cardinality(Callers) # 0
    BY CallersAssumption, FS_EmptySet, FS_CardinalityType
  <2>3. \A id \in Ids : wrong[id] = 0
    BY DEF Init
  <2> QED
    BY <2>1, <2>2, <2>3, LimitsAssumption DEF GuessesInFlightBounded
<1> QED
  BY <1>1, <1>3, <1>4 DEF SessionInv

\* A table row, a captured limit, a history counter: every variable keeps its
\* type, whatever the statements of different requests are interleaved with.
THEOREM TypeCorrect == Spec => []TypeOK
<1>1. Init => TypeOK
  BY InitHolds
<1>2. TypeOK /\ [Next]_vars => TypeOK'
  BY TypeStep
<1> QED
  BY <1>1, <1>2, PTL DEF Spec

THEOREM Invariants == Spec => []SessionInv
<1>1. Init => SessionInv
  BY InitHolds
<1>2. TypeOK /\ TypeOK' /\ SessionInv /\ [Next]_vars => SessionInv'
  BY FreshStep, StaleStep, CountedStep, SolvedStep, RefusalStep, InFlightStep DEF SessionInv
<1> QED
  BY <1>1, <1>2, TypeCorrect, PTL DEF Spec

\* No wrong answer goes uncounted, for any number of requests in flight.
THEOREM EveryGuessIsCounted == Spec => []NoFreeGuess
<1>1. SessionInv => NoFreeGuess
  BY DEF SessionInv
<1> QED
  BY <1>1, Invariants, PTL

\* A solved session never comes back.
THEOREM SolvedSessionsAreGone == Spec => []SolvedIsGone
<1>1. SessionInv => SolvedIsGone
  BY DEF SessionInv
<1> QED
  BY <1>1, Invariants, PTL

\* n requests in flight can overrun the attempt limit by n - 1, and no more.
THEOREM OverrunIsBounded == Spec => []GuessesBounded
<1>1. TypeOK /\ SessionInv => GuessesBounded
  <2> SUFFICES ASSUME TypeOK, SessionInv, NEW id \in Ids
               PROVE  wrong[id] <= MaxLimit + Cardinality(Callers) - 1
    BY DEF GuessesBounded
  <2>1. wrong[id] + Cardinality(Charging(id)) <= MaxLimit + Cardinality(Callers) - 1
    BY DEF SessionInv, GuessesInFlightBounded
  <2>2. Charging(id) \in SUBSET Callers
    BY DEF Charging, At
  <2>3. Cardinality(Charging(id)) \in Nat /\ Cardinality(Callers) \in Nat
    BY <2>2, CallerSets
  <2> QED
    BY <2>1, <2>3, LimitsAssumption DEF TypeOK
<1> QED
  BY <1>1, TypeCorrect, Invariants, PTL

\* Once refused under a limit, an id is not judged again under that limit.
THEOREM RefusalsStand == Spec => []RefusalStands
<1>1. SessionInv => RefusalStands
  BY DEF SessionInv
<1> QED
  BY <1>1, Invariants, PTL

LEMMA RemovedByRequest ==
  ASSUME TypeOK, StaleReadsHold, NEW id \in Ids, Present(id), ~Present(id)',
         NEW c \in Callers, Ends(c)
  PROVE  \/ Expired(id)
         \/ \E d \in At("accept") : req[d].id = id
         \/ \E d \in At("refuse") : req[d].id = id /\ rows[id].attempts >= req[d].limit
         \/ \E d \in At("delete") : req[d].id = id
<1>1. CASE req[c].at \in {"evict", "refuse", "accept", "delete"} /\ Remove(req[c].id)
  <2>1. req[c].id = id
    BY <1>1 DEF Remove, Present, TypeOK
  <2> QED
    BY <1>1, <2>1 DEF StaleReadsHold, At
<1>2. CASE UNCHANGED rows
  BY <1>2 DEF Present
<1>3. CASE req[c].at = "insert" /\ ~UNCHANGED rows
  <2>1. rows' = [rows EXCEPT ![req[c].id] = [expires |-> req[c].expires, attempts |-> 0]]
    BY <1>3 DEF Ends
  <2>2. [expires |-> req[c].expires, attempts |-> 0] # NoRow
    BY <1>3, RequestKinds, NoRowAssumption DEF Creating
  <2> QED
    BY <2>1, <2>2 DEF Present, TypeOK
<1>4. CASE req[c].at = "charge" /\ Increment(req[c].id)
  <2>1. \A i \in Ids : rows[i] # NoRow => [rows[i] EXCEPT !.attempts = @ + 1] # NoRow
    BY NoRowAssumption DEF TypeOK, Row
  <2> QED
    BY <1>4, <2>1 DEF Increment, Present, TypeOK
<1> QED
  BY <1>1, <1>2, <1>3, <1>4 DEF Ends

\* A row only goes because its session expired, was solved, is spent for the
\* request that removes it, or is deleted by a client: however stale the read
\* a deletion follows from, its reason still holds when it is carried out.
THEOREM DeletionsAreJustified == Spec => DeletionHasCause
<1> DEFINE Cause(id) ==
      \/ Expired(id)
      \/ \E c \in At("accept") : req[c].id = id
      \/ \E c \in At("refuse") : req[c].id = id /\ rows[id].attempts >= req[c].limit
      \/ \E c \in At("delete") : req[c].id = id
<1>1. TypeOK /\ SessionInv /\ [Next]_vars
        => [\A id \in Ids : Present(id) /\ ~Present(id)' => Cause(id)]_vars
  <2> SUFFICES ASSUME TypeOK, SessionInv, Next, NEW id \in Ids, Present(id), ~Present(id)'
               PROVE  Cause(id)
    OBVIOUS
  <2>1. ASSUME NEW c \in Callers, Ends(c) PROVE Cause(id)
    BY <2>1, RemovedByRequest DEF SessionInv
  <2>2. ASSUME NEW c \in Callers, Continue(c) \/ Abandon(c)
        PROVE  Ends(c) \/ UNCHANGED rows
    BY <2>2 DEF Continue, Insert, Look, Evict, Delete, Select, Refuse, Accept, Charge, Abandon, Ends, Idle
  <2>3. CASE Cleanup
    BY <2>3 DEF Cleanup, Swept, Present
  <2>4. ~UNCHANGED rows
    BY DEF Present
  <2>5. ASSUME NEW c \in Callers, Begin(c) PROVE UNCHANGED rows
    BY <2>5 DEF Begin, BeginCreate, BeginRead, BeginDelete, BeginValidate
  <2>6. ~(Tick \/ Reload \/ Stop \/ Drained \/ Crash \/ Start)
    BY <2>4 DEF Tick, Reload, Stop, Drained, Crash, Start
  <2> QED
    BY <2>1, <2>2, <2>3, <2>4, <2>5, <2>6 DEF Next
<1> QED
  BY <1>1, TypeCorrect, Invariants, PTL DEF Spec, DeletionHasCause

=============================================================================
