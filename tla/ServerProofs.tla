--------------------------- MODULE ServerProofs --------------------------
(***************************************************************************)
(* Proofs about the door of the server, its keys and its limiter; about    *)
(* main, its signals and its tasks, for any process ids, any number of     *)
(* requests and any of the tasks; about the tasks that follow the          *)
(* configuration, for any levels and intervals; and about the composition  *)
(* that TLC explores, which has the proved properties of all its parts,    *)
(* since a step of one is a stuttering step of the others.                 *)
(***************************************************************************)
EXTENDS MCServer, PackageProofs

-----------------------------------------------------------------------------
(***************************************************************************)
(* The door: any number of requests, clients, keys and administrators, and *)
(* any burst.  The invariants of Admission are not inductive: that a       *)
(* request at its handler was not barred rests on what holds of it while   *)
(* it waits, and that rests on what holds of the keys that were revoked.   *)
(***************************************************************************)
KeyRows == [is_active : BOOLEAN, used : BOOLEAN, there : BOOLEAN]
Waiting == [at : {"authenticate", "handler"}, token : Hashes \union {Master}, barred : BOOLEAN]
Fetching == [at : {"fetch"}, hash : drawn]
Answering == [at : {"answer"}, hash : drawn, asks : BOOLEAN, status : {200, 404}]

Shapes ==
  /\ keys \in [Hashes -> KeyRows]
  /\ drawn \subseteq Hashes
  /\ req \in [Callers -> {Idle} \union Waiting \union Fetching \union Answering]
  /\ stamps \subseteq drawn /\ revoked \subseteq drawn

\* Nothing is there that was not drawn.
UndrawnAreAbsent == \A h \in Hashes \ drawn : keys[h] = Absent

\* No cell is ever dropped before it is empty: what the limiter sees is what
\* the client had.
CellsAreKept ==
  /\ DOMAIN cells \subseteq Clients /\ cells \in [DOMAIN cells -> 0 .. Burst]
  /\ usage \in [Clients -> Nat] /\ \A i \in Clients : usage[i] = Used(i)

StampsWereAdmitted == stamps \subseteq admitted

\* What was revoked is not found, and a barred request waits in vain.
RevokedAreShut == \A h \in revoked : ~ Found(h)

BarredAreShut ==
  \A c \in Callers :
    req[c].at = "authenticate" /\ req[c].barred => req[c].token \in drawn /\ ~ Found(req[c].token)

AdmitIInv ==
  /\ Shapes /\ UndrawnAreAbsent /\ CellsAreKept /\ StampsWereAdmitted
  /\ RevokedAreShut /\ BarredAreShut /\ AdmissionHolds

-----------------------------------------------------------------------------
(***************************************************************************)
(* What the steps have in common.                                          *)
(***************************************************************************)
LEMMA InitAdmits == AdmitInit => AdmitIInv
  <1> SUFFICES ASSUME AdmitInit PROVE AdmitIInv
    OBVIOUS
  <1> USE AdmitAssumption DEF AdmitInit
  <1>1. Shapes /\ UndrawnAreAbsent
    BY DEF Shapes, UndrawnAreAbsent, KeyRows, Absent, Idle
  <1>2. CellsAreKept /\ QuotaHolds
    BY DEF CellsAreKept, QuotaHolds, Used
  <1>3. StampsWereAdmitted /\ RevokedAreShut /\ BarredAreShut
    BY DEF StampsWereAdmitted, RevokedAreShut, BarredAreShut, Idle
  <1>4. RevocationHolds /\ UseWasAdmitted /\ NotFoundIsTrue
    BY DEF RevocationHolds, UseWasAdmitted, NotFoundIsTrue, Idle, Absent
  <1> QED BY <1>1, <1>2, <1>3, <1>4 DEF AdmitIInv, AdmissionHolds

\* The limiter's part is disturbed by an arrival, the replenishment and the
\* sweep alone.
LEMMA CellsStay ==
  ASSUME CellsAreKept, [AdmitNext]_admitVars
  PROVE  CellsAreKept' /\ QuotaHolds'
  <1> USE AdmitAssumption DEF CellsAreKept, Used
  <1>0. CellsAreKept' => QuotaHolds'
    BY DEF QuotaHolds
  <1> SUFFICES CellsAreKept'
    BY <1>0
  <1>1. ASSUME NEW c \in Callers, Arrive(c)
        PROVE  CellsAreKept'
    <2>1. PICK i \in Clients :
            /\ Used(i) < Burst
            /\ cells' = [j \in DOMAIN cells \union {i} |->
                          IF j = i THEN Used(i) + 1 ELSE cells[j]]
            /\ usage' = [usage EXCEPT ![i] = @ + 1]
      BY <1>1 DEF Arrive
    <2>2. Used(i) \in 0 .. Burst /\ usage[i] = Used(i) /\ Used(i) + 1 \in 0 .. Burst
      BY <2>1
    <2>3. DOMAIN cells' = DOMAIN cells \union {i}
      BY <2>1
    <2>4. \A j \in DOMAIN cells' : cells'[j] = IF j = i THEN Used(i) + 1 ELSE cells[j]
      BY <2>1
    <2>5. \A j \in DOMAIN cells' : cells'[j] \in 0 .. Burst
      BY <2>2, <2>3, <2>4
    <2>6. cells' \in [DOMAIN cells' -> 0 .. Burst]
      BY <2>1, <2>3, <2>5
    <2>7. usage' \in [Clients -> Nat] /\ \A j \in Clients : usage'[j] = Used(j)'
      BY <2>1, <2>2, <2>3, <2>4
    <2> QED BY <2>3, <2>6, <2>7
  <1>2. CASE Replenish
    <2>1. PICK i \in Clients :
            /\ usage[i] > 0
            /\ usage' = [usage EXCEPT ![i] = @ - 1]
            /\ cells' = [j \in DOMAIN cells |-> IF j = i /\ cells[j] > 0 THEN cells[j] - 1
                                                                    ELSE cells[j]]
      BY <1>2 DEF Replenish
    <2> QED BY <2>1
  <1>3. CASE RetainRecent
    <2>1. /\ cells' = [i \in {i \in DOMAIN cells : cells[i] > 0} |-> cells[i]]
          /\ usage' = usage
      BY <1>3 DEF RetainRecent, Restrict
    <2>2. \A i \in Clients : i \in DOMAIN cells /\ i \notin DOMAIN cells' => cells[i] = 0
      BY <2>1
    <2> QED BY <2>1, <2>2
  <1>4. CASE Restart
    BY <1>4 DEF Restart
  <1>5. CASE UNCHANGED <<cells, usage>>
    BY <1>5
  <1> QED BY <1>1, <1>2, <1>3, <1>4, <1>5 DEF AdmitNext, admitVars, Authenticate,
             Handle, BeginUpdate, UpdateMisses, Fetch, EndUpdate, Stamp, StampFails, CreateKey, DeleteKey

KeysPart == Shapes /\ UndrawnAreAbsent /\ StampsWereAdmitted /\ UseWasAdmitted
            /\ RevokedAreShut /\ BarredAreShut /\ RevocationHolds /\ NotFoundIsTrue

\* A step of the limiter that is not an arrival.
LEMMA LimiterSpares ==
  ASSUME KeysPart, CellsAreKept, Replenish \/ RetainRecent \/ UNCHANGED admitVars
  PROVE  KeysPart'
  <1>1. UNCHANGED <<keys, drawn, req, stamps, revoked, admitted>>
    BY DEF Replenish, RetainRecent, admitVars, KeysPart, Shapes
  <1> QED BY <1>1 DEF KeysPart, Shapes, UndrawnAreAbsent, StampsWereAdmitted, UseWasAdmitted,
             RevokedAreShut, BarredAreShut, RevocationHolds, NotFoundIsTrue, Found, Fetching,
             Answering, Waiting

-----------------------------------------------------------------------------
(***************************************************************************)
(* The requests.                                                           *)
(***************************************************************************)
\* A request waiting at the door, and the same when its key is activated again.
LEMMA WaitingAt ==
  ASSUME Shapes, NEW c \in Callers, req[c].at = "authenticate"
  PROVE  /\ req[c] \in Waiting
         /\ [req[c] EXCEPT !.barred = FALSE] \in Waiting
         /\ [req[c] EXCEPT !.barred = FALSE].at = "authenticate"
         /\ [req[c] EXCEPT !.barred = FALSE].token = req[c].token
         /\ [req[c] EXCEPT !.barred = FALSE].barred = FALSE
  <1>1. req[c] \in Waiting
    BY DEF Shapes, Idle, Fetching, Answering, Waiting
  <1> QED BY <1>1 DEF Waiting

LEMMA ArriveKeeps ==
  ASSUME KeysPart, NEW c \in Callers, Arrive(c)
  PROVE  KeysPart'
  <1> USE DEF KeysPart
  <1>1. PICK i \in Clients, token \in Hashes \union {Master} :
          /\ req' = [req EXCEPT ![c] = [at |-> "authenticate", token |-> token,
                                       barred |-> token \in revoked]]
    BY DEF Arrive
  <1>2. UNCHANGED <<keys, drawn, stamps, revoked, admitted>>
    BY DEF Arrive
  <1>3. Shapes'
    BY <1>1, <1>2 DEF Shapes, Fetching, Answering, Waiting
  <1>4. \A d \in Callers : d # c => req'[d] = req[d]
    BY <1>1 DEF Shapes
  <1>5. /\ req'[c].at = "authenticate" /\ req'[c].token = token
        /\ req'[c].barred = (token \in revoked)
    BY <1>1 DEF Shapes
  <1>6. BarredAreShut'
    <2>1. token \in revoked => token \in drawn /\ ~ Found(token)
      BY DEF Shapes, RevokedAreShut
    <2> QED BY <1>2, <1>4, <1>5, <2>1 DEF BarredAreShut, Found
  <1>7. RevocationHolds' /\ NotFoundIsTrue'
    BY <1>2, <1>4, <1>5 DEF RevocationHolds, NotFoundIsTrue
  <1>8. UndrawnAreAbsent' /\ StampsWereAdmitted' /\ UseWasAdmitted' /\ RevokedAreShut'
    BY <1>2 DEF UndrawnAreAbsent, StampsWereAdmitted, UseWasAdmitted, RevokedAreShut, Found
  <1> QED BY <1>3, <1>6, <1>7, <1>8

LEMMA AuthenticateKeeps ==
  ASSUME KeysPart, NEW c \in Callers, Authenticate(c)
  PROVE  KeysPart'
  <1> USE DEF KeysPart
  <1>1. UNCHANGED <<keys, drawn, revoked>> /\ req[c].at = "authenticate"
    BY DEF Authenticate
  <1>2. req[c] \in Waiting
    BY <1>1 DEF Shapes, Idle, Fetching, Answering, Waiting
  <1>3. req' = [req EXCEPT ![c] = Idle] \/ req' = [req EXCEPT ![c].at = "handler"]
    BY DEF Authenticate, Done, Proceeds
  <1>4. \A d \in Callers : d # c => req'[d] = req[d]
    BY <1>3 DEF Shapes
  <1>5. \/ req'[c] = Idle
        \/ /\ req'[c] = [req[c] EXCEPT !.at = "handler"]
           /\ req[c].token # Master => req[c].token \in Hashes /\ Found(req[c].token)
    <2>1. CASE req[c].token = Master /\ Proceeds(c)
      BY <1>2, <2>1 DEF Proceeds, Shapes, Waiting
    <2>2. CASE req[c].token \in Hashes /\ Found(req[c].token) /\ Proceeds(c)
      BY <2>2 DEF Proceeds, Shapes
    <2>3. CASE Done(c)
      BY <2>3 DEF Done, Shapes
    <2> QED BY <2>1, <2>2, <2>3 DEF Authenticate
  <1>6. \/ UNCHANGED <<stamps, admitted>>
        \/ /\ Found(req[c].token) /\ req[c].token \in Hashes
           /\ stamps' = stamps \union {req[c].token}
           /\ admitted' = admitted \union {req[c].token}
    BY DEF Authenticate
  <1>7. \A h \in Hashes : Found(h) => h \in drawn
    BY DEF UndrawnAreAbsent, Found, Absent
  <1>8. Shapes'
    <2>1. req'[c] \in {Idle} \union Waiting
      BY <1>2, <1>5 DEF Waiting
    <2>2. req' \in [Callers -> {Idle} \union Waiting \union Fetching \union Answering]
      BY <1>3, <1>4, <2>1 DEF Shapes
    <2> QED BY <1>1, <1>6, <1>7, <2>2 DEF Shapes, Fetching, Answering, Waiting
  <1>9. RevocationHolds'
    <2>1. req'[c].at = "handler" => ~ req[c].barred
      <3>1. req[c].barred => req[c].token \in Hashes /\ ~ Found(req[c].token)
        BY <1>1 DEF BarredAreShut, Shapes
      <3>2. Idle.at # "handler"
        BY DEF Idle
      <3> QED BY <1>5, <3>1, <3>2, AdmitAssumption
    <2>2. req'[c].at = "handler" => req'[c].barred = req[c].barred
      BY <1>2, <1>5 DEF Waiting, Idle
    <2> QED BY <1>4, <2>1, <2>2 DEF RevocationHolds
  <1>10. BarredAreShut' /\ NotFoundIsTrue'
    <2>1. req'[c].at \notin {"authenticate", "answer"}
      BY <1>2, <1>5 DEF Waiting, Idle
    <2> QED BY <1>1, <1>4, <2>1 DEF BarredAreShut, NotFoundIsTrue, Found
  <1>11. UndrawnAreAbsent' /\ StampsWereAdmitted' /\ UseWasAdmitted' /\ RevokedAreShut'
    BY <1>1, <1>6 DEF UndrawnAreAbsent, StampsWereAdmitted, UseWasAdmitted, RevokedAreShut, Found
  <1> QED BY <1>8, <1>9, <1>10, <1>11

\* A request that ends, however it does, leaves nothing to say about it.
LEMMA EndingKeeps ==
  ASSUME KeysPart, NEW c \in Callers, Handle(c)
  PROVE  KeysPart'
  <1>1. /\ UNCHANGED <<keys, drawn, revoked, stamps, admitted>>
        /\ req' = [req EXCEPT ![c] = Idle]
    BY DEF Handle, Done
  <1>2. Shapes'
    BY <1>1 DEF KeysPart, Shapes, Fetching, Answering, Waiting
  <1>3. \A d \in Callers : req'[d] = IF d = c THEN Idle ELSE req[d]
    BY <1>1 DEF KeysPart, Shapes
  <1> QED BY <1>1, <1>2, <1>3 DEF KeysPart, Idle, UndrawnAreAbsent, StampsWereAdmitted,
             UseWasAdmitted, RevokedAreShut, BarredAreShut, RevocationHolds, NotFoundIsTrue, Found

-----------------------------------------------------------------------------
(***************************************************************************)
(* The stamps and the administrators.                                      *)
(***************************************************************************)
\* A stamp changes neither what is found nor what is there.
LEMMA StampKeeps ==
  ASSUME KeysPart, Stamp \/ StampFails
  PROVE  KeysPart'
  <1> USE DEF KeysPart
  <1>1. UNCHANGED <<drawn, req, revoked, admitted>> /\ stamps' \subseteq stamps
    BY DEF Stamp, StampFails
  <1>2. \/ keys' = keys
        \/ \E h \in stamps : keys' = [keys EXCEPT ![h].used = @ \/ keys[h].there]
    BY DEF Stamp, StampFails
  <1>3. keys' \in [Hashes -> KeyRows]
    BY <1>2 DEF Shapes, KeyRows
  <1>4. \A h \in Hashes : /\ keys'[h].there = keys[h].there
                          /\ keys'[h].is_active = keys[h].is_active
                          /\ h \notin stamps => keys'[h] = keys[h]
    BY <1>2 DEF Shapes, KeyRows
  <1>5. Shapes'
    BY <1>1, <1>3 DEF Shapes, Fetching, Answering, Waiting
  <1>6. \A h \in Hashes : Found(h)' <=> Found(h)
    BY <1>4 DEF Found
  <1>7. RevokedAreShut' /\ BarredAreShut'
    BY <1>1, <1>6 DEF RevokedAreShut, BarredAreShut, Shapes
  <1>8. NotFoundIsTrue'
    <2>1. \A c \in Callers : req[c].at = "answer" => req[c].hash \in Hashes
      BY DEF Shapes, Idle, Fetching, Answering, Waiting
    <2> QED BY <1>1, <1>4, <2>1 DEF NotFoundIsTrue
  <1>9. UndrawnAreAbsent' /\ StampsWereAdmitted' /\ UseWasAdmitted' /\ RevocationHolds'
    BY <1>1, <1>4 DEF UndrawnAreAbsent, StampsWereAdmitted, UseWasAdmitted, RevocationHolds, Shapes
  <1> QED BY <1>5, <1>7, <1>8, <1>9

LEMMA CreateKeeps ==
  ASSUME KeysPart, CreateKey
  PROVE  KeysPart' /\ (\A h \in drawn : keys'[h] = keys[h])
  <1> USE DEF KeysPart
  <1>1. UNCHANGED <<req, stamps, revoked, admitted>>
    BY DEF CreateKey
  <1>2. PICK new \in Hashes \ drawn :
          keys' = [keys EXCEPT ![new] = NewKey] /\ drawn' = drawn \union {new}
    BY DEF CreateKey
  <1>3. Shapes'
    BY <1>1, <1>2 DEF Shapes, KeyRows, NewKey, Fetching, Answering, Waiting
  <1>4. \A h \in drawn : keys'[h] = keys[h]
    BY <1>2 DEF Shapes
  <1>5. UndrawnAreAbsent' /\ UseWasAdmitted'
    BY <1>1, <1>2 DEF Shapes, UndrawnAreAbsent, UseWasAdmitted, NewKey
  <1>6. RevokedAreShut' /\ StampsWereAdmitted' /\ RevocationHolds'
    BY <1>1, <1>4 DEF Shapes, RevokedAreShut, StampsWereAdmitted, RevocationHolds, Found
  <1>7. NotFoundIsTrue'
    <2>1. \A c \in Callers : req[c].at = "answer" => req[c].hash \in drawn
      BY DEF Shapes, Idle, Fetching, Answering, Waiting
    <2> QED BY <1>1, <1>4, <2>1 DEF NotFoundIsTrue
  <1>8. BarredAreShut'
    BY <1>1, <1>2, <1>4 DEF BarredAreShut, Found
  <1> QED BY <1>3, <1>4, <1>5, <1>6, <1>7, <1>8

LEMMA UpdateKeeps ==
  ASSUME KeysPart, NEW c \in Callers, BeginUpdate(c)
  PROVE  KeysPart' /\ (\A h \in drawn : keys'[h].there = keys[h].there)
  <1> USE DEF KeysPart
  <1>1. UNCHANGED <<drawn, stamps, admitted>>
    BY DEF BeginUpdate
  <1>2. PICK h \in drawn, active \in BOOLEAN :
          /\ keys[h].there
          /\ keys' = [keys EXCEPT ![h].is_active = active]
          /\ revoked' = IF active THEN revoked \ {h} ELSE revoked
          /\ req' = [d \in Callers |->
               IF d = c THEN [at |-> "fetch", hash |-> h]
               ELSE IF active /\ req[d].at = "authenticate" /\ req[d].token = h
               THEN [req[d] EXCEPT !.barred = FALSE]
               ELSE req[d]]
    BY DEF BeginUpdate
  <1>3. keys' \in [Hashes -> KeyRows]
    BY <1>2 DEF Shapes, KeyRows
  <1>4. \A k \in Hashes : /\ keys'[k].there = keys[k].there /\ keys'[k].used = keys[k].used
                          /\ k # h => keys'[k] = keys[k]
                          /\ k = h => keys'[k].is_active = active
    BY <1>2 DEF Shapes, KeyRows
  <1>5. \A d \in Callers :
          \/ d = c /\ req'[d] = [at |-> "fetch", hash |-> h]
          \/ /\ active /\ req[d].at = "authenticate" /\ req[d].token = h
             /\ req'[d] = [req[d] EXCEPT !.barred = FALSE]
          \/ /\ req'[d] = req[d]
             /\ ~ (active /\ req[d].at = "authenticate" /\ req[d].token = h)
    BY <1>2
  <1>6. Shapes'
    <2>1. \A d \in Callers : req[d].at = "authenticate" =>
            [req[d] EXCEPT !.barred = FALSE] \in Waiting
      BY WaitingAt
    <2>2. [at |-> "fetch", hash |-> h] \in Fetching
      BY DEF Fetching
    <2>3. \A d \in Callers : req[d] \in {Idle} \union Waiting \union Fetching \union Answering
      BY DEF Shapes
    <2>4. \A d \in Callers : req'[d] \in {Idle} \union Waiting \union Fetching \union Answering
      BY <1>5, <2>1, <2>2, <2>3
    <2>5. req' \in [Callers -> {Idle} \union Waiting \union Fetching \union Answering]
      BY <1>2, <2>4
    <2>6. revoked' \subseteq drawn
      BY <1>2 DEF Shapes
    <2> QED BY <1>1, <1>3, <2>5, <2>6 DEF Shapes, Fetching, Answering, Waiting
  <1>7. UndrawnAreAbsent' /\ StampsWereAdmitted' /\ UseWasAdmitted'
    BY <1>1, <1>4 DEF Shapes, UndrawnAreAbsent, StampsWereAdmitted, UseWasAdmitted
  <1>8. RevokedAreShut'
    BY <1>2, <1>4 DEF Shapes, RevokedAreShut, Found
  <1>9. BarredAreShut'
    <2> SUFFICES ASSUME NEW d \in Callers, req'[d].at = "authenticate", req'[d].barred
                 PROVE  req'[d].token \in drawn' /\ ~ Found(req[d].token)'
                        /\ req'[d].token = req[d].token
      BY DEF BarredAreShut, Found
    <2>1. CASE req'[d] = req[d] /\ ~ (active /\ req[d].token = h)
      <3>1. req[d].token \in drawn /\ ~ Found(req[d].token)
        BY <2>1 DEF BarredAreShut
      <3>2. req[d].token = h => ~ active
        BY <2>1
      <3> QED BY <1>1, <1>2, <1>4, <2>1, <3>1, <3>2 DEF Found, Shapes
    <2>2. CASE req'[d] = [at |-> "fetch", hash |-> h]
      BY <2>2
    <2>3. CASE req[d].at = "authenticate" /\ req'[d] = [req[d] EXCEPT !.barred = FALSE]
      BY <2>3, WaitingAt
    <2> QED BY <1>5, <2>1, <2>2, <2>3
  <1>10. RevocationHolds' /\ NotFoundIsTrue'
    <2>1. \A d \in Callers : req[d].at = "answer" => req[d].hash \in Hashes
      BY DEF Shapes, Idle, Fetching, Answering, Waiting
    <2>2. \A d \in Callers : req'[d].at \in {"handler", "answer"} => req'[d] = req[d]
      <3> SUFFICES ASSUME NEW d \in Callers, req'[d].at \in {"handler", "answer"}
                   PROVE  req'[d] = req[d]
        OBVIOUS
      <3>1. CASE req[d].at = "authenticate" /\ req'[d] = [req[d] EXCEPT !.barred = FALSE]
        <4>1. req'[d].at = "authenticate"
          BY <3>1, WaitingAt
        <4> QED BY <4>1
      <3>2. CASE req'[d] = [at |-> "fetch", hash |-> h]
        BY <3>2
      <3> QED BY <1>5, <3>1, <3>2
    <2> QED BY <1>4, <2>1, <2>2 DEF RevocationHolds, NotFoundIsTrue
  <1> QED BY <1>4, <1>6, <1>7, <1>8, <1>9, <1>10 DEF Shapes

\* A 404 at once changes nothing.
LEMMA MissKeeps ==
  ASSUME KeysPart, NEW c \in Callers, UpdateMisses(c)
  PROVE  KeysPart'
  <1> USE DEF KeysPart
  <1>1. UNCHANGED <<keys, drawn, stamps, revoked, admitted>>
    BY DEF UpdateMisses
  <1>2. PICK h \in drawn, asks \in BOOLEAN :
          /\ asks => ~ keys[h].there
          /\ req' = [req EXCEPT ![c] = [at |-> "answer", hash |-> h, asks |-> asks,
                                       status |-> 404]]
    BY DEF UpdateMisses
  <1>3. \A d \in Callers : req'[d] = IF d = c THEN [at |-> "answer", hash |-> h, asks |-> asks,
                                                  status |-> 404]
                                    ELSE req[d]
    BY <1>2 DEF Shapes
  <1>4. Shapes'
    <2>1. [at |-> "answer", hash |-> h, asks |-> asks, status |-> 404] \in Answering
      BY DEF Answering
    <2>2. req' \in [Callers -> {Idle} \union Waiting \union Fetching \union Answering]
      BY <1>2, <1>3, <2>1 DEF Shapes
    <2> QED BY <1>1, <2>2 DEF Shapes, Fetching, Answering, Waiting
  <1>5. BarredAreShut' /\ RevocationHolds' /\ NotFoundIsTrue'
    BY <1>1, <1>2, <1>3 DEF BarredAreShut, RevocationHolds, NotFoundIsTrue, Found
  <1>6. UndrawnAreAbsent' /\ StampsWereAdmitted' /\ UseWasAdmitted' /\ RevokedAreShut'
    BY <1>1 DEF UndrawnAreAbsent, StampsWereAdmitted, UseWasAdmitted, RevokedAreShut, Found
  <1> QED BY <1>4, <1>5, <1>6

\* Between the UPDATE and the answer the row may go, but never come back.
LEMMA FetchKeeps ==
  ASSUME KeysPart, NEW c \in Callers, Fetch(c)
  PROVE  KeysPart'
  <1> USE DEF KeysPart
  <1>1. UNCHANGED <<keys, drawn, stamps, revoked, admitted>> /\ req[c].at = "fetch"
    BY DEF Fetch
  <1>2. req[c] \in Fetching
    BY <1>1 DEF Shapes, Idle, Fetching, Answering, Waiting
  <1> DEFINE status == IF keys[req[c].hash].there THEN 200 ELSE 404
  <1>3. /\ status \in {200, 404} /\ (status = 404 => ~ keys[req[c].hash].there)
        /\ req' = [req EXCEPT ![c] = [at |-> "answer", hash |-> req[c].hash,
                                     asks |-> TRUE, status |-> status]]
    BY DEF Fetch, Answers, Fetches
  <1> HIDE DEF status
  <1>9. DOMAIN req = Callers
    BY DEF Shapes
  <1>4. \A d \in Callers : d # c => req'[d] = req[d]
    <2> DEFINE answer == [at |-> "answer", hash |-> req[c].hash, asks |-> TRUE, status |-> status]
    <2>1. req' = [req EXCEPT ![c] = answer]
      BY <1>3
    <2> HIDE DEF answer
    <2> QED BY <1>9, <2>1
  <1>5. req'[c] = [at |-> "answer", hash |-> req[c].hash, asks |-> TRUE, status |-> status]
    BY <1>3, <1>9
  <1>6. Shapes'
    <2>3. status \in {200, 404}
      BY <1>3
    <2>1. req'[c] \in Answering
      BY <1>2, <1>5, <2>3 DEF Fetching, Answering
    <2>2. req' \in [Callers -> {Idle} \union Waiting \union Fetching \union Answering]
      BY <1>3, <1>4, <2>1 DEF Shapes
    <2> QED BY <1>1, <2>2 DEF Shapes, Fetching, Answering, Waiting
  <1>7. BarredAreShut' /\ RevocationHolds' /\ NotFoundIsTrue'
    <2>1. req'[c].at = "answer" /\ req'[c].hash = req[c].hash /\ req'[c].status = status
      BY <1>5
    <2>2. BarredAreShut' /\ RevocationHolds'
      BY <1>1, <1>4, <2>1 DEF BarredAreShut, RevocationHolds, Found
    <2>3. status = 404 => ~ keys[req[c].hash].there
      BY <1>3
    <2>4. NotFoundIsTrue'
      BY <1>1, <1>4, <2>1, <2>3 DEF NotFoundIsTrue
    <2> QED BY <2>2, <2>4
  <1>8. UndrawnAreAbsent' /\ StampsWereAdmitted' /\ UseWasAdmitted' /\ RevokedAreShut'
    BY <1>1 DEF UndrawnAreAbsent, StampsWereAdmitted, UseWasAdmitted, RevokedAreShut, Found
  <1> QED BY <1>6, <1>7, <1>8

LEMMA AnswerKeeps ==
  ASSUME KeysPart, NEW c \in Callers, EndUpdate(c)
  PROVE  KeysPart'
  <1> USE DEF KeysPart
  <1>1. UNCHANGED <<keys, drawn, stamps, admitted>> /\ req[c].at = "answer"
    BY DEF EndUpdate
  <1>2. req[c] \in Answering
    BY <1>1 DEF Shapes, Idle, Fetching, Answering, Waiting
  <1>3. /\ req' = [req EXCEPT ![c] = Idle]
        /\ revoked' = IF req[c].asks /\ ~ keys[req[c].hash].is_active
                      THEN revoked \union {req[c].hash} ELSE revoked
    BY DEF EndUpdate, Done
  <1>4. \A d \in Callers : req'[d] = IF d = c THEN Idle ELSE req[d]
    BY <1>3 DEF Shapes
  <1>5. Shapes'
    BY <1>1, <1>2, <1>3 DEF Shapes, Fetching, Answering, Waiting
  <1>6. RevokedAreShut'
    BY <1>1, <1>3 DEF RevokedAreShut, Found
  <1>7. BarredAreShut' /\ RevocationHolds' /\ NotFoundIsTrue'
    BY <1>1, <1>4 DEF BarredAreShut, RevocationHolds, NotFoundIsTrue, Found, Idle
  <1>8. UndrawnAreAbsent' /\ StampsWereAdmitted' /\ UseWasAdmitted'
    BY <1>1 DEF UndrawnAreAbsent, StampsWereAdmitted, UseWasAdmitted
  <1> QED BY <1>5, <1>6, <1>7, <1>8

LEMMA DeleteKeeps ==
  ASSUME KeysPart, DeleteKey
  PROVE  KeysPart' /\ (\A h \in Hashes : keys'[h].there => keys[h].there)
  <1> USE DEF KeysPart
  <1>1. UNCHANGED <<drawn, req, stamps, admitted>>
    BY DEF DeleteKey
  <1>2. PICK h \in drawn :
          keys' = [keys EXCEPT ![h] = Absent] /\ revoked' = revoked \union {h}
    BY DEF DeleteKey
  <1>3. Shapes'
    BY <1>1, <1>2 DEF Shapes, KeyRows, Absent, Fetching, Answering, Waiting
  <1>4. \A k \in Hashes : keys'[k] = IF k = h THEN Absent ELSE keys[k]
    BY <1>2 DEF Shapes
  <1>5. \A k \in Hashes : Found(k)' => Found(k)
    BY <1>4 DEF Found, Absent
  <1>6. UndrawnAreAbsent' /\ StampsWereAdmitted' /\ UseWasAdmitted'
    <2>1. UndrawnAreAbsent' /\ StampsWereAdmitted'
      BY <1>1, <1>4 DEF UndrawnAreAbsent, StampsWereAdmitted
    <2>2. ~ Absent.used
      BY DEF Absent
    <2> QED BY <1>1, <1>4, <2>1, <2>2 DEF UseWasAdmitted
  <1>7. RevokedAreShut'
    BY <1>2, <1>4, <1>5 DEF Shapes, RevokedAreShut, Found, Absent
  <1>8. BarredAreShut' /\ RevocationHolds'
    BY <1>1, <1>5 DEF Shapes, BarredAreShut, RevocationHolds
  <1>9. NotFoundIsTrue'
    <2>1. \A c \in Callers : req[c].at = "answer" => req[c].hash \in Hashes
      BY DEF Shapes, Idle, Fetching, Answering, Waiting
    <2> QED BY <1>1, <1>4, <2>1 DEF NotFoundIsTrue, Absent
  <1>10. \A k \in Hashes : keys'[k].there => keys[k].there
    BY <1>4 DEF Absent
  <1> QED BY <1>3, <1>6, <1>7, <1>8, <1>9, <1>10

LEMMA RestartKeeps ==
  ASSUME KeysPart, Restart
  PROVE  KeysPart'
  <1>1. UNCHANGED <<keys, drawn, revoked, admitted>> /\ stamps' = {}
    BY DEF Restart
  <1>2. req' = [c \in Callers |-> Idle]
    BY DEF Restart
  <1> QED BY <1>1, <1>2 DEF KeysPart, Idle, Shapes, UndrawnAreAbsent, StampsWereAdmitted,
             UseWasAdmitted, RevokedAreShut, BarredAreShut, RevocationHolds, NotFoundIsTrue, Found

-----------------------------------------------------------------------------
(***************************************************************************)
(* The theorems.                                                           *)
(***************************************************************************)
LEMMA StepAdmits == AdmitIInv /\ [AdmitNext]_admitVars => AdmitIInv'
  <1> SUFFICES ASSUME AdmitIInv, [AdmitNext]_admitVars PROVE AdmitIInv'
    OBVIOUS
  <1>1. KeysPart /\ CellsAreKept
    BY DEF AdmitIInv, AdmissionHolds, KeysPart, Shapes
  <1>2. CellsAreKept' /\ QuotaHolds'
    BY <1>1, CellsStay
  <1>3. KeysPart'
    <2>1. CASE \E c \in Callers : \/ Arrive(c) \/ Authenticate(c) \/ Handle(c)
                                 \/ BeginUpdate(c) \/ UpdateMisses(c)
                                 \/ Fetch(c) \/ EndUpdate(c)
      BY <1>1, <2>1, ArriveKeeps, AuthenticateKeeps, EndingKeeps, UpdateKeeps, MissKeeps,
         FetchKeeps, AnswerKeeps
    <2>2. CASE Replenish \/ RetainRecent \/ UNCHANGED admitVars
      BY <1>1, <2>2, LimiterSpares
    <2>3. CASE Stamp \/ StampFails \/ CreateKey \/ DeleteKey \/ Restart
      BY <1>1, <2>3, StampKeeps, CreateKeeps, DeleteKeeps, RestartKeeps
    <2> QED BY <2>1, <2>2, <2>3 DEF AdmitNext
  <1> QED BY <1>2, <1>3 DEF AdmitIInv, AdmissionHolds, KeysPart

LEMMA Admits == AdmitSpec => []AdmitIInv
  BY InitAdmits, StepAdmits, PTL DEF AdmitSpec

\* Whoever comes after its key was revoked stays outside, a key counts as
\* used only if a request got in with it, an update that asks for something is
\* answered 404 only of a key that is not there, and no client gets more than
\* its burst, whenever the limiter forgets it: for any number of each
\* (AuthMiddleware, api_keys.rs, GovernorLayer, tasks/cleanup.rs).
THEOREM AdmissionIsSafe == AdmitSpec => []AdmissionHolds
  BY Admits, PTL DEF AdmitIInv

\* The tables have their types, and nothing is stamped or revoked that was
\* never drawn.
THEOREM AdmissionIsTyped == AdmitSpec => []AdmitTypeOK
  <1>1. AdmitIInv => AdmitTypeOK
    BY DEF AdmitIInv, AdmitTypeOK, Shapes, KeyRows, UndrawnAreAbsent, CellsAreKept
  <1> QED BY <1>1, Admits, PTL

\* No stamp, update or creation on its way brings back a key that was deleted
\* (update_api_key_last_used, update_api_key).
THEOREM DeletionIsFinal == AdmitSpec => DeletedStaysDeleted
  <1>1. AdmitIInv /\ [AdmitNext]_admitVars =>
          [\A h \in drawn : ~keys[h].there => ~keys'[h].there]_admitVars
    <2> SUFFICES ASSUME AdmitIInv, AdmitNext, NEW h \in drawn, ~ keys[h].there
                 PROVE  ~ keys'[h].there
      OBVIOUS
    <2>1. KeysPart /\ CellsAreKept /\ h \in Hashes
      BY DEF AdmitIInv, AdmissionHolds, KeysPart, Shapes
    <2>2. CASE \E c \in Callers : BeginUpdate(c)
      BY <2>1, <2>2, UpdateKeeps
    <2>3. CASE CreateKey
      BY <2>1, <2>3, CreateKeeps
    <2>4. CASE DeleteKey
      BY <2>1, <2>4, DeleteKeeps
    <2>5. CASE Stamp
      <3>1. PICK k \in stamps : keys' = [keys EXCEPT ![k].used = @ \/ keys[k].there]
        BY <2>5 DEF Stamp
      <3> QED BY <2>1, <3>1 DEF KeysPart, Shapes, KeyRows
    <2>6. CASE UNCHANGED keys
      BY <2>6
    <2> QED BY <2>2, <2>3, <2>4, <2>5, <2>6 DEF AdmitNext, Arrive, Authenticate, Handle,
               UpdateMisses, Fetch, EndUpdate, Replenish, RetainRecent, StampFails, Restart
  <1> QED BY <1>1, Admits, PTL DEF AdmitSpec, DeletedStaysDeleted

-----------------------------------------------------------------------------
(***************************************************************************)
(* The process.                                                            *)
(***************************************************************************)
\* What is true of the files of this process: but for the one at its own path,
\* all have been given up as soon as it has a path, and that one is gone, or was
\* left, before it ends for good.
NotLeft(path) == pidfile[path] # NoFile /\ path \notin left

FilesAreKnown ==
  \A path \in Paths : NotLeft(path) =>
    /\ at # "none" /\ pidfile[path] = pid
    /\ at # "boot" => path = image.path
    /\ at \in {"removed", "flushed"} => image.requested

\* The tasks are done before anything is taken down.
Unwound == at \in {"joined", "removed", "flushed"} => \A t \in Tasks : image.task[t] = "done"

Images == [token : BOOLEAN, requested : BOOLEAN, handles : SUBSET {"HUP", "TERM"},
           path : Paths \union {NoFile},
           task : [Tasks -> {"unborn", "spawned", "idle", "busy", "done"}],
           serving : 0 .. MaxRequests, stamping : BOOLEAN, lost : SUBSET {"work", "stamp"},
           told : BOOLEAN]

LifeIInv ==
  /\ image \in Images /\ pid \in Pids /\ pidfile \in [Paths -> Pids \union {NoFile}]
  /\ FilesAreKnown /\ Unwound /\ TelemetryIsFlushed

LEMMA NewIsImage == NewImage \in Images
  BY LifeAssumption DEF NewImage, Images

LEMMA NewHasLostNothing == NewImage.lost = {}
  BY DEF NewImage

LEMMA LifeBegins ==
  at = "none" /\ image = NewImage /\ pid \in Pids /\ pidfile = [path \in Paths |-> NoFile]
    => LifeIInv
  BY NewIsImage, NewHasLostNothing DEF LifeIInv, FilesAreKnown, NotLeft, Unwound, TelemetryIsFlushed

LEMMA FilesAreOrderly == LifeIInv => PidFileNamesServer /\ TelemetryIsFlushed
  BY DEF LifeIInv, FilesAreKnown, NotLeft, PidFileNamesServer

\* However a process ends, it ends well if no file is left of which nobody knows.
LEMMA EndsWell ==
  ASSUME LifeIInv, at' = "none", image' = NewImage, pid' = pid, pidfile' \in [Paths -> Pids \union {NoFile}],
         \A path \in Paths : ~ NotLeft(path)'
  PROVE  LifeIInv'
  BY NewIsImage, NewHasLostNothing DEF LifeIInv, FilesAreKnown, Unwound, TelemetryIsFlushed

LEMMA DyingKeeps ==
  ASSUME LifeIInv, at' = "none", image' = NewImage, UNCHANGED <<pid, pidfile>>,
         left' = left \union Mine
  PROVE  LifeIInv'
  <1>1. \A path \in Paths : ~ NotLeft(path)'
    BY DEF LifeIInv, FilesAreKnown, NotLeft, Mine
  <1> QED BY <1>1, EndsWell DEF LifeIInv

\* Whether the file at the path of the process is removed or not, none is left
\* of which nobody knows.
LEMMA RemovalIsKnown ==
  ASSUME LifeIInv, at \notin {"none", "boot"}, Removes(image.path)
  PROVE  /\ pidfile' \in [Paths -> Pids \union {NoFile}]
         /\ \A path \in Paths : ~ NotLeft(path)'
  <1>1. \A path \in Paths : NotLeft(path) => path = image.path
    BY DEF LifeIInv, FilesAreKnown
  <1>2. CASE pidfile' = [pidfile EXCEPT ![image.path] = NoFile] /\ left' = left \ {image.path}
    <2>1. \A path \in Paths : pidfile'[path] = IF path = image.path THEN NoFile ELSE pidfile[path]
      BY <1>2 DEF LifeIInv
    <2> QED BY <1>1, <1>2, <2>1 DEF LifeIInv, NotLeft
  <1>3. CASE left' = left \union {image.path} /\ UNCHANGED pidfile
    BY <1>1, <1>3 DEF LifeIInv, NotLeft
  <1> QED BY <1>2, <1>3 DEF Removes

\* Ends and beginnings, and what happens around the process.
LEMMA RecordingKeeps ==
  ASSUME LifeIInv, RecordPid
  PROVE  LifeIInv'
  <1> USE DEF LifeIInv
  <1>1. PICK path \in Paths :
          /\ image' = [image EXCEPT !.path = path]
          /\ \E content \in {pid, NoFile, pidfile[path]} :
               pidfile' = [pidfile EXCEPT ![path] = content]
          /\ left' = {p \in left \union Mine : p = path => pidfile'[p] \notin {pid, NoFile}}
    BY DEF RecordPid
  <1>2. PICK content \in {pid, NoFile, pidfile[path]} :
          pidfile' = [pidfile EXCEPT ![path] = content]
    BY <1>1
  <1>3. at = "boot" /\ at' = "recorded" /\ pid' = pid
    BY DEF RecordPid
  <1>4. image' \in Images /\ image'.path = path /\ image'.lost = image.lost
    BY <1>1 DEF Images
  <1>5. pidfile' \in [Paths -> Pids \union {NoFile}]
    BY <1>2
  <1>6. FilesAreKnown'
    <2> SUFFICES ASSUME NEW q \in Paths, NotLeft(q)' PROVE q = path /\ pidfile'[q] = pid
      BY <1>3, <1>4 DEF FilesAreKnown
    <2>1. pidfile'[q] # NoFile /\ q \notin left'
      BY DEF NotLeft
    <2>2. NotLeft(q) => pidfile[q] = pid
      BY DEF FilesAreKnown
    <2>3. CASE q # path
      <3>1. pidfile'[q] = pidfile[q]
        BY <1>2, <2>3
      <3>2. q \notin left /\ q \notin Mine
        BY <1>1, <2>1, <2>3
      <3> QED BY <2>1, <2>2, <3>1, <3>2 DEF NotLeft, Mine
    <2>4. CASE q = path
      <3>1. pidfile'[q] = content
        BY <1>2, <2>4
      <3>2. CASE content = pid
        BY <2>4, <3>1, <3>2
      <3>3. CASE content # pid
        <4>1. content = pidfile[q]
          BY <2>1, <2>4, <3>1, <3>3
        <4>2. q \notin left
          BY <1>1, <2>1, <3>1, <3>3
        <4> QED BY <2>1, <2>2, <3>1, <3>3, <4>1, <4>2 DEF NotLeft
      <3> QED BY <3>2, <3>3
    <2> QED BY <2>3, <2>4
  <1>7. Unwound' /\ TelemetryIsFlushed'
    BY <1>3, <1>4 DEF Unwound, TelemetryIsFlushed
  <1> QED BY <1>3, <1>4, <1>5, <1>6, <1>7

LEMMA EndsKeep ==
  ASSUME LifeIInv,
         \/ Start \/ StartFails \/ BindFails \/ Crash
         \/ Exit \/ Exec \/ ExecFails \/ ReadPidFile \/ UNCHANGED lifeVars
  PROVE  LifeIInv'
  <1> USE DEF LifeIInv
  <1>1. CASE Start
    BY <1>1 DEF Start, FilesAreKnown, NotLeft, Unwound, TelemetryIsFlushed
  <1>2. CASE StartFails \/ BindFails \/ Crash
    <2>1. Gone /\ left' = left \union Mine /\ UNCHANGED pidfile
      BY <1>2 DEF StartFails, BindFails, Crash, Dies
    <2> QED BY <2>1, DyingKeeps DEF Gone
  <1>3. CASE Exit
    <2>1. Gone /\ UNCHANGED <<pidfile, left>> /\ at = "flushed" /\ ~ image.requested
      BY <1>3 DEF Exit
    <2>2. \A path \in Paths : ~ NotLeft(path)'
      BY <2>1 DEF FilesAreKnown, NotLeft
    <2> QED BY <2>1, <2>2, EndsWell DEF Gone
  <1>4. CASE Exec
    <2>1. at = "flushed" /\ at' = "boot" /\ image' = NewImage /\ UNCHANGED <<pid, pidfile, left>>
      BY <1>4 DEF Exec
    <2>2. FilesAreKnown'
      BY <2>1 DEF FilesAreKnown, NotLeft
    <2> QED BY <2>1, <2>2, NewIsImage, NewHasLostNothing DEF Unwound, TelemetryIsFlushed
  <1>5. CASE ExecFails
    <2>1. Gone /\ Removes(image.path) /\ at = "flushed"
      BY <1>5 DEF ExecFails
    <2>2. /\ pidfile' \in [Paths -> Pids \union {NoFile}]
          /\ \A path \in Paths : ~ NotLeft(path)'
      BY <2>1, RemovalIsKnown
    <2> QED BY <2>1, <2>2, EndsWell DEF Gone
  <1>6. CASE ReadPidFile \/ UNCHANGED lifeVars
    BY <1>6 DEF ReadPidFile, lifeVars, FilesAreKnown, NotLeft, Unwound, TelemetryIsFlushed
  <1> QED BY <1>1, <1>2, <1>3, <1>4, <1>5, <1>6

\* A step that changes no file, and takes main no further than to its tasks.
LEMMA Untouched ==
  ASSUME LifeIInv, UNCHANGED <<pid, pidfile, left>>, image' \in Images,
         at \notin {"none", "boot", "joined", "removed", "flushed"},
         at' \notin {"none", "boot", "joined", "removed", "flushed"},
         image'.path = image.path, image'.lost = image.lost
  PROVE  LifeIInv'
  BY DEF LifeIInv, FilesAreKnown, NotLeft, Unwound, TelemetryIsFlushed

\* While it runs, what main remembers changes, and where it has got.
LEMMA RunsKeep ==
  ASSUME LifeIInv,
         \/ SpawnTasks \/ Bind \/ AwaitSignals \/ Request \/ Answer \/ RequestRestart
         \/ ServeEnds
  PROVE  LifeIInv'
  <1>1. image \in Images
    BY DEF LifeIInv
  <1>2. /\ UNCHANGED <<pid, pidfile, left>>
        /\ at \notin {"none", "boot", "joined", "removed", "flushed"}
        /\ at' \notin {"none", "boot", "joined", "removed", "flushed"}
    BY DEF SpawnTasks, Bind, AwaitSignals, Request, Answer, RequestRestart, ServeEnds, Stops,
           Remembers, Reaches, Drains
  <1>3. image' \in Images /\ image'.path = image.path /\ image'.lost = image.lost
    <2> USE <1>1, LifeAssumption DEF Images
    <2>1. CASE SpawnTasks BY <2>1 DEF SpawnTasks
    <2>2. CASE Bind BY <2>2 DEF Bind, Reaches
    <2>3. CASE AwaitSignals BY <2>3 DEF AwaitSignals, Remembers
    <2>4. CASE Request BY <2>4 DEF Request, Remembers
    <2>5. CASE Answer
      <3>1. image.serving - 1 \in 0 .. MaxRequests
        BY <2>5 DEF Answer
      <3>2. LostOf("work") = image.lost
        BY <2>5 DEF Answer, LostOf
      <3> QED BY <2>5, <3>1, <3>2 DEF Answer, Remembers
    <2>6. CASE RequestRestart BY <2>6 DEF RequestRestart, Drains
    <2>7. CASE ServeEnds
      <3>1. image' = [image EXCEPT !.serving = 0, !.token = TRUE] /\ 0 \in 0 .. MaxRequests
        BY <2>7 DEF ServeEnds
      <3> QED BY <3>1
    <2> QED BY <2>1, <2>2, <2>3, <2>4, <2>5, <2>6, <2>7
  <1> QED BY <1>2, <1>3, Untouched

\* The way out.
LEMMA UnwindingKeeps ==
  ASSUME LifeIInv, Join \/ RemovePid \/ Flush
  PROVE  LifeIInv'
  <1> USE DEF LifeIInv
  <1>1. CASE Join
    BY <1>1 DEF Join, Reaches, FilesAreKnown, NotLeft, Unwound, TelemetryIsFlushed
  <1>2. CASE RemovePid
    <2>1. at = "joined" /\ at' = "removed" /\ UNCHANGED <<image, pid>>
      BY <1>2 DEF RemovePid
    <2>2. Unwound' /\ TelemetryIsFlushed'
      BY <2>1 DEF Unwound, TelemetryIsFlushed
    <2>3. CASE image.requested
      <3>1. UNCHANGED <<pidfile, left>>
        BY <1>2, <2>3 DEF RemovePid
      <3> QED BY <2>1, <2>2, <2>3, <3>1 DEF FilesAreKnown, NotLeft
    <2>4. CASE ~ image.requested
      <3>1. /\ pidfile' \in [Paths -> Pids \union {NoFile}]
            /\ \A path \in Paths : ~ NotLeft(path)'
        BY <1>2, <2>1, <2>4, RemovalIsKnown DEF RemovePid
      <3> QED BY <2>1, <2>2, <3>1 DEF FilesAreKnown
    <2> QED BY <2>3, <2>4
  <1>3. CASE Flush
    BY <1>3 DEF Flush, Reaches, FilesAreKnown, NotLeft, Unwound, TelemetryIsFlushed
  <1> QED BY <1>1, <1>2, <1>3

\* What is remembered, wherever main has got: a signal that came, a stamp.
LEMMA RememberingKeeps ==
  ASSUME LifeIInv, UNCHANGED <<at, pid, pidfile, left>>, image' \in Images,
         image'.path = image.path, image'.requested = image.requested,
         \A t \in Tasks : image.task[t] = "done" => image'.task[t] = "done",
         image'.lost \subseteq image.lost \union {"stamp"}
  PROVE  LifeIInv'
  BY DEF LifeIInv, FilesAreKnown, NotLeft, Unwound, TelemetryIsFlushed

LEMMA StampsKeep ==
  ASSUME LifeIInv, StampBegins \/ StampEnds
  PROVE  LifeIInv'
  <1>1. image \in Images
    BY DEF LifeIInv
  <1>2. UNCHANGED <<at, pid, pidfile, left>>
    BY DEF StampBegins, StampEnds, Remembers
  <1>3. /\ image' \in Images /\ image'.path = image.path /\ image'.requested = image.requested
        /\ image'.task = image.task /\ image'.lost \subseteq image.lost \union {"stamp"}
    <2>1. CASE StampBegins BY <1>1, <2>1 DEF StampBegins, Remembers, Images
    <2>2. CASE StampEnds BY <1>1, <2>2 DEF StampEnds, LostOf, Remembers, Images
    <2> QED BY <2>1, <2>2
  <1> QED BY <1>2, <1>3, RememberingKeeps

\* A task that is done does nothing any more.
LEMMA TasksKeep ==
  ASSUME LifeIInv, NEW t \in Tasks, TaskStep(t)
  PROVE  LifeIInv'
  <1>1. image \in Images
    BY DEF LifeIInv
  <1>2. UNCHANGED <<at, pid, pidfile, left>> /\ image.task[t] # "done"
    BY DEF TaskStep, TaskBegins, TaskWakes, TaskRests, TaskEnds, Remembers
  <1>3. at \notin {"joined", "removed", "flushed"}
    BY <1>2 DEF LifeIInv, Unwound
  <1>4. LostOf("work") = image.lost
    BY <1>3 DEF LostOf
  <1>5. /\ image' \in Images /\ image'.path = image.path /\ image'.requested = image.requested
        /\ image'.lost = image.lost
    <2> USE <1>1, <1>4 DEF Images, Remembers
    <2>1. CASE TaskBegins(t) BY <2>1 DEF TaskBegins
    <2>2. CASE TaskWakes(t) BY <2>2 DEF TaskWakes
    <2>3. CASE TaskRests(t) BY <2>3 DEF TaskRests
    <2>4. CASE TaskEnds(t) BY <2>4 DEF TaskEnds
    <2> QED BY <2>1, <2>2, <2>3, <2>4 DEF TaskStep
  <1> QED BY <1>2, <1>3, <1>5 DEF LifeIInv, FilesAreKnown, NotLeft, Unwound, TelemetryIsFlushed

LEMMA SignalsKeep ==
  ASSUME LifeIInv, Terminate \/ SendReloadSignal
  PROVE  LifeIInv'
  <1>1. image \in Images
    BY DEF LifeIInv
  <1>2. CASE /\ at' = "none" /\ image' = NewImage /\ left' = left \union Mine
             /\ UNCHANGED <<pid, pidfile>>
    BY <1>2, DyingKeeps
  <1>3. CASE Drains([image EXCEPT !.told = TRUE]) /\ at = "serving"
    <2>1. /\ at' = "draining" /\ UNCHANGED <<pid, pidfile, left>>
          /\ image' \in Images /\ image'.path = image.path /\ image'.lost = image.lost
      BY <1>1, <1>3 DEF Drains, Images
    <2> QED BY <1>3, <2>1, Untouched
  <1>4. CASE Remembers([image EXCEPT !.told = TRUE])
    <2>1. /\ UNCHANGED <<at, pid, pidfile, left>> /\ image' \in Images
          /\ image'.path = image.path /\ image'.requested = image.requested
          /\ image'.task = image.task /\ image'.lost = image.lost
      BY <1>1, <1>4 DEF Remembers, Images
    <2> QED BY <2>1, RememberingKeeps
  <1>5. CASE UNCHANGED <<at, image, pid, pidfile, left>>
    BY <1>1, <1>5, RememberingKeeps
  <1>6. CASE /\ image' = [image EXCEPT !.task["reload"] = IF @ = "idle" THEN "busy" ELSE @]
             /\ UNCHANGED <<at, pid, pidfile, left>>
    <2>1. /\ image' \in Images /\ image'.path = image.path
          /\ image'.requested = image.requested /\ image'.lost = image.lost
          /\ \A t \in Tasks : image.task[t] = "done" => image'.task[t] = "done"
      BY <1>1, <1>6, LifeAssumption DEF Images
    <2> QED BY <1>6, <2>1, RememberingKeeps
  <1> QED BY <1>2, <1>3, <1>4, <1>5, <1>6 DEF Terminate, Dies, SendReloadSignal, Gone

LEMMA LifeSteps == LifeIInv /\ [LifeNext]_lifeVars => LifeIInv'
  BY RecordingKeeps, EndsKeep, RunsKeep, UnwindingKeeps, StampsKeep, TasksKeep, SignalsKeep
     DEF LifeNext

\* Where main is, which ids there are, that an image has its path as soon as the
\* file is written, and that a process asked to come back has been told to stop.
LifeKnown ==
  /\ at \in Positions /\ client \in Pids \union {NoFile} /\ left \subseteq Paths
  /\ image.path = NoFile <=> at \in {"none", "boot"}
  /\ image.requested => image.token

LEMMA LifeStaysKnown == LifeIInv /\ LifeKnown /\ [LifeNext]_lifeVars => LifeKnown'
  <1> SUFFICES ASSUME LifeIInv, LifeKnown, [LifeNext]_lifeVars PROVE LifeKnown'
    OBVIOUS
  <1> USE DEF LifeKnown, Positions
  <1>1. image \in Images
    BY DEF LifeIInv
  <1>2. NewImage.requested = FALSE /\ NewImage.path = NoFile
    BY DEF NewImage
  <1>3. ASSUME at' \in Positions, UNCHANGED <<client, left>>, at' \notin {"none", "boot"},
               at \notin {"none", "boot"}, image'.path = image.path,
               image'.requested => image'.token
        PROVE  LifeKnown'
    BY <1>3
  <1>4. ASSUME UNCHANGED <<at, client, left>>, image'.path = image.path,
               image'.requested => image'.token
        PROVE  LifeKnown'
    BY <1>4
  <1>5. ASSUME Gone, left' \subseteq Paths
        PROVE  LifeKnown'
    BY <1>2, <1>5 DEF Gone
  <1>6. CASE StartFails \/ BindFails \/ Crash \/ Exit
    <2>1. Gone /\ left' \subseteq Paths
      BY <1>6 DEF StartFails, BindFails, Crash, Exit, Dies, Mine
    <2> QED BY <2>1, <1>5
  <1>7. ASSUME Removes(image.path), at \notin {"none", "boot"}
        PROVE  left' \subseteq Paths
    <2>1. image.path \in Paths
      BY <1>1, <1>7 DEF Images
    <2> QED BY <1>7, <2>1 DEF Removes
  <1>8. CASE ExecFails
    BY <1>5, <1>7, <1>8 DEF ExecFails
  <1>9. CASE RemovePid
    BY <1>7, <1>9 DEF RemovePid
  <1>10. CASE Start \/ Exec
    BY <1>2, <1>10 DEF Start, Exec
  <1>11. CASE RecordPid
    <2>1. PICK path \in Paths :
            /\ image' = [image EXCEPT !.path = path]
            /\ left' = {p \in left \union Mine : p = path => pidfile'[p] \notin {pid, NoFile}}
      BY <1>11 DEF RecordPid
    <2>2. image'.path # NoFile /\ image'.requested = image.requested /\ image'.token = image.token
      BY <1>1, <2>1, LifeAssumption DEF Images
    <2>3. left' \subseteq Paths
      BY <2>1 DEF Mine
    <2> QED BY <1>11, <2>2, <2>3 DEF RecordPid
  <1>12. CASE Bind \/ Join \/ Flush \/ UNCHANGED lifeVars
    BY <1>12 DEF Bind, Join, Flush, Reaches, lifeVars
  <1>13. CASE ReadPidFile
    BY <1>13 DEF ReadPidFile, LifeIInv
  <1>14. CASE SpawnTasks \/ ServeEnds
    <2>1. image'.path = image.path /\ (image'.requested => image'.token)
      <3>1. CASE SpawnTasks BY <1>1, <3>1 DEF SpawnTasks, Images
      <3>2. CASE ServeEnds BY <1>1, <3>2 DEF ServeEnds, Images
      <3> QED BY <1>14, <3>1, <3>2
    <2>2. /\ at' \in Positions /\ UNCHANGED <<client, left>>
          /\ at' \notin {"none", "boot"} /\ at \notin {"none", "boot"}
      BY <1>14 DEF SpawnTasks, ServeEnds, Stops
    <2> QED BY <1>3, <2>1, <2>2
  <1>15. CASE AwaitSignals \/ Request \/ Answer \/ StampBegins \/ StampEnds
    <2>1. /\ image'.path = image.path
          /\ image'.requested = image.requested /\ image'.token = image.token
      <3>1. CASE AwaitSignals BY <1>1, <3>1 DEF AwaitSignals, Remembers, Images
      <3>2. CASE Request BY <1>1, <3>2 DEF Request, Remembers, Images
      <3>3. CASE Answer BY <1>1, <3>3 DEF Answer, Remembers, Images
      <3>4. CASE StampBegins BY <1>1, <3>4 DEF StampBegins, Remembers, Images
      <3>5. CASE StampEnds BY <1>1, <3>5 DEF StampEnds, Remembers, Images
      <3> QED BY <1>15, <3>1, <3>2, <3>3, <3>4, <3>5
    <2>2. UNCHANGED <<at, client, left>>
      BY <1>15 DEF AwaitSignals, Request, Answer, StampBegins, StampEnds, Remembers
    <2> QED BY <1>4, <2>1, <2>2
  <1>16. CASE Terminate
    <2>1. CASE Dies
      BY <1>5, <2>1 DEF Dies, Mine
    <2>2. CASE at = "serving" /\ Drains([image EXCEPT !.told = TRUE])
      <3>1. image'.path = image.path /\ image'.token = TRUE
        BY <1>1, <2>2 DEF Drains, Images
      <3> QED BY <1>3, <2>2, <3>1 DEF Drains
    <2>3. CASE Remembers([image EXCEPT !.told = TRUE])
      <3>1. /\ image'.path = image.path
            /\ image'.requested = image.requested /\ image'.token = image.token
        BY <1>1, <2>3 DEF Remembers, Images
      <3> QED BY <1>4, <2>3, <3>1 DEF Remembers
    <2> QED BY <1>16, <2>1, <2>2, <2>3 DEF Terminate
  <1>17. CASE RequestRestart
    <2>1. image'.path = image.path /\ image'.token = TRUE
      BY <1>1, <1>17 DEF RequestRestart, Drains, Images
    <2> QED BY <1>3, <1>17, <2>1 DEF RequestRestart, Drains
  <1>18. ASSUME NEW t \in Tasks, TaskStep(t) PROVE LifeKnown'
    <2>1. /\ image'.path = image.path
          /\ image'.requested = image.requested /\ image'.token = image.token
      <3>1. CASE TaskBegins(t) BY <1>1, <3>1 DEF TaskBegins, Remembers, Images
      <3>2. CASE TaskWakes(t) BY <1>1, <3>2 DEF TaskWakes, Remembers, Images
      <3>3. CASE TaskRests(t) BY <1>1, <3>3 DEF TaskRests, Remembers, Images
      <3>4. CASE TaskEnds(t) BY <1>1, <3>4 DEF TaskEnds, Remembers, Images
      <3> QED BY <1>18, <3>1, <3>2, <3>3, <3>4 DEF TaskStep
    <2>2. UNCHANGED <<at, client, left>>
      BY <1>18 DEF TaskStep, TaskBegins, TaskWakes, TaskRests, TaskEnds, Remembers
    <2> QED BY <1>4, <2>1, <2>2
  <1>19. CASE SendReloadSignal
    <2>1. CASE at' = "none" /\ image' = NewImage /\ left' = left \union Mine
      BY <1>2, <1>19, <2>1 DEF SendReloadSignal, Mine
    <2>2. CASE UNCHANGED <<at, left>>
      <3>1. /\ image'.path = image.path
            /\ image'.requested = image.requested /\ image'.token = image.token
        BY <1>1, <1>19, <2>2, <1>2 DEF SendReloadSignal, Images
      <3> QED BY <1>19, <2>2, <3>1 DEF SendReloadSignal
    <2> QED BY <1>19, <2>1, <2>2 DEF SendReloadSignal
  <1> QED BY <1>6, <1>8, <1>9, <1>10, <1>11, <1>12, <1>13, <1>14, <1>15, <1>16, <1>17, <1>18,
             <1>19 DEF LifeNext

LEMMA LifeIsTyped == LifeIInv /\ LifeKnown => LifeTypeOK
  BY DEF LifeIInv, LifeKnown, LifeTypeOK, Images

\* Whatever order signals, restarts, crashes and failed execs come in, and
\* whatever pid_file each image reads: a PID file names the server unless a
\* process was killed or could not start, its removal failed, or a restart took
\* up another path; and what requests and tasks recorded is sent before an
\* orderly end (main.rs, cli.rs, restart.rs).
THEOREM EndsAreOrderly == LifeSpec => [](PidFileNamesServer /\ TelemetryIsFlushed)
  <1>1. LifeInit => LifeIInv
    BY LifeBegins DEF LifeInit
  <1> QED BY <1>1, FilesAreOrderly, LifeSteps, PTL DEF LifeSpec

-----------------------------------------------------------------------------
(***************************************************************************)
(* The log filter task.                                                    *)
(***************************************************************************)
Followers == [at : {"spawned", "watching", "done"}, current : Levels \union {Default},
              unseen : BOOLEAN]

WatchIInv ==
  /\ running \in [log_level : Levels, cleanup_interval_seconds : Intervals]
  /\ follower \in Followers
  /\ BeliefIsTrue

LEMMA BeliefSteps == WatchIInv /\ [WatchNext]_watchVars => WatchIInv'
  <1> SUFFICES ASSUME WatchIInv, [WatchNext]_watchVars PROVE WatchIInv'
    OBVIOUS
  <1> USE DEF WatchIInv, Followers, BeliefIsTrue
  <1>1. CASE Publish
    <2>1. \A b \in BOOLEAN : [follower EXCEPT !.unseen = b] \in Followers
                             /\ [follower EXCEPT !.unseen = b].at = follower.at
                             /\ [follower EXCEPT !.unseen = b].current = follower.current
      OBVIOUS
    <2>2. /\ follower' = [follower EXCEPT !.unseen = (follower.at = "watching")]
          /\ UNCHANGED <<filter, early>>
          /\ running' \in [log_level : Levels, cleanup_interval_seconds : Intervals]
      BY <1>1 DEF Publish
    <2>3. (follower.at = "watching") \in BOOLEAN
      OBVIOUS
    <2> HIDE DEF Followers
    <2> QED BY <2>1, <2>2, <2>3
  <1>2. CASE Subscribe
    <2>1. /\ follower' = [at |-> "watching", current |-> running.log_level, unseen |-> FALSE]
          /\ ~ early' => running.log_level = filter
          /\ UNCHANGED <<running, filter>>
      BY <1>2 DEF Subscribe
    <2> QED BY <2>1
  <1>3. CASE Follow
    <2>1. /\ follower.at = "watching" /\ running' = running
          /\ \/ /\ follower' = [follower EXCEPT !.unseen = FALSE]
                /\ UNCHANGED <<filter, early>>
             \/ /\ follower' = [follower EXCEPT !.unseen = FALSE, !.current = running.log_level]
                /\ filter' = running.log_level
      BY <1>3 DEF Follow
    <2> QED BY <2>1
  <1>4. CASE Leave BY <1>4 DEF Leave
  <1>5. CASE UNCHANGED <<running, follower, filter, early>> BY <1>5
  <1> QED BY <1>1, <1>2, <1>3, <1>4, <1>5
          DEF WatchNext, watchVars, FollowInterval, Second, Tick, Shutdown

LEMMA WatchBegins == WatchInit => WatchIInv
  BY DEF WatchInit, WatchIInv, Followers, BeliefIsTrue

\* The level in force is one the filter understands, and the next sweep is at
\* most a period away.
WatchKnown ==
  /\ running \in [log_level : Levels, cleanup_interval_seconds : Intervals]
  /\ follower \in Followers
  /\ filter \in (Levels \ Unparsable) \union {Default}
  /\ sweeper \in [at : {"watching", "done"}, period : Intervals, left : Nat, unseen : BOOLEAN]
  /\ sweeper.left <= interval_for(sweeper.period)
  /\ stopping \in BOOLEAN /\ early \in BOOLEAN

LEMMA IntervalsArePositive == \A i \in Intervals : interval_for(i) \in Nat \ {0}
  BY WatchAssumption DEF interval_for

LEMMA WatchBeginsKnown == WatchInit => WatchKnown
  <1> SUFFICES ASSUME WatchInit PROVE WatchKnown
    OBVIOUS
  <1> USE DEF WatchInit
  <1>1. running \in [log_level : Levels, cleanup_interval_seconds : Intervals]
    OBVIOUS
  <1>2. filter \in (Levels \ Unparsable) \union {Default}
    BY <1>1 DEF log_filter, FilterParses
  <1>3. /\ sweeper \in [at : {"watching", "done"}, period : Intervals, left : Nat, unseen : BOOLEAN]
        /\ sweeper.left <= interval_for(sweeper.period)
    BY <1>1, IntervalsArePositive
  <1> QED BY <1>1, <1>2, <1>3 DEF WatchKnown, Followers

LEMMA WatchStaysKnown == WatchKnown /\ [WatchNext]_watchVars => WatchKnown'
  <1> SUFFICES ASSUME WatchKnown, [WatchNext]_watchVars PROVE WatchKnown'
    OBVIOUS
  <1> USE DEF WatchKnown, Followers
  <1>1. CASE Publish BY <1>1 DEF Publish
  <1>2. CASE Subscribe BY <1>2 DEF Subscribe
  <1>3. CASE Follow
    <2> DEFINE same == [follower EXCEPT !.unseen = FALSE]
               new == [follower EXCEPT !.unseen = FALSE, !.current = running.log_level]
    <2>1. same \in Followers /\ new \in Followers
      OBVIOUS
    <2>2. /\ UNCHANGED <<running, sweeper, stopping>>
          /\ \/ follower' = same /\ UNCHANGED <<filter, early>>
             \/ /\ running.log_level \notin Unparsable
                /\ follower' = new /\ filter' = running.log_level /\ early' = FALSE
      BY <1>3 DEF Follow, FilterParses
    <2>3. running.log_level \in Levels
      OBVIOUS
    <2> HIDE DEF same, new, Followers
    <2> QED BY <2>1, <2>2, <2>3
  <1>4. CASE FollowInterval
    <2>1. UNCHANGED <<running, follower, filter, stopping, early>>
      BY <1>4 DEF FollowInterval
    <2>2. CASE sweeper' = [sweeper EXCEPT !.unseen = FALSE]
      BY <2>1, <2>2
    <2>3. CASE sweeper' = [sweeper EXCEPT !.unseen = FALSE, !.period = running.cleanup_interval_seconds,
                                          !.left = interval_for(running.cleanup_interval_seconds)]
      <3> DEFINE i == running.cleanup_interval_seconds
      <3>1. i \in Intervals /\ interval_for(i) \in Nat
        BY IntervalsArePositive
      <3> HIDE DEF i
      <3>2. sweeper' = [sweeper EXCEPT !.unseen = FALSE, !.period = i, !.left = interval_for(i)]
        BY <2>3 DEF i
      <3>3. /\ sweeper' \in [at : {"watching", "done"}, period : Intervals, left : Nat, unseen : BOOLEAN]
            /\ sweeper'.left = interval_for(i) /\ sweeper'.period = i
        <4> SUFFICES ASSUME NEW n \in Nat, n = interval_for(i)
                     PROVE  /\ sweeper' \in [at : {"watching", "done"}, period : Intervals,
                                             left : Nat, unseen : BOOLEAN]
                            /\ sweeper'.left = n /\ sweeper'.period = i
          BY <3>1
        <4> QED BY <3>1, <3>2
      <3>4. sweeper'.left <= interval_for(sweeper'.period)
        <4> SUFFICES ASSUME NEW n \in Nat, n = interval_for(i) PROVE sweeper'.left <= n
          BY <3>1, <3>3
        <4> QED BY <3>3
      <3> QED BY <2>1, <3>3, <3>4
    <2> QED BY <1>4, <2>2, <2>3 DEF FollowInterval
  <1>5. CASE Second BY <1>5, IntervalsArePositive DEF Second
  <1>6. CASE Tick BY <1>6, IntervalsArePositive DEF Tick
  <1>7. CASE Shutdown \/ UNCHANGED watchVars BY <1>7 DEF Shutdown, watchVars
  <1>8. CASE Leave BY <1>8 DEF Leave
  <1> QED BY <1>1, <1>2, <1>3, <1>4, <1>5, <1>6, <1>7, <1>8 DEF WatchNext

LEMMA WatchIsTyped == WatchKnown => WatchTypeOK
  BY IntervalsArePositive DEF WatchKnown, WatchTypeOK, Followers

\* The task never takes a level for installed that is not, so it never skips
\* one that is missing, unless the start itself left another one in place
\* (log_filter.rs).
THEOREM BeliefHolds == WatchSpec => []BeliefIsTrue
  <1>1. WatchIInv => BeliefIsTrue
    BY DEF WatchIInv
  <1> QED BY <1>1, WatchBegins, BeliefSteps, PTL DEF WatchSpec

-----------------------------------------------------------------------------
(***************************************************************************)
(* The composition.                                                        *)
(***************************************************************************)
LEMMA PartsStep ==
  [MCNext]_mcVars =>
    /\ [LifeNext]_lifeVars /\ [WatchNext]_watchVars /\ [AdmitNext]_admitVars
    /\ [WrapNext]_wrapVars /\ [NodeNext]_nodeVars
    /\ mode' = mode /\ (mode # "watch" => UNCHANGED watchVars)
  <1> SUFFICES ASSUME [MCNext]_mcVars
               PROVE  /\ [LifeNext]_lifeVars /\ [WatchNext]_watchVars /\ [AdmitNext]_admitVars
                      /\ [WrapNext]_wrapVars /\ [NodeNext]_nodeVars
                      /\ mode' = mode /\ (mode # "watch" => UNCHANGED watchVars)
    OBVIOUS
  <1> QED BY DEF MCNext, mcVars, NodeNext

\* The composition implements the keys, the singleton and the calls.
LEMMA PartsAreImplemented == MCSpec => AdmitSpec /\ WrapSpec /\ NodeSpec
  <1>1. MCInit => AdmitInit /\ WrapInit /\ NodeInit
    BY DEF MCInit
  <1> QED BY <1>1, PartsStep, PTL DEF MCSpec, AdmitSpec, WrapSpec, NodeSpec

\* main and the tasks rest in states of their own while they are not chosen.
BackgroundIInv == LifeIInv /\ IF mode = "watch" THEN WatchIInv ELSE BeliefIsTrue

LEMMA BackgroundBegins == MCInit => BackgroundIInv
  <1> SUFFICES ASSUME MCInit PROVE BackgroundIInv
    OBVIOUS
  <1>1. LifeIInv
    BY LifeBegins, ParkAssumption DEF MCInit, LifeInit, LifeParked
  <1>2. mode = "watch" => WatchIInv
    BY WatchBegins DEF MCInit
  <1>3. mode # "watch" => BeliefIsTrue
    BY DEF MCInit, WatchParked, BeliefIsTrue
  <1> QED BY <1>1, <1>2, <1>3 DEF BackgroundIInv

LEMMA BackgroundSteps == BackgroundIInv /\ [MCNext]_mcVars => BackgroundIInv'
  <1> SUFFICES ASSUME BackgroundIInv, [MCNext]_mcVars PROVE BackgroundIInv'
    OBVIOUS
  <1>1. LifeIInv'
    BY PartsStep, LifeSteps DEF BackgroundIInv
  <1>2. CASE mode = "watch"
    BY <1>1, <1>2, PartsStep, BeliefSteps DEF BackgroundIInv
  <1>3. CASE mode # "watch"
    <2>1. UNCHANGED watchVars /\ mode' = mode
      BY <1>3, PartsStep
    <2>2. BeliefIsTrue'
      BY <1>3, <2>1 DEF BackgroundIInv, BeliefIsTrue, watchVars
    <2> QED BY <1>1, <1>3, <2>1, <2>2 DEF BackgroundIInv
  <1> QED BY <1>2, <1>3

\* main's ends are orderly, as far as they are in EndsAreOrderly, and the filter
\* task's belief is true, in whatever order signals, restarts, tasks and
\* publications come.
THEOREM BackgroundIsOrderly == MCSpec => []BackgroundHolds
  <1>1. BackgroundIInv => BackgroundHolds
    BY FilesAreOrderly DEF BackgroundIInv, WatchIInv, BackgroundHolds
  <1> QED BY <1>1, BackgroundBegins, BackgroundSteps, PTL DEF MCSpec

\* Every part keeps its types while it runs, and while it rests.
KnownIInv == LifeIInv /\ LifeKnown /\ WatchKnown /\ WrapKnown /\ NodeKnown

LEMMA KnownBegins == MCInit => KnownIInv
  <1> SUFFICES ASSUME MCInit PROVE KnownIInv
    OBVIOUS
  <1>1. LifeIInv
    BY BackgroundBegins DEF BackgroundIInv
  <1>2. LifeKnown
    <2>1. at = "none" /\ image = NewImage /\ client = NoFile /\ left = {}
      BY DEF MCInit, LifeInit, LifeParked
    <2> QED BY <2>1 DEF LifeKnown, Positions, NewImage
  <1>3. WatchKnown
    <2>1. CASE mode = "watch"
      BY <2>1, WatchBeginsKnown DEF MCInit
    <2>2. CASE mode # "watch"
      <3>1. WatchParked
        BY <2>2 DEF MCInit
      <3>2. running \in [log_level : Levels, cleanup_interval_seconds : Intervals]
        BY <3>1, ParkAssumption DEF WatchParked
      <3>3. /\ sweeper \in [at : {"watching", "done"}, period : Intervals, left : Nat, unseen : BOOLEAN]
            /\ sweeper.left <= interval_for(sweeper.period)
        BY <3>1, ParkAssumption DEF WatchParked, interval_for
      <3>4. follower \in Followers /\ filter \in Levels \ Unparsable
        BY <3>1, ParkAssumption DEF WatchParked, Followers
      <3> QED BY <3>1, <3>2, <3>3, <3>4 DEF WatchParked, WatchKnown
    <2> QED BY <2>1, <2>2
  <1>4. WrapKnown /\ NodeKnown
    BY WrapBeginsKnown, NodeBeginsKnown DEF MCInit
  <1> QED BY <1>1, <1>2, <1>3, <1>4 DEF KnownIInv

LEMMA KnownStays == KnownIInv /\ WrapIInv /\ NodeIInv /\ [MCNext]_mcVars => KnownIInv'
  BY PartsStep, LifeSteps, LifeStaysKnown, WatchStaysKnown, WrapStaysKnown, NodeStaysKnown
     DEF KnownIInv

\* The types of the composition: where main, the tasks, the singleton and the
\* calls can be, that no more connections are out than the pool has, that
\* the next sweep is never further off than a period, and that a process that
\* is to come back has been told to stop.
THEOREM ServerIsTyped == MCSpec => []ServerTypeOK
  <1>1. MCSpec => []WrapIInv /\ []NodeIInv /\ []AdmitTypeOK
    BY PartsAreImplemented, WrapInvariant, NodeInvariant, AdmissionIsTyped, PTL
  <1>2. MCSpec => []KnownIInv
    BY <1>1, KnownBegins, KnownStays, PTL DEF MCSpec
  <1>3. KnownIInv /\ WrapIInv /\ NodeIInv /\ AdmitTypeOK => ServerTypeOK
    BY LifeIsTyped, WatchIsTyped, WrapIsTyped, NodeIsTyped DEF KnownIInv, ServerTypeOK
  <1> QED BY <1>1, <1>2, <1>3, PTL

\* No deleted key comes back, no closed instance is given without a cause, and
\* no call writes once close has been answered.
THEOREM StepsAreRight == MCSpec => StepsAreJustified
  BY PartsAreImplemented, DeletionIsFinal, ClosedIsNotGiven, CloseEndsWriting, PTL
     DEF StepsAreJustified
=============================================================================
